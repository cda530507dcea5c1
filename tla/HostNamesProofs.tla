-------------------------- MODULE HostNamesProofs ---------------------------
(***************************************************************************)
(* Proofs about HostNames: its types, OneDevicePerName, CurrentListIsExact,*)
(* ViewsAgree, OneBlock, ForeignLinesKept and NewcomersRenameNoNode, for   *)
(* any names and whatever slug of them, any addresses and foreign lines,   *)
(* and any number of changes, edits, crashes and refusals                  *)
(* (HostsAssumption).                                                      *)
(*                                                                         *)
(* The argument has three parts.  The loop of buildHosts gives every       *)
(* device of a list a name that none before it has, because among the      *)
(* numbered labels one is always free, and it never looks behind.  What    *)
(* the hosts file holds of the block is one block, wherever others cut it, *)
(* and stripManagedBlock takes out all of it and nothing else.  A list of  *)
(* an agent that lacks a change has an older version, because the version  *)
(* is read before the tables.                                              *)
(*                                                                         *)
(* What a loop over a list computes is found with the least prefix of the  *)
(* list for which a claim fails (LeastNat, SeqInduction), since no         *)
(* induction theorem with an operator as its parameter can be used.        *)
(***************************************************************************)
EXTENDS HostNames, NaturalsInduction, WellFoundedInduction, SequenceTheorems,
        FiniteSetTheorems, TLAPS

-----------------------------------------------------------------------------
(* Least numbers, and sequences taken apart at their end.                  *)

\* A set of numbers that is not empty has a least one.
LEMMA LeastNat ==
  ASSUME NEW S, S \subseteq Nat, S # {}
  PROVE  \E n \in S : \A m \in Nat : m < n => m \notin S
<1> DEFINE R == OpToRel(<, Nat)
<1>1. IsWellFoundedOn(R, Nat)
  BY NatLessThanWellFounded
<1>2. \A m, k \in Nat : m < k => <<m, k>> \in R
  BY DEF OpToRel
<1> HIDE DEF R
<1>3. PICK n \in S : \A m \in S : ~ (<<m, n>> \in R)
  BY <1>1, WFMin
<1>4. \A m \in Nat : m < n => m \notin S
  BY <1>2, <1>3
<1> QED
  BY <1>4

\* What Min of a set of numbers is.
LEMMA MinNat ==
  ASSUME NEW S, S \subseteq Nat, S # {}
  PROVE  Min(S) \in S /\ \A y \in S : Min(S) <= y
<1>1. PICK n \in S : \A m \in Nat : m < n => m \notin S
  BY LeastNat
<1>2. \A y \in S : n <= y
  BY <1>1
<1> QED
  BY <1>2 DEF Min

\* The number before, for the steps from the least counterexample to the one before it.
LEMMA Predecessor ==
  ASSUME NEW n \in Nat, n # 0
  PROVE  n - 1 \in Nat /\ n - 1 < n /\ (n - 1) + 1 = n /\ n - 1 - 1 + 1 = n - 1
OBVIOUS

\* What Append does to length, domain and elements.
LEMMA AppendSeq ==
  ASSUME NEW T, NEW s \in Seq(T), NEW x \in T
  PROVE  /\ Append(s, x) \in Seq(T) /\ Len(Append(s, x)) = Len(s) + 1 /\ Len(s) \in Nat
         /\ \A i \in 1..Len(s) : Append(s, x)[i] = s[i]
         /\ Append(s, x)[Len(s) + 1] = x
         /\ DOMAIN Append(s, x) = 1..(Len(s) + 1) /\ DOMAIN s = 1..Len(s)
OBVIOUS

\* A sequence that is not empty is another one with its last element appended.
LEMMA LastOut ==
  ASSUME NEW T, NEW s \in Seq(T), Len(s) # 0
  PROVE  \E f \in Seq(T), x \in T : s = Append(f, x) /\ Len(f) = Len(s) - 1
<1> DEFINE f == SubSeq(s, 1, Len(s) - 1)
<1>1. Len(s) \in Nat \ {0} /\ \A i \in 1..Len(s) : s[i] \in T
  BY LenProperties, ElementOfSeq
<1>2. f \in Seq(T) /\ Len(f) = Len(s) - 1 /\ \A i \in 1..(Len(s) - 1) : f[i] = s[i]
  <2> DEFINE n == Len(s) - 1
  <2>1. n \in Nat
    BY <1>1
  <2>2. \A i \in 1..n : s[i] \in T
    BY <1>1
  <2> HIDE DEF n
  <2>3. /\ SubSeq(s, 1, n) \in Seq(T)
        /\ Len(SubSeq(s, 1, n)) = IF 1 <= n THEN n - 1 + 1 ELSE 0
        /\ \A i \in 1..(n - 1 + 1) : SubSeq(s, 1, n)[i] = s[1 + i - 1]
    BY <2>1, <2>2, SubSeqProperties
  <2>4. n - 1 + 1 = n /\ (~(1 <= n) => n = 0) /\ \A i \in 1..n : 1 + i - 1 = i
    BY <2>1
  <2>5. Len(SubSeq(s, 1, n)) = n /\ \A i \in 1..n : SubSeq(s, 1, n)[i] = s[i]
    BY <2>3, <2>4
  <2> QED
    BY <2>3, <2>5 DEF n
<1>3. s = Append(f, s[Len(s)])
  <2> DEFINE a == Append(f, s[Len(s)])
  <2>1. a \in Seq(T) /\ Len(a) = Len(s)
    BY <1>1, <1>2, AppendSeq
  <2>2. \A i \in 1..Len(s) : a[i] = s[i]
    BY <1>1, <1>2, AppendSeq
  <2> HIDE DEF a
  <2>3. s = a
    BY <2>1, <2>2, SeqEqual
  <2> QED
    BY <2>3 DEF a
<1>4. s[Len(s)] \in T
  BY <1>1
<1> HIDE DEF f
<1> QED
  BY <1>2, <1>3, <1>4

\* What the empty sequence has and Append keeps, every sequence has.
LEMMA SeqInduction ==
  ASSUME NEW T, NEW Bad \in SUBSET Seq(T), <<>> \notin Bad,
         \A f \in Seq(T), x \in T : Append(f, x) \in Bad => f \in Bad
  PROVE  Bad = {}
<1> DEFINE Lens == {Len(u) : u \in Bad}
<1> SUFFICES ASSUME Bad # {} PROVE FALSE
  OBVIOUS
<1>1. Lens \subseteq Nat /\ Lens # {}
  <2>1. \A u \in Bad : u \in Seq(T)
    OBVIOUS
  <2>2. \A u \in Bad : Len(u) \in Nat
    BY <2>1, LenProperties
  <2>3. \A l \in Lens : l \in Nat
    BY <2>2
  <2>4. PICK u \in Bad : TRUE
    OBVIOUS
  <2>5. Len(u) \in Lens
    BY <2>4
  <2> QED
    BY <2>3, <2>5
<1>2. PICK n \in Lens : \A m \in Nat : m < n => m \notin Lens
  BY <1>1, LeastNat
<1>3. PICK u \in Bad : Len(u) = n
  BY <1>2
<1>4. u \in Seq(T) /\ n \in Nat /\ n # 0
  BY <1>3, EmptySeq
<1>5. PICK f \in Seq(T), x \in T : u = Append(f, x) /\ Len(f) = Len(u) - 1
  BY <1>3, <1>4, LastOut, Zenon
<1>6. f \in Bad
  BY <1>3, <1>5, Zenon
<1>7. n - 1 \in Nat /\ n - 1 < n /\ Len(f) = n - 1
  BY <1>3, <1>4, <1>5, Predecessor, Zenon
<1>8. Len(f) \in Lens
  BY <1>6
<1> HIDE DEF Lens
<1>9. n - 1 \in Lens
  BY <1>7, <1>8, Zenon
<1> QED
  BY <1>2, <1>7, <1>9

\* Appending to the second of two sequences appends to both together.
LEMMA ConcatAppend ==
  ASSUME NEW T, NEW s \in Seq(T), NEW t \in Seq(T), NEW x \in T
  PROVE  s \o t \in Seq(T) /\ s \o Append(t, x) = Append(s \o t, x)
<1>1. s \o t \in Seq(T) /\ Append(t, x) \in Seq(T) /\ Append(s \o t, x) \in Seq(T)
  BY ConcatProperties, AppendSeq
<1>2. /\ Len(s) \in Nat /\ Len(t) \in Nat
      /\ Len(s \o Append(t, x)) = Len(s) + Len(t) + 1
      /\ Len(Append(s \o t, x)) = Len(s) + Len(t) + 1
      /\ s \o Append(t, x) \in Seq(T)
  OBVIOUS
<1>3. \A i \in 1..(Len(s) + Len(t) + 1) : (s \o Append(t, x))[i] = Append(s \o t, x)[i]
  OBVIOUS
<1> QED
  BY <1>1, <1>2, <1>3, SeqEqual

-----------------------------------------------------------------------------
(* OnlyIn, the loop that keeps elements.                                   *)

Kept(s, S, n, g) ==
  g = [i \in 0..n |-> IF i = 0 THEN <<>>
                      ELSE IF s[i] \in S THEN Append(g[i - 1], s[i]) ELSE g[i - 1]]

\* The recursion of OnlyIn has a solution up to every n.
LEMMA KeptExists ==
  ASSUME NEW s, NEW S, NEW n \in Nat
  PROVE  \E g : Kept(s, S, n, g)
<1> DEFINE Bad == {m \in Nat : ~ \E g : Kept(s, S, m, g)}
<1> SUFFICES ASSUME Bad # {} PROVE FALSE
  OBVIOUS
<1>1. PICK m \in Nat : m \in Bad /\ \A j \in Nat : j < m => j \notin Bad
  BY LeastNat
<1>2. CASE m = 0
  <2>1. Kept(s, S, 0, [i \in 0..0 |-> <<>>])
    BY DEF Kept
  <2> QED
    BY <1>1, <1>2, <2>1
<1>3. CASE m # 0
  <2>1. PICK g : Kept(s, S, m - 1, g)
    BY <1>1, <1>3
  <2> DEFINE Next1(f, i) == IF s[i] \in S THEN Append(f[i - 1], s[i]) ELSE f[i - 1]
             h == [i \in 0..m |-> IF i = m THEN Next1(g, m) ELSE g[i]]
  <2>2. \A i \in 0..(m - 1) : g[i] = IF i = 0 THEN <<>> ELSE Next1(g, i)
    BY <2>1 DEF Kept
  <2>3. \A i \in 0..(m - 1) : h[i] = g[i]
    BY <1>3
  <2>4. h[m] = Next1(g, m)
    BY <1>3
  <2>5. \A i \in 0..m : h[i] = IF i = 0 THEN <<>> ELSE Next1(h, i)
    BY <1>3, <2>2, <2>3, <2>4
  <2>6. h = [i \in 0..m |-> h[i]]
    OBVIOUS
  <2> HIDE DEF h
  <2>7. Kept(s, S, m, h)
    BY <2>5, <2>6 DEF Kept
  <2> QED
    BY <1>1, <2>7
<1> QED
  BY <1>2, <1>3

SameUpTo(s, t, n) == \A i \in 1..n : s[i] = t[i]

\* ... and only one, which depends on the elements up to n alone.
LEMMA KeptAgree ==
  ASSUME NEW s, NEW t, NEW S, NEW n \in Nat, SameUpTo(s, t, n),
         NEW g, NEW h, Kept(s, S, n, g), Kept(t, S, n + 1, h)
  PROVE  g[n] = h[n]
<1> DEFINE Bad == {i \in 0..n : g[i] # h[i]}
<1> SUFFICES ASSUME Bad # {} PROVE FALSE
  <2>1. n \in 0..n
    OBVIOUS
  <2> QED
    BY <2>1
<1>0. Bad \subseteq Nat
  OBVIOUS
<1>1. PICK i \in Bad : \A j \in Nat : j < i => j \notin Bad
  BY <1>0, LeastNat
<1>2. /\ i \in 0..n /\ i \in 0..(n + 1) /\ g[i] # h[i]
      /\ i # 0 => g[i - 1] = h[i - 1] /\ s[i] = t[i]
  BY <1>1 DEF SameUpTo
<1>3. g[i] = IF i = 0 THEN <<>> ELSE IF s[i] \in S THEN Append(g[i - 1], s[i]) ELSE g[i - 1]
  BY <1>2 DEF Kept
<1>4. h[i] = IF i = 0 THEN <<>> ELSE IF t[i] \in S THEN Append(h[i - 1], t[i]) ELSE h[i - 1]
  BY <1>2 DEF Kept
<1> QED
  BY <1>2, <1>3, <1>4

\* The loop itself.
KeptBy(s, S) == CHOOSE g : Kept(s, S, Len(s), g)

\* So OnlyIn is what the loop has at the end of the list.
LEMMA OnlyInKept ==
  ASSUME NEW s, NEW S, Len(s) \in Nat
  PROVE  Kept(s, S, Len(s), KeptBy(s, S)) /\ OnlyIn(s, S) = KeptBy(s, S)[Len(s)]
<1>1. Kept(s, S, Len(s), KeptBy(s, S))
  BY KeptExists, Zenon DEF KeptBy
<1>2. OnlyIn(s, S) = KeptBy(s, S)[Len(s)]
  BY Zenon DEF OnlyIn, KeptBy, Kept
<1> QED
  BY <1>1, <1>2

\* Nothing is kept of nothing.
LEMMA OnlyInEmpty == ASSUME NEW S PROVE OnlyIn(<<>>, S) = <<>>
<1>1. Len(<<>>) = 0
  OBVIOUS
<1>2. Kept(<<>>, S, 0, KeptBy(<<>>, S)) /\ OnlyIn(<<>>, S) = KeptBy(<<>>, S)[0]
  BY <1>1, OnlyInKept
<1> QED
  BY <1>2 DEF Kept

\* One more element is kept or not, behind what was kept.
LEMMA OnlyInAppend ==
  ASSUME NEW T, NEW s \in Seq(T), NEW x \in T, NEW S
  PROVE  OnlyIn(Append(s, x), S)
           = IF x \in S THEN Append(OnlyIn(s, S), x) ELSE OnlyIn(s, S)
<1> DEFINE a == Append(s, x)
           n == Len(s)
           g == KeptBy(s, S)
           h == KeptBy(a, S)
<1>1. /\ n \in Nat /\ Len(a) = n + 1 /\ a[n + 1] = x
      /\ \A i \in 1..n : s[i] = a[i]
  BY AppendSeq
<1>2. Kept(s, S, n, g) /\ OnlyIn(s, S) = g[n]
  BY <1>1, OnlyInKept
<1>3. Kept(a, S, n + 1, h) /\ OnlyIn(a, S) = h[n + 1]
  <2>1. Len(a) \in Nat
    BY <1>1
  <2> HIDE DEF a
  <2>2. Kept(a, S, Len(a), h) /\ OnlyIn(a, S) = h[Len(a)]
    BY <2>1, OnlyInKept
  <2> HIDE DEF h
  <2> QED
    BY <1>1, <2>2
<1> HIDE DEF a, n, g, h
<1>4. g[n] = h[n]
  <2>1. SameUpTo(s, a, n)
    BY <1>1 DEF SameUpTo
  <2> QED
    BY <1>1, <1>2, <1>3, <2>1, KeptAgree
<1>5. h[n + 1] = IF a[n + 1] \in S THEN Append(h[n], a[n + 1]) ELSE h[n]
  <2>1. n + 1 \in 0..(n + 1) /\ n + 1 # 0 /\ (n + 1) - 1 = n
    BY <1>1
  <2>2. h[n + 1] = IF a[n + 1] \in S THEN Append(h[(n + 1) - 1], a[n + 1]) ELSE h[(n + 1) - 1]
    BY <1>3, <2>1 DEF Kept
  <2> QED
    BY <2>1, <2>2
<1> QED
  BY <1>1, <1>2, <1>3, <1>4, <1>5 DEF a

\* What is kept are elements of the sequence.
LEMMA OnlyInSeq ==
  ASSUME NEW T, NEW s \in Seq(T), NEW S
  PROVE  OnlyIn(s, S) \in Seq(T)
<1> DEFINE Bad == {u \in Seq(T) : OnlyIn(u, S) \notin Seq(T)}
<1>1. <<>> \notin Bad
  BY OnlyInEmpty, EmptySeq, Zenon
<1>2. ASSUME NEW f \in Seq(T), NEW x \in T, OnlyIn(f, S) \in Seq(T)
      PROVE  OnlyIn(Append(f, x), S) \in Seq(T)
  <2>1. Append(OnlyIn(f, S), x) \in Seq(T)
    BY <1>2, AppendSeq
  <2> QED
    BY <1>2, <2>1, OnlyInAppend, Zenon
<1>3. \A f \in Seq(T), x \in T : Append(f, x) \in Bad => f \in Bad
  BY <1>2, Zenon
<1>4. Bad \in SUBSET Seq(T)
  OBVIOUS
<1>5. Bad = {}
  <2> HIDE DEF Bad
  <2> QED
    BY <1>1, <1>3, <1>4, SeqInduction, Zenon
<1> QED
  BY <1>5, Zenon

\* ... and of two sequences together it keeps what it keeps of each.
LEMMA OnlyInConcat ==
  ASSUME NEW T, NEW s \in Seq(T), NEW t \in Seq(T), NEW S
  PROVE  OnlyIn(s \o t, S) = OnlyIn(s, S) \o OnlyIn(t, S)
<1> DEFINE Good(u) == OnlyIn(s \o u, S) = OnlyIn(s, S) \o OnlyIn(u, S)
           Bad == {u \in Seq(T) : ~Good(u)}
<1>a. OnlyIn(s, S) \in Seq(T)
  BY OnlyInSeq, Zenon
<1>1. Good(<<>>)
  <2>1. s \o <<>> = s /\ OnlyIn(s, S) \o <<>> = OnlyIn(s, S)
    BY <1>a, ConcatEmptySeq, Zenon
  <2> QED
    BY <2>1, OnlyInEmpty, Zenon
<1>2. ASSUME NEW f \in Seq(T), NEW x \in T, Good(f)
      PROVE  Good(Append(f, x))
  <2>1. OnlyIn(f, S) \in Seq(T)
    BY OnlyInSeq, Zenon
  <2>2. s \o f \in Seq(T) /\ s \o Append(f, x) = Append(s \o f, x)
    BY ConcatAppend
  <2>3. OnlyIn(Append(s \o f, x), S)
          = IF x \in S THEN Append(OnlyIn(s \o f, S), x) ELSE OnlyIn(s \o f, S)
    BY <2>2, OnlyInAppend, Zenon
  <2>4. OnlyIn(Append(f, x), S) = IF x \in S THEN Append(OnlyIn(f, S), x) ELSE OnlyIn(f, S)
    BY OnlyInAppend, Zenon
  <2>5. OnlyIn(s, S) \o Append(OnlyIn(f, S), x) = Append(OnlyIn(s, S) \o OnlyIn(f, S), x)
    BY <1>a, <2>1, ConcatAppend
  <2> QED
    BY <1>2, <2>2, <2>3, <2>4, <2>5, Zenon
<1>3. Bad = {}
  <2> HIDE DEF Good
  <2>1. Bad \in SUBSET Seq(T) /\ <<>> \notin Bad
    BY <1>1, Zenon
  <2>2. \A f \in Seq(T), x \in T : Append(f, x) \in Bad => f \in Bad
    BY <1>2, Zenon
  <2> HIDE DEF Bad
  <2> QED
    BY <2>1, <2>2, SeqInduction, Zenon
<1> QED
  BY <1>3, Zenon

\* Where nothing is in the set, nothing is kept.
LEMMA OnlyInNone ==
  ASSUME NEW T, NEW s \in Seq(T), NEW S, \A i \in DOMAIN s : s[i] \notin S
  PROVE  OnlyIn(s, S) = <<>>
<1> DEFINE None(u) == \A i \in DOMAIN u : u[i] \notin S
           Bad == {u \in Seq(T) : None(u) /\ OnlyIn(u, S) # <<>>}
<1>1. <<>> \notin Bad
  BY OnlyInEmpty, Zenon
<1>2. ASSUME NEW f \in Seq(T), NEW x \in T, None(Append(f, x)), OnlyIn(Append(f, x), S) # <<>>
      PROVE  None(f) /\ OnlyIn(f, S) # <<>>
  <2>1. x \notin S /\ None(f)
    <3> DEFINE a == Append(f, x)
    <3>1. /\ Len(f) \in Nat /\ DOMAIN a = 1..(Len(f) + 1) /\ DOMAIN f = 1..Len(f)
          /\ a[Len(f) + 1] = x /\ \A i \in 1..Len(f) : a[i] = f[i]
      BY AppendSeq
    <3> HIDE DEF a
    <3>2. None(a)
      BY <1>2 DEF a
    <3> QED
      BY <3>1, <3>2
  <2>2. OnlyIn(Append(f, x), S) = IF x \in S THEN Append(OnlyIn(f, S), x) ELSE OnlyIn(f, S)
    BY OnlyInAppend, Zenon
  <2> QED
    BY <1>2, <2>1, <2>2
<1>3. Bad = {}
  <2>1. Bad \in SUBSET Seq(T)
    BY Zenon
  <2> HIDE DEF None
  <2>2. \A f \in Seq(T), x \in T : Append(f, x) \in Bad => f \in Bad
    BY <1>2, Zenon
  <2> HIDE DEF Bad
  <2> QED
    BY <1>1, <2>1, <2>2, SeqInduction, Zenon
<1> QED
  BY <1>3, Zenon

-----------------------------------------------------------------------------
(* Named, the loop that gives every device its label.                      *)

NamedTo(s, n, g) ==
  g = [i \in 0..n |-> IF i = 0 THEN <<>> ELSE AddHost(g[i - 1], s[i])]

\* The recursion of Named has a solution up to every n.
LEMMA NamedToExists ==
  ASSUME NEW s, NEW n \in Nat
  PROVE  \E g : NamedTo(s, n, g)
<1> DEFINE Bad == {m \in Nat : ~ \E g : NamedTo(s, m, g)}
<1> SUFFICES ASSUME Bad # {} PROVE FALSE
  OBVIOUS
<1>1. PICK m \in Nat : m \in Bad /\ \A j \in Nat : j < m => j \notin Bad
  BY LeastNat
<1>2. CASE m = 0
  <2>1. NamedTo(s, 0, [i \in 0..0 |-> <<>>])
    BY DEF NamedTo
  <2> QED
    BY <1>1, <1>2, <2>1
<1>3. CASE m # 0
  <2>1. PICK g : NamedTo(s, m - 1, g)
    BY <1>1, <1>3
  <2> DEFINE h == [i \in 0..m |-> IF i = m THEN AddHost(g[m - 1], s[m]) ELSE g[i]]
  <2>2. \A i \in 0..(m - 1) : g[i] = IF i = 0 THEN <<>> ELSE AddHost(g[i - 1], s[i])
    BY <2>1 DEF NamedTo
  <2>3. \A i \in 0..(m - 1) : h[i] = g[i]
    BY <1>3
  <2>4. h[m] = AddHost(g[m - 1], s[m])
    BY <1>3
  <2>5. \A i \in 0..m : h[i] = IF i = 0 THEN <<>> ELSE AddHost(h[i - 1], s[i])
    BY <1>3, <2>2, <2>3, <2>4
  <2>6. h = [i \in 0..m |-> h[i]]
    OBVIOUS
  <2> HIDE DEF h
  <2>7. NamedTo(s, m, h)
    BY <2>5, <2>6 DEF NamedTo
  <2> QED
    BY <1>1, <2>7
<1> QED
  BY <1>2, <1>3

\* ... and only one, which depends on the devices up to n alone.
LEMMA NamedToAgree ==
  ASSUME NEW s, NEW t, NEW n \in Nat, SameUpTo(s, t, n),
         NEW g, NEW h, NamedTo(s, n, g), NamedTo(t, n + 1, h)
  PROVE  g[n] = h[n]
<1> DEFINE Bad == {i \in 0..n : g[i] # h[i]}
<1> SUFFICES ASSUME Bad # {} PROVE FALSE
  <2>1. n \in 0..n
    OBVIOUS
  <2> QED
    BY <2>1
<1>0. Bad \subseteq Nat
  OBVIOUS
<1>1. PICK i \in Bad : \A j \in Nat : j < i => j \notin Bad
  BY <1>0, LeastNat
<1>2. /\ i \in 0..n /\ i \in 0..(n + 1) /\ g[i] # h[i]
      /\ i # 0 => g[i - 1] = h[i - 1] /\ s[i] = t[i]
  BY <1>1 DEF SameUpTo
<1>3. g[i] = IF i = 0 THEN <<>> ELSE AddHost(g[i - 1], s[i])
  BY <1>2 DEF NamedTo
<1>4. h[i] = IF i = 0 THEN <<>> ELSE AddHost(h[i - 1], t[i])
  BY <1>2 DEF NamedTo
<1> QED
  BY <1>2, <1>3, <1>4

\* The loop itself.
NamedBy(s) == CHOOSE g : NamedTo(s, Len(s), g)

\* So Named is what the loop has at the end of the list.
LEMMA NamedNamedBy ==
  ASSUME NEW s, Len(s) \in Nat
  PROVE  NamedTo(s, Len(s), NamedBy(s)) /\ Named(s) = NamedBy(s)[Len(s)]
<1>1. NamedTo(s, Len(s), NamedBy(s))
  BY NamedToExists, Zenon DEF NamedBy
<1>2. Named(s) = NamedBy(s)[Len(s)]
  BY Zenon DEF Named, NamedBy, NamedTo
<1> QED
  BY <1>1, <1>2

\* No devices, no names.
LEMMA NamedEmpty == Named(<<>>) = <<>>
<1>1. Len(<<>>) = 0
  OBVIOUS
<1>2. NamedTo(<<>>, 0, NamedBy(<<>>)) /\ Named(<<>>) = NamedBy(<<>>)[0]
  BY <1>1, NamedNamedBy
<1> QED
  BY <1>2 DEF NamedTo

\* One more device is one more round of the loop.
LEMMA NamedAppend ==
  ASSUME NEW T, NEW s \in Seq(T), NEW x \in T
  PROVE  Named(Append(s, x)) = AddHost(Named(s), x)
<1> DEFINE a == Append(s, x)
           n == Len(s)
           g == NamedBy(s)
           h == NamedBy(a)
<1>1. /\ n \in Nat /\ Len(a) = n + 1 /\ a[n + 1] = x
      /\ \A i \in 1..n : s[i] = a[i]
  BY AppendSeq
<1>2. NamedTo(s, n, g) /\ Named(s) = g[n]
  BY <1>1, NamedNamedBy
<1>3. NamedTo(a, n + 1, h) /\ Named(a) = h[n + 1]
  <2>1. Len(a) \in Nat
    BY <1>1
  <2> HIDE DEF a
  <2>2. NamedTo(a, Len(a), h) /\ Named(a) = h[Len(a)]
    BY <2>1, NamedNamedBy
  <2> HIDE DEF h
  <2> QED
    BY <1>1, <2>2
<1> HIDE DEF a, n, g, h
<1>4. g[n] = h[n]
  <2>1. SameUpTo(s, a, n)
    BY <1>1 DEF SameUpTo
  <2> QED
    BY <1>1, <1>2, <1>3, <2>1, NamedToAgree
<1>5. h[n + 1] = AddHost(h[n], a[n + 1])
  <2>1. n + 1 \in 0..(n + 1) /\ n + 1 # 0 /\ (n + 1) - 1 = n
    BY <1>1
  <2>2. h[n + 1] = AddHost(h[(n + 1) - 1], a[n + 1])
    BY <1>3, <2>1 DEF NamedTo
  <2> QED
    BY <2>1, <2>2
<1> QED
  BY <1>1, <1>2, <1>3, <1>4, <1>5 DEF a

-----------------------------------------------------------------------------
(* Labels: one is always free.                                             *)

\* Every word with numbers behind it is a label.
LEMMA AnyLabel ==
  ASSUME NEW w \in Words, NEW ns \in Seq(Nat)
  PROVE  /\ [word |-> w, numbers |-> ns] \in Labels
         /\ w # "" \/ ns # <<>> => [word |-> w, numbers |-> ns] # NoLabel
<1> DEFINE l == [word |-> w, numbers |-> ns]
<1>1. l \in Labels
  BY DEF Labels
<1>2. l.word = w /\ l.numbers = ns
  OBVIOUS
<1>3. NoLabel.word = "" /\ NoLabel.numbers = <<>>
  BY DEF NoLabel, Label
<1> HIDE DEF l
<1>4. l = NoLabel => w = "" /\ ns = <<>>
  BY <1>2, <1>3
<1> QED
  BY <1>1, <1>4 DEF l

\* sanitizeHostLabel never gives the empty label.
LEMMA SanitizedLabel ==
  ASSUME NEW name \in RawNames
  PROVE  Sanitized(name) \in Labels \ {NoLabel}
<1>1. Slug[name] \in Labels
  BY HostsAssumption DEF Labels, Words
<1>2. "device" \in Words /\ "device" # "" /\ <<>> \in Seq(Nat)
  BY DEF Words
<1>3. Label("device") \in Labels /\ Label("device") # NoLabel
  BY <1>2, AnyLabel, Zenon DEF Label
<1> QED
  BY <1>1, <1>3, Zenon DEF Sanitized

\* A label with one more number is a label.
LEMMA NumberedLabel ==
  ASSUME NEW base \in Labels, NEW i \in Nat
  PROVE  Numbered(base, i) \in Labels \ {NoLabel}
<1>1. base.word \in Words /\ base.numbers \in Seq(Nat)
  BY DEF Labels
<1>2. Numbered(base, i) = [word |-> base.word, numbers |-> Append(base.numbers, i)]
  <2>1. base = [word |-> base.word, numbers |-> base.numbers]
    BY DEF Labels
  <2>2. \A w, u, v : [[word |-> w, numbers |-> u] EXCEPT !.numbers = v]
                       = [word |-> w, numbers |-> v]
    OBVIOUS
  <2>3. Numbered(base, i) = [base EXCEPT !.numbers = Append(base.numbers, i)]
    BY DEF Numbered
  <2> QED
    BY <2>1, <2>2, <2>3
<1>3. Append(base.numbers, i) \in Seq(Nat) /\ Append(base.numbers, i) # <<>>
  <2>1. \A u \in Seq(Nat) : Len(Append(u, i)) = Len(u) + 1 /\ Len(u) \in Nat
    BY AppendSeq
  <2>2. \A u \in Seq(Nat) : Append(u, i) \in Seq(Nat)
    BY AppendSeq
  <2>3. Len(<<>>) = 0
    OBVIOUS
  <2>4. \A u \in Seq(Nat) : Append(u, i) # <<>>
    BY <2>1, <2>3
  <2> QED
    BY <1>1, <2>2, <2>4, Zenon
<1> QED
  BY <1>1, <1>2, <1>3, AnyLabel, Zenon

\* Labels numbered differently are different.
LEMMA NumberedDiffer ==
  ASSUME NEW base \in Labels, NEW i \in Nat, NEW j \in Nat, Numbered(base, i) = Numbered(base, j)
  PROVE  i = j
<1>1. base.numbers \in Seq(Nat) /\ Append(base.numbers, i) = Append(base.numbers, j)
  BY DEF Labels, Numbered
<1>2. Len(base.numbers) \in Nat
  BY <1>1
<1> DEFINE ns == base.numbers
<1> HIDE DEF ns
<1>3. \A u \in Seq(Nat), k \in Nat : Append(u, k)[Len(u) + 1] = k
  BY AppendSeq
<1>4. Append(ns, i)[Len(ns) + 1] = i /\ Append(ns, j)[Len(ns) + 1] = j
  BY <1>1, <1>3 DEF ns
<1> QED
  BY <1>1, <1>4 DEF ns

\* Among one number more than there are names, one is not used (pigeonhole).
LEMMA SomeNumberFree ==
  ASSUME NEW base \in Labels, NEW out \in Seq(Entries)
  PROVE  \E i \in 2..(Len(out) + 2) : Numbered(base, i) \notin {out[k].name : k \in DOMAIN out}
<1> DEFINE L == Len(out)
           holder == [i \in 2..(L + 2) |-> CHOOSE k \in 1..L : out[k].name = Numbered(base, i)]
<1>1. L \in Nat /\ DOMAIN out = 1..L
  OBVIOUS
<1> SUFFICES ASSUME \A i \in 2..(L + 2) : \E k \in 1..L : out[k].name = Numbered(base, i)
             PROVE  FALSE
  BY <1>1
<1>2. \A i \in 2..(L + 2) : holder[i] \in 1..L /\ out[holder[i]].name = Numbered(base, i)
  <2> HIDE DEF L
  <2> TAKE i \in 2..(L + 2)
  <2>1. holder[i] = CHOOSE k \in 1..L : out[k].name = Numbered(base, i)
    OBVIOUS
  <2>2. \E k \in 1..L : out[k].name = Numbered(base, i)
    OBVIOUS
  <2> QED
    BY <2>1, <2>2
<1>3. holder \in [2..(L + 2) -> 1..L]
  BY <1>2
<1> HIDE DEF holder, L
<1>4. /\ IsFiniteSet(2..(L + 2)) /\ IsFiniteSet(1..L)
      /\ Cardinality(2..(L + 2)) = L + 1 /\ Cardinality(1..L) = L
  <2>1. L + 2 \in Int /\ L \in Int /\ 2 \in Int /\ 1 \in Int
    BY <1>1
  <2>2. /\ IsFiniteSet(2..(L + 2)) /\ IsFiniteSet(1..L)
        /\ Cardinality(2..(L + 2)) = IF 2 > L + 2 THEN 0 ELSE (L + 2) - 2 + 1
        /\ Cardinality(1..L) = IF 1 > L THEN 0 ELSE L - 1 + 1
    BY <2>1, FS_Interval, Zenon
  <2> QED
    BY <1>1, <2>2
<1>5. PICK i, j \in 2..(L + 2) : i # j /\ holder[i] = holder[j]
  <2>1. Cardinality(1..L) < Cardinality(2..(L + 2))
    BY <1>1, <1>4
  <2> DEFINE A == 2..(L + 2)
             B == 1..L
  <2>2. IsFiniteSet(A) /\ IsFiniteSet(B) /\ Cardinality(B) < Cardinality(A) /\ holder \in [A -> B]
    BY <1>3, <1>4, <2>1
  <2> HIDE DEF A, B
  <2>3. \E x, y \in A : x # y /\ holder[x] = holder[y]
    BY <2>2, FS_PigeonHole, ZenonT(40)
  <2> QED
    BY <2>3 DEF A
<1>6. Numbered(base, i) = Numbered(base, j) /\ i \in Nat /\ j \in Nat
  BY <1>1, <1>2, <1>5
<1> QED
  BY <1>5, <1>6, NumberedDiffer

\* The label that buildHosts arrives at is usable and no entry has it.
LEMMA FreeLabelIsFree ==
  ASSUME NEW base \in Labels \ {NoLabel}, NEW out \in Seq(Entries)
  PROVE  /\ FreeLabel(base, out) \in Labels \ {NoLabel}
         /\ \A k \in DOMAIN out : out[k].name # FreeLabel(base, out)
<1> DEFINE used == {out[k].name : k \in DOMAIN out}
           free == {i \in 2..(Len(out) + 2) : Numbered(base, i) \notin used}
<1>1. CASE base \notin used
  <2>1. FreeLabel(base, out) = base
    BY <1>1 DEF FreeLabel
  <2> QED
    BY <1>1, <2>1
<1>2. CASE base \in used
  <2>1. Len(out) \in Nat
    OBVIOUS
  <2>2. free \subseteq Nat
    BY <2>1
  <2>3. free # {}
    BY SomeNumberFree
  <2>4. FreeLabel(base, out) = Numbered(base, Min(free))
    BY <1>2 DEF FreeLabel
  <2>5. Min(free) \in free
    <3> HIDE DEF free
    <3> QED
      BY <2>2, <2>3, MinNat
  <2>6. Min(free) \in Nat /\ Numbered(base, Min(free)) \notin used
    BY <2>2, <2>5
  <2>8. base \in Labels
    OBVIOUS
  <2> HIDE DEF free, used
  <2>7. FreeLabel(base, out) \in Labels \ {NoLabel} /\ FreeLabel(base, out) \notin used
    BY <2>4, <2>6, <2>8, NumberedLabel, Zenon
  <2> QED
    BY <2>7 DEF used
<1> QED
  BY <1>1, <1>2

-----------------------------------------------------------------------------
(* buildHosts.                                                             *)

\* A round of the loop adds one entry under a new name and leaves the others alone.
LEMMA AddHostGood ==
  ASSUME NEW out \in Seq(Entries), Distinct(out), NEW d \in Row
  PROVE  /\ AddHost(out, d) \in Seq(Entries) /\ Distinct(AddHost(out, d))
         /\ Len(AddHost(out, d)) = Len(out) + 1 /\ Len(out) \in Nat
         /\ \A i \in 1..Len(out) : AddHost(out, d)[i] = out[i]
         /\ AddHost(out, d)[Len(out) + 1].ip = d.ip
<1> DEFINE l == FreeLabel(Sanitized(d.name), out)
           e == [name |-> l, ip |-> d.ip]
           a == Append(out, e)
<1>1. d.name \in RawNames /\ d.ip \in Addrs \union {HubIP}
  BY DEF Row
<1>2. l \in Labels \ {NoLabel} /\ \A k \in DOMAIN out : out[k].name # l
  <2>1. Sanitized(d.name) \in Labels \ {NoLabel}
    BY <1>1, SanitizedLabel, Zenon
  <2> QED
    BY <2>1, FreeLabelIsFree, Zenon
<1> HIDE DEF l
<1>3. e \in Entries /\ e.name = l /\ e.ip = d.ip
  BY <1>1, <1>2 DEF Entries
<1> HIDE DEF e
<1>4. /\ a \in Seq(Entries) /\ Len(a) = Len(out) + 1 /\ Len(out) \in Nat
      /\ \A i \in 1..Len(out) : a[i] = out[i]
      /\ a[Len(out) + 1] = e
      /\ DOMAIN a = 1..(Len(out) + 1) /\ DOMAIN out = 1..Len(out)
  BY <1>3, AppendSeq, Zenon
<1>5. AddHost(out, d) = a
  BY DEF AddHost, a, e, l
<1> HIDE DEF a
<1>6. Distinct(a)
  <2> SUFFICES ASSUME NEW i \in DOMAIN a, NEW j \in DOMAIN a, a[i].name = a[j].name
               PROVE  i = j
    BY DEF Distinct
  <2>1. i \in 1..Len(out) \/ i = Len(out) + 1
    BY <1>4
  <2>2. j \in 1..Len(out) \/ j = Len(out) + 1
    BY <1>4
  <2>3. CASE i \in 1..Len(out) /\ j \in 1..Len(out)
    BY <1>4, <2>3 DEF Distinct
  <2>4. CASE i \in 1..Len(out) /\ j = Len(out) + 1
    BY <1>2, <1>3, <1>4, <2>4
  <2>5. CASE j \in 1..Len(out) /\ i = Len(out) + 1
    BY <1>2, <1>3, <1>4, <2>5
  <2> QED
    BY <2>1, <2>2, <2>3, <2>4, <2>5
<1> QED
  BY <1>3, <1>4, <1>5, <1>6

\* What buildHosts makes of a list of devices.
NamesAll(ds, hosts) ==
  /\ hosts \in Seq(Entries) /\ Distinct(hosts)
  /\ Len(hosts) = Len(ds) /\ \A i \in 1..Len(ds) : hosts[i].ip = ds[i].ip

\* So the whole loop gives every device of the list a name of its own.
LEMMA NamedGood ==
  ASSUME NEW ds \in Seq(Row)
  PROVE  NamesAll(ds, Named(ds))
<1> DEFINE Bad == {u \in Seq(Row) : ~NamesAll(u, Named(u))}
<1>1. NamesAll(<<>>, Named(<<>>))
  <2>1. <<>> \in Seq(Entries) /\ Len(<<>>) = 0 /\ 1..0 = {} /\ DOMAIN <<>> = {}
    OBVIOUS
  <2> QED
    BY <2>1, NamedEmpty DEF NamesAll, Distinct
<1>2. ASSUME NEW f \in Seq(Row), NEW d \in Row, NamesAll(f, Named(f))
      PROVE  NamesAll(Append(f, d), Named(Append(f, d)))
  <2> DEFINE h == Named(f)
             h2 == AddHost(h, d)
             f2 == Append(f, d)
  <2>1. h \in Seq(Entries) /\ Distinct(h) /\ Len(h) = Len(f) /\ \A i \in 1..Len(f) : h[i].ip = f[i].ip
    BY <1>2 DEF NamesAll
  <2> HIDE DEF h
  <2>2. /\ h2 \in Seq(Entries) /\ Distinct(h2) /\ Len(h2) = Len(h) + 1 /\ Len(h) \in Nat
        /\ \A i \in 1..Len(h) : h2[i] = h[i]
        /\ h2[Len(h) + 1].ip = d.ip
    BY <2>1, AddHostGood, Zenon
  <2>3. /\ f2 \in Seq(Row) /\ Len(f2) = Len(f) + 1
        /\ \A i \in 1..Len(f) : f2[i] = f[i]
        /\ f2[Len(f) + 1] = d
    BY AppendSeq
  <2>4. Named(f2) = h2
    BY NamedAppend, Zenon DEF h
  <2> HIDE DEF h2, f2
  <2>5. \A i \in 1..Len(f2) : h2[i].ip = f2[i].ip
    BY <2>1, <2>2, <2>3
  <2>6. NamesAll(f2, Named(f2))
    BY <2>1, <2>2, <2>3, <2>4, <2>5 DEF NamesAll
  <2> QED
    BY <2>6 DEF f2
<1>3. Bad = {}
  <2>1. Bad \in SUBSET Seq(Row) /\ <<>> \notin Bad
    BY <1>1, Zenon
  <2>2. \A f \in Seq(Row), d \in Row : Append(f, d) \in Bad => f \in Bad
    BY <1>2, Zenon
  <2> HIDE DEF Bad
  <2> QED
    BY <2>1, <2>2, SeqInduction, Zenon
<1> QED
  BY <1>3, Zenon

\* Devices that come after others rename none of them.
LEMMA NamedPrefix ==
  ASSUME NEW s \in Seq(Row), NEW t \in Seq(Row)
  PROVE  ToSet(Named(s)) \subseteq ToSet(Named(s \o t))
<1> DEFINE Good(u) == ToSet(Named(s)) \subseteq ToSet(Named(s \o u))
           Bad == {u \in Seq(Row) : ~Good(u)}
<1>1. Good(<<>>)
  BY ConcatEmptySeq, Zenon
<1>2. ASSUME NEW f \in Seq(Row), NEW d \in Row, Good(f)
      PROVE  Good(Append(f, d))
  <2> DEFINE h == Named(s \o f)
             h2 == AddHost(h, d)
  <2>1. s \o f \in Seq(Row) /\ s \o Append(f, d) = Append(s \o f, d)
    BY ConcatAppend
  <2>2. h \in Seq(Entries) /\ Distinct(h)
    BY <2>1, NamedGood, Zenon DEF NamesAll
  <2>3. Named(s \o Append(f, d)) = h2
    BY <2>1, NamedAppend, Zenon
  <2> HIDE DEF h
  <2>4. /\ h2 \in Seq(Entries) /\ Len(h2) = Len(h) + 1 /\ Len(h) \in Nat
        /\ \A i \in 1..Len(h) : h2[i] = h[i]
    BY <2>2, AddHostGood, Zenon
  <2> HIDE DEF h2
  <2>5. DOMAIN h = 1..Len(h) /\ DOMAIN h2 = 1..(Len(h) + 1)
    BY <2>2, <2>4
  <2>6. ToSet(h) \subseteq ToSet(h2)
    BY <2>4, <2>5 DEF ToSet
  <2> QED
    BY <1>2, <2>3, <2>6 DEF h
<1>3. Bad = {}
  <2> HIDE DEF Good
  <2>1. Bad \in SUBSET Seq(Row) /\ <<>> \notin Bad
    BY <1>1, Zenon
  <2>2. \A f \in Seq(Row), d \in Row : Append(f, d) \in Bad => f \in Bad
    BY <1>2, Zenon
  <2> HIDE DEF Bad
  <2> QED
    BY <2>1, <2>2, SeqInduction, Zenon
<1> QED
  BY <1>3, Zenon

\* The approved nodes are rows.
LEMMA VisibleRows ==
  ASSUME NEW ns \in Seq(Row)
  PROVE  Visible(ns) \in Seq(Row)
BY OnlyInSeq, Zenon DEF Visible

\* The list of buildHosts has every device once and no other.
LEMMA BuildHostsGood ==
  ASSUME NEW ns \in Seq(Row), NEW ps \in Seq(Row)
  PROVE  /\ BuildHosts(ns, ps) \in Seq(Entries) /\ Distinct(BuildHosts(ns, ps))
         /\ Len(BuildHosts(ns, ps)) = Len(ns) + Len(ps)
         /\ IPs(BuildHosts(ns, ps)) = IPs(ns) \union IPs(ps)
<1> DEFINE ds == ns \o ps
           h == Named(ds)
<1>1. /\ ds \in Seq(Row) /\ Len(ds) = Len(ns) + Len(ps)
      /\ Len(ns) \in Nat /\ Len(ps) \in Nat /\ DOMAIN ns = 1..Len(ns) /\ DOMAIN ps = 1..Len(ps)
      /\ \A i \in 1..Len(ns) : ds[i] = ns[i]
      /\ \A i \in 1..Len(ps) : ds[Len(ns) + i] = ps[i]
  OBVIOUS
<1> HIDE DEF ds
<1>2. h \in Seq(Entries) /\ Distinct(h) /\ Len(h) = Len(ds) /\ \A i \in 1..Len(ds) : h[i].ip = ds[i].ip
  BY <1>1, NamedGood, Zenon DEF NamesAll
<1>3. BuildHosts(ns, ps) = h
  BY DEF BuildHosts, ds
<1> HIDE DEF h
<1>4. DOMAIN h = 1..(Len(ns) + Len(ps))
  BY <1>1, <1>2
<1>5. \A i \in 1..Len(ns) : h[i].ip = ns[i].ip
  BY <1>1, <1>2
<1>6. \A i \in 1..Len(ps) : h[Len(ns) + i].ip = ps[i].ip
  <2> TAKE i \in 1..Len(ps)
  <2>1. Len(ns) + i \in 1..Len(ds)
    BY <1>1
  <2>2. h[Len(ns) + i].ip = ds[Len(ns) + i].ip /\ ds[Len(ns) + i] = ps[i]
    BY <1>1, <1>2, <2>1
  <2> QED
    BY <2>2
<1>7. \A i \in DOMAIN h : i \in 1..Len(ns) \/ \E j \in 1..Len(ps) : i = Len(ns) + j
  <2> TAKE i \in DOMAIN h
  <2>1. i \in Nat /\ (i \in 1..Len(ns) \/ i - Len(ns) \in 1..Len(ps))
    BY <1>1, <1>4
  <2>2. i = Len(ns) + (i - Len(ns))
    BY <1>1, <2>1
  <2> QED
    BY <2>1, <2>2
<1>8. (\A i \in 1..Len(ns) : i \in DOMAIN h) /\ (\A j \in 1..Len(ps) : Len(ns) + j \in DOMAIN h)
  BY <1>1, <1>4
<1>9. IPs(h) = IPs(ns) \union IPs(ps)
  <2>1. IPs(h) \subseteq IPs(ns) \union IPs(ps)
    <3> SUFFICES ASSUME NEW x \in IPs(h) PROVE x \in IPs(ns) \union IPs(ps)
      OBVIOUS
    <3>1. PICK i \in DOMAIN h : x = h[i].ip
      BY DEF IPs
    <3>2. CASE i \in 1..Len(ns)
      BY <1>1, <1>5, <3>1, <3>2 DEF IPs
    <3>3. ASSUME NEW j \in 1..Len(ps), i = Len(ns) + j PROVE x \in IPs(ps)
      <4>1. x = ps[j].ip /\ j \in DOMAIN ps
        BY <1>1, <1>6, <3>1, <3>3
      <4> QED
        BY <4>1 DEF IPs
    <3> QED
      BY <1>7, <3>2, <3>3
  <2>2. IPs(ns) \subseteq IPs(h)
    BY <1>1, <1>5, <1>8 DEF IPs
  <2>3. IPs(ps) \subseteq IPs(h)
    BY <1>1, <1>6, <1>8 DEF IPs
  <2> QED
    BY <2>1, <2>2, <2>3
<1> QED
  BY <1>1, <1>2, <1>3, <1>9

-----------------------------------------------------------------------------
(* Parts of sequences.                                                     *)

\* What SubSeq takes out.
LEMMA Slice ==
  ASSUME NEW T, NEW s \in Seq(T), NEW m \in Nat \ {0}, NEW n \in Nat, n <= Len(s), m <= n + 1
  PROVE  /\ SubSeq(s, m, n) \in Seq(T) /\ Len(SubSeq(s, m, n)) = n - m + 1
         /\ \A i \in 1..(n - m + 1) : SubSeq(s, m, n)[i] = s[m + i - 1]
<1>1. \A i \in m..n : s[i] \in T
  <2>1. Len(s) \in Nat /\ \A i \in 1..Len(s) : s[i] \in T
    BY LenProperties, ElementOfSeq
  <2> QED
    BY <2>1
<1>2. m \in Int /\ n \in Int
  OBVIOUS
<1>3. /\ SubSeq(s, m, n) \in Seq(T)
      /\ Len(SubSeq(s, m, n)) = IF m <= n THEN n - m + 1 ELSE 0
      /\ \A i \in 1..(n - m + 1) : SubSeq(s, m, n)[i] = s[m + i - 1]
  BY <1>1, <1>2, SubSeqProperties
<1>4. ~(m <= n) => n - m + 1 = 0
  OBVIOUS
<1> QED
  BY <1>3, <1>4

\* What two sequences together have where.
LEMMA Concat ==
  ASSUME NEW T, NEW s \in Seq(T), NEW t \in Seq(T)
  PROVE  /\ s \o t \in Seq(T) /\ Len(s \o t) = Len(s) + Len(t)
         /\ Len(s) \in Nat /\ Len(t) \in Nat
         /\ \A i \in 1..Len(s) : (s \o t)[i] = s[i]
         /\ \A i \in 1..Len(t) : (s \o t)[Len(s) + i] = t[i]
OBVIOUS

\* What RemoveAt leaves where.
LEMMA Removed ==
  ASSUME NEW T, NEW s \in Seq(T), NEW i \in DOMAIN s
  PROVE  /\ RemoveAt(s, i) \in Seq(T) /\ Len(RemoveAt(s, i)) = Len(s) - 1
         /\ i \in 1..Len(s) /\ Len(s) \in Nat
         /\ \A k \in 1..(Len(s) - 1) : RemoveAt(s, i)[k] = IF k < i THEN s[k] ELSE s[k + 1]
<1> DEFINE a == SubSeq(s, 1, i - 1)
           b == SubSeq(s, i + 1, Len(s))
           n == Len(s)
<1>1. i \in 1..n /\ n \in Nat
  OBVIOUS
<1>2. a \in Seq(T) /\ Len(a) = i - 1 /\ \A k \in 1..(i - 1) : a[k] = s[k]
  <2> DEFINE j == i - 1
  <2>1. j \in Nat /\ j <= n /\ 1 <= j + 1 /\ j - 1 + 1 = j /\ \A k \in 1..j : 1 + k - 1 = k
    BY <1>1
  <2> HIDE DEF j
  <2>2. /\ SubSeq(s, 1, j) \in Seq(T) /\ Len(SubSeq(s, 1, j)) = j - 1 + 1
        /\ \A k \in 1..(j - 1 + 1) : SubSeq(s, 1, j)[k] = s[1 + k - 1]
    BY <2>1, Slice
  <2>3. /\ SubSeq(s, 1, j) \in Seq(T) /\ Len(SubSeq(s, 1, j)) = j
        /\ \A k \in 1..j : SubSeq(s, 1, j)[k] = s[k]
    BY <2>1, <2>2
  <2> QED
    BY <2>3 DEF j
<1>3. b \in Seq(T) /\ Len(b) = n - i /\ \A k \in 1..(n - i) : b[k] = s[i + k]
  <2> DEFINE j == i + 1
  <2>1. /\ j \in Nat \ {0} /\ j <= n + 1 /\ n <= n /\ n - j + 1 = n - i
        /\ \A k \in 1..(n - i) : j + k - 1 = i + k
    BY <1>1
  <2> HIDE DEF j
  <2>2. /\ SubSeq(s, j, n) \in Seq(T) /\ Len(SubSeq(s, j, n)) = n - j + 1
        /\ \A k \in 1..(n - j + 1) : SubSeq(s, j, n)[k] = s[j + k - 1]
    BY <1>1, <2>1, Slice
  <2>3. /\ SubSeq(s, j, n) \in Seq(T) /\ Len(SubSeq(s, j, n)) = n - i
        /\ \A k \in 1..(n - i) : SubSeq(s, j, n)[k] = s[i + k]
    BY <2>1, <2>2
  <2> QED
    BY <2>3 DEF j
<1>4. RemoveAt(s, i) = a \o b
  BY DEF RemoveAt
<1> HIDE DEF a, b, n
<1>5. /\ a \o b \in Seq(T) /\ Len(a \o b) = Len(a) + Len(b)
      /\ \A k \in 1..Len(a) : (a \o b)[k] = a[k]
      /\ \A k \in 1..Len(b) : (a \o b)[Len(a) + k] = b[k]
  <2>1. a \in Seq(T) /\ b \in Seq(T)
    BY <1>2, <1>3
  <2> QED
    BY <2>1
<1>6. Len(a \o b) = n - 1
  BY <1>1, <1>2, <1>3, <1>5
<1>7. \A k \in 1..(n - 1) : (a \o b)[k] = IF k < i THEN s[k] ELSE s[k + 1]
  <2> TAKE k \in 1..(n - 1)
  <2>1. CASE k < i
    <3>1. k \in 1..Len(a)
      BY <1>1, <1>2, <2>1
    <3> QED
      BY <1>2, <1>5, <2>1, <3>1
  <2>2. CASE ~(k < i)
    <3> DEFINE m == k - (i - 1)
    <3>1. m \in 1..(n - i) /\ i + m = k + 1 /\ (i - 1) + m = k
      BY <1>1, <2>2
    <3>3. m \in 1..Len(b) /\ Len(a) + m = k
      BY <1>2, <1>3, <3>1
    <3> HIDE DEF m
    <3>2. (a \o b)[k] = b[m] /\ b[m] = s[k + 1]
      BY <1>3, <1>5, <3>1, <3>3
    <3> QED
      BY <2>2, <3>2
  <2> QED
    BY <2>1, <2>2
<1> QED
  BY <1>1, <1>4, <1>5, <1>6, <1>7 DEF n

\* Index is where a line that is there comes first.
LEMMA FirstIndex ==
  ASSUME NEW T, NEW f \in Seq(T), NEW line, Contains(f, line)
  PROVE  /\ Index(f, line) \in DOMAIN f /\ f[Index(f, line)] = line
         /\ \A k \in DOMAIN f : k < Index(f, line) => f[k] # line
         /\ Index(f, line) \in Nat
<1> DEFINE S == {i \in DOMAIN f : f[i] = line}
<1>1. DOMAIN f = 1..Len(f) /\ Len(f) \in Nat
  OBVIOUS
<1>2. S \subseteq Nat /\ S # {}
  BY <1>1 DEF Contains
<1>3. Index(f, line) = Min(S)
  BY DEF Index
<1>4. Min(S) \in S /\ \A y \in S : Min(S) <= y
  <2> HIDE DEF S
  <2> QED
    BY <1>2, MinNat
<1>5. \A k \in DOMAIN f : k < Min(S) => f[k] # line
  <2> TAKE k \in DOMAIN f
  <2>1. \A y \in S : y \in Nat
    BY <1>2
  <2>2. f[k] = line => k \in S
    OBVIOUS
  <2> HIDE DEF S
  <2> QED
    BY <1>4, <2>1, <2>2
<1> QED
  BY <1>1, <1>2, <1>3, <1>4, <1>5

-----------------------------------------------------------------------------
(* The lines of /etc/hosts.                                                *)

\* A line is a marker, a name or a line of others, and never two of these.
LEMMA LineKinds ==
  /\ Begin # End /\ Begin.kind # "host" /\ End.kind # "host"
  /\ Begin \notin ForeignLines /\ End \notin ForeignLines
  /\ \A l \in ForeignLines : l.kind # "host" /\ l # Begin /\ l # End
  /\ \A l \in Lines : l = Begin \/ l = End \/ l \in ForeignLines \/ l.kind = "host"
  /\ Begin \in Lines /\ End \in Lines /\ ForeignLines \subseteq Lines
<1>1. Begin.kind = "begin" /\ End.kind = "end"
  BY DEF Begin, End
<1>2. \A l \in ForeignLines : l.kind = "foreign"
  BY DEF ForeignLines, ForeignLine
<1>3. \A l \in Lines : l = Begin \/ l = End \/ l \in ForeignLines \/ l.kind = "host"
  <2> SUFFICES ASSUME NEW l \in [kind : {"host"}, name : Labels \ {NoLabel}, ip : Addrs \union {HubIP}]
               PROVE  l.kind = "host"
    BY DEF Lines
  <2> QED
    OBVIOUS
<1>4. Begin \in Lines /\ End \in Lines /\ ForeignLines \subseteq Lines
  BY DEF Lines
<1>5. /\ Begin.kind # "host" /\ End.kind # "host" /\ Begin.kind # End.kind
      /\ Begin.kind # "foreign" /\ End.kind # "foreign"
  BY <1>1
<1> QED
  BY <1>2, <1>3, <1>4, <1>5

\* The line of an entry is a name.
LEMMA HostLineKind ==
  ASSUME NEW e \in Entries
  PROVE  /\ HostLine(e) \in Lines /\ HostLine(e).kind = "host"
         /\ HostLine(e) # Begin /\ HostLine(e) # End /\ HostLine(e) \notin ForeignLines
<1>1. HostLine(e).kind = "host"
  BY DEF HostLine
<1>2. e.name \in Labels \ {NoLabel} /\ e.ip \in Addrs \union {HubIP}
  BY DEF Entries
<1>3. HostLine(e) \in [kind : {"host"}, name : Labels \ {NoLabel}, ip : Addrs \union {HubIP}]
  BY <1>2 DEF HostLine
<1>4. HostLine(e) \in Lines
  BY <1>3 DEF Lines
<1> QED
  BY <1>1, <1>4, LineKinds

\* The lines of names in a file.
HostsOf(f) == {l \in ToSet(f) : l.kind = "host"}

\* A file with nothing of the agent's in it.
LEMMA ForeignFile ==
  ASSUME NEW u \in Seq(ForeignLines)
  PROVE  u \in Seq(Lines) /\ WellFormed(u) /\ HostsOf(u) = {}
<1>1. DOMAIN u = 1..Len(u) /\ \A i \in DOMAIN u : u[i] \in ForeignLines
  OBVIOUS
<1>2. \A i \in DOMAIN u : u[i] # Begin /\ u[i] # End /\ u[i].kind # "host"
  BY <1>1, LineKinds
<1>3. u \in Seq(Lines)
  BY LineKinds, SeqMonotonic
<1>4. WellFormed(u)
  BY <1>2 DEF WellFormed
<1>5. HostsOf(u) = {}
  BY <1>2 DEF HostsOf, ToSet
<1> QED
  BY <1>3, <1>4, <1>5

\* The block: the marker, a line for every entry, the marker.
LEMMA Block ==
  ASSUME NEW h \in Seq(Entries), h # <<>>
  PROVE  /\ RenderBlock(h) \in Seq(Lines) /\ Len(RenderBlock(h)) = Len(h) + 2
         /\ RenderBlock(h)[1] = Begin /\ RenderBlock(h)[Len(h) + 2] = End
         /\ \A i \in 1..Len(h) : RenderBlock(h)[i + 1] = HostLine(h[i])
<1> DEFINE m == [i \in DOMAIN h |-> HostLine(h[i])]
           n == Len(h)
<1>1. DOMAIN h = 1..n /\ n \in Nat /\ \A i \in 1..n : h[i] \in Entries
  OBVIOUS
<1>2. \A i \in 1..n : HostLine(h[i]) \in Lines
  BY <1>1, HostLineKind
<1>3. m \in Seq(Lines) /\ Len(m) = n /\ \A i \in 1..n : m[i] = HostLine(h[i])
  <2>1. m = [i \in 1..n |-> HostLine(h[i])]
    BY <1>1
  <2> HIDE DEF n
  <2>2. [i \in 1..n |-> HostLine(h[i])] \in Seq(Lines)
    BY <1>1, <1>2
  <2>3. Len([i \in 1..n |-> HostLine(h[i])]) = n
    BY <1>1
  <2> QED
    BY <2>1, <2>2, <2>3
<1>4. RenderBlock(h) = <<Begin>> \o m \o <<End>>
  BY DEF RenderBlock
<1> HIDE DEF m, n
<1>5. <<Begin>> \in Seq(Lines) /\ <<End>> \in Seq(Lines)
      /\ Len(<<Begin>>) = 1 /\ <<Begin>>[1] = Begin /\ Len(<<End>>) = 1 /\ <<End>>[1] = End
  BY LineKinds
<1> DEFINE b == <<Begin>>
           e == <<End>>
<1> HIDE DEF b, e
<1>6. b \in Seq(Lines) /\ e \in Seq(Lines) /\ Len(b) = 1 /\ b[1] = Begin /\ Len(e) = 1 /\ e[1] = End
  BY <1>5 DEF b, e
<1>7. RenderBlock(h) = (b \o m) \o e
  BY <1>4 DEF b, e
<1> DEFINE bm == b \o m
<1>c. b \in Seq(Lines) /\ m \in Seq(Lines) /\ e \in Seq(Lines)
  BY <1>3, <1>6
<1>8. /\ bm \in Seq(Lines) /\ Len(bm) = Len(b) + Len(m)
      /\ \A i \in 1..Len(b) : bm[i] = b[i]
      /\ \A i \in 1..Len(m) : bm[Len(b) + i] = m[i]
  BY <1>c
<1> HIDE DEF bm
<1> DEFINE be == bm \o e
<1>9. /\ be \in Seq(Lines) /\ Len(be) = Len(bm) + Len(e)
      /\ \A i \in 1..Len(bm) : be[i] = bm[i]
      /\ \A i \in 1..Len(e) : be[Len(bm) + i] = e[i]
  <2>1. bm \in Seq(Lines)
    BY <1>8
  <2> QED
    BY <1>c, <2>1
<1> HIDE DEF be
<1>10. Len(bm) = n + 1 /\ Len(be) = n + 2
  BY <1>1, <1>3, <1>6, <1>8, <1>9
<1>11. be[1] = Begin /\ be[n + 2] = End
  <2>1. 1 \in 1..Len(b) /\ 1 \in 1..Len(bm) /\ 1 \in 1..Len(e) /\ Len(bm) + 1 = n + 2
    BY <1>1, <1>6, <1>10
  <2> QED
    BY <1>6, <1>8, <1>9, <2>1
<1>12. \A i \in 1..n : be[i + 1] = m[i]
  <2> TAKE i \in 1..n
  <2>1. i + 1 \in 1..Len(bm) /\ i \in 1..Len(m) /\ Len(b) + i = i + 1
    BY <1>1, <1>3, <1>6, <1>10
  <2> QED
    BY <1>8, <1>9, <2>1
<1> QED
  BY <1>3, <1>7, <1>9, <1>10, <1>11, <1>12 DEF n, bm, be

\* A block behind the lines of others.
LEMMA BlockBehind ==
  ASSUME NEW u \in Seq(ForeignLines), NEW h \in Seq(Entries)
  PROVE  /\ u \o RenderBlock(h) \in Seq(Lines) /\ WellFormed(u \o RenderBlock(h))
         /\ HostsOf(u \o RenderBlock(h)) = {HostLine(e) : e \in ToSet(h)}
<1> DEFINE R == RenderBlock(h)
           w == u \o R
           m == Len(u)
           n == Len(h)
<1>0. u \in Seq(Lines) /\ m \in Nat /\ n \in Nat /\ DOMAIN h = 1..n
  BY ForeignFile
<1>1. CASE h = <<>>
  <2>1. u \o RenderBlock(h) = u
    BY <1>1, ConcatEmptySeq DEF RenderBlock
  <2>2. {HostLine(e) : e \in ToSet(h)} = {}
    BY <1>1 DEF ToSet
  <2> QED
    BY <2>1, <2>2, ForeignFile
<1>2. CASE h # <<>>
  <2>1. /\ R \in Seq(Lines) /\ Len(R) = n + 2 /\ R[1] = Begin /\ R[n + 2] = End
        /\ \A i \in 1..n : R[i + 1] = HostLine(h[i])
    BY <1>2, Block
  <2> HIDE DEF R
  <2>2. /\ w \in Seq(Lines) /\ Len(w) = m + n + 2 /\ DOMAIN w = 1..(m + n + 2)
        /\ \A i \in 1..m : w[i] = u[i]
        /\ \A i \in 1..(n + 2) : w[m + i] = R[i]
    <3>1. u \in Seq(Lines) /\ R \in Seq(Lines)
      BY <1>0, <2>1
    <3>2. /\ w \in Seq(Lines) /\ Len(w) = m + Len(R) /\ DOMAIN w = 1..(m + Len(R))
          /\ \A i \in 1..m : w[i] = u[i]
          /\ \A i \in 1..Len(R) : w[m + i] = R[i]
      BY <3>1
    <3>3. m + Len(R) = m + n + 2 /\ Len(R) = n + 2
      BY <1>0, <2>1
    <3> HIDE DEF w, m, n
    <3> QED
      BY <3>2, <3>3
  <2>a. \A i \in 1..m : u[i] \in ForeignLines
    OBVIOUS
  <2>b. \A i \in 1..n : h[i] \in Entries
    OBVIOUS
  <2> HIDE DEF w, m, n
  <2>3. \A i \in 1..m : w[i] \in ForeignLines
    BY <2>2, <2>a
  <2>4. w[m + 1] = Begin /\ w[m + n + 2] = End
    <3>1. m + (n + 2) = m + n + 2 /\ 1 \in 1..(n + 2) /\ n + 2 \in 1..(n + 2)
      BY <1>0
    <3>2. w[m + 1] = R[1] /\ w[m + (n + 2)] = R[n + 2]
      BY <2>2, <3>1
    <3> QED
      BY <2>1, <3>1, <3>2
  <2>5. \A i \in 1..n : w[m + 1 + i] = HostLine(h[i])
    <3> TAKE i \in 1..n
    <3>1. i + 1 \in 1..(n + 2) /\ m + (i + 1) = m + 1 + i
      BY <1>0
    <3> QED
      BY <2>1, <2>2, <3>1
  <2>6. \A i \in DOMAIN w :
           \/ i \in 1..m
           \/ i = m + 1
           \/ i = m + n + 2
           \/ m + 1 < i /\ i < m + n + 2 /\ \E j \in 1..n : i = m + 1 + j
    <3> TAKE i \in DOMAIN w
    <3>0. i \in 1..(m + n + 2)
      BY <2>2
    <3>1. \/ i \in 1..m
          \/ i = m + 1
          \/ i = m + n + 2
          \/ /\ m + 1 < i /\ i < m + n + 2
             /\ i - (m + 1) \in 1..n /\ i = m + 1 + (i - (m + 1))
      BY <1>0, <3>0
    <3> QED
      BY <3>1
  <2>7. \A i \in DOMAIN w :
           /\ w[i] = Begin => i = m + 1
           /\ w[i] = End => i = m + n + 2
           /\ w[i].kind = "host" => m + 1 < i /\ i < m + n + 2
           /\ w[i] \in ForeignLines => i \in 1..m
    <3> TAKE i \in DOMAIN w
    <3>1. CASE i \in 1..m
      BY <2>3, <3>1, LineKinds
    <3>2. CASE i = m + 1
      BY <2>4, <3>2, LineKinds
    <3>3. CASE i = m + n + 2
      BY <2>4, <3>3, LineKinds
    <3>4. ASSUME m + 1 < i, i < m + n + 2, NEW j \in 1..n, i = m + 1 + j
          PROVE  w[i] # Begin /\ w[i] # End /\ w[i] \notin ForeignLines
      BY <2>5, <2>b, <3>4, HostLineKind
    <3> QED
      BY <2>6, <3>1, <3>2, <3>3, <3>4
  <2>8. WellFormed(w)
    <3>1. \A i, j \in DOMAIN w : w[i] = w[j] /\ w[i] \in {Begin, End} => i = j
      BY <2>7
    <3>2. \A k \in DOMAIN w : w[k] = End => \E j \in 1..(k - 1) : w[j] = Begin
      <4> TAKE k \in DOMAIN w
      <4> HAVE w[k] = End
      <4>1. k = m + n + 2
        BY <2>7
      <4>2. m + 1 \in 1..(k - 1)
        BY <1>0, <4>1
      <4> QED
        BY <2>4, <4>2
    <3>3. \A i \in DOMAIN w : w[i].kind = "host"
            => \E j \in 1..(i - 1) : w[j] = Begin /\ \A k \in j..i : w[k] # End
      <4> SUFFICES ASSUME NEW i \in DOMAIN w, w[i].kind = "host"
                   PROVE  \E j \in 1..(i - 1) : w[j] = Begin /\ \A k \in j..i : w[k] # End
        OBVIOUS
      <4>1. m + 1 < i /\ i < m + n + 2 /\ i \in Nat
        BY <2>2, <2>7
      <4>2. m + 1 \in 1..(i - 1) /\ \A k \in (m + 1)..i : k \in DOMAIN w /\ k # m + n + 2
        BY <1>0, <2>2, <4>1
      <4> QED
        BY <2>4, <2>7, <4>2
    <3>4. \A i, j, k \in DOMAIN w :
            w[j] = Begin /\ w[k] = End /\ j < i /\ i < k => w[i] \notin ForeignLines
      BY <1>0, <2>2, <2>7
    <3> QED
      BY <3>1, <3>2, <3>3, <3>4 DEF WellFormed
  <2>9. HostsOf(w) = {HostLine(e) : e \in ToSet(h)}
    <3>1. ASSUME NEW l \in HostsOf(w)
          PROVE  l \in {HostLine(e) : e \in ToSet(h)}
      <4>1. PICK i \in DOMAIN w : l = w[i] /\ l.kind = "host"
        BY DEF HostsOf, ToSet
      <4>2. PICK j \in 1..n : i = m + 1 + j
        <5>1. i # m + 1 /\ i # m + n + 2 /\ i \notin 1..m
          BY <2>3, <2>4, <4>1, LineKinds
        <5> QED
          BY <2>6, <5>1
      <4>3. l = HostLine(h[j]) /\ j \in DOMAIN h
        BY <1>0, <2>5, <4>1, <4>2
      <4> QED
        BY <4>3 DEF ToSet
    <3>2. ASSUME NEW e \in ToSet(h)
          PROVE  HostLine(e) \in HostsOf(w)
      <4>1. PICK i \in 1..n : e = h[i]
        BY <1>0 DEF ToSet
      <4>2. m + 1 + i \in DOMAIN w /\ w[m + 1 + i] = HostLine(e)
        BY <1>0, <2>2, <2>5, <4>1
      <4>3. HostLine(e).kind = "host"
        BY <2>b, <4>1, HostLineKind
      <4> QED
        BY <4>2, <4>3 DEF HostsOf, ToSet
    <3> QED
      BY <3>1, <3>2
  <2> QED
    BY <2>2, <2>8, <2>9 DEF w, R
<1> QED
  BY <1>1, <1>2

-----------------------------------------------------------------------------
(* updateHostsFile: what it takes out and what it leaves.                  *)

\* A sequence of which all elements are in a set is a sequence over that set.
LEMMA AllIn ==
  ASSUME NEW T, NEW s \in Seq(T), NEW S, \A i \in 1..Len(s) : s[i] \in S
  PROVE  s \in Seq(S)
OBVIOUS

\* Where the agent's lines are in a file with a block: between the markers, or behind
\* the begin when there is no end.
LEMMA Places ==
  ASSUME NEW f \in Seq(Lines), WellFormed(f), NEW b \in DOMAIN f, f[b] = Begin
  PROVE  /\ \A k \in DOMAIN f : k < b => f[k] \in ForeignLines
         /\ \A e \in DOMAIN f : f[e] = End
              => /\ b < e
                 /\ \A k \in DOMAIN f : e < k => f[k] \in ForeignLines
                 /\ \A k \in DOMAIN f : b <= k /\ k <= e => f[k] \notin ForeignLines
<1>1. /\ DOMAIN f = 1..Len(f) /\ Len(f) \in Nat
      /\ \A k \in DOMAIN f : f[k] = Begin \/ f[k] = End \/ f[k] \in ForeignLines \/ f[k].kind = "host"
  BY LineKinds
<1>2. /\ \A k \in DOMAIN f : f[k] = Begin => k = b
      /\ \A j, k \in DOMAIN f : f[j] = End /\ f[k] = End => j = k
  BY DEF WellFormed
<1>3. \A k \in DOMAIN f : f[k] = End => b < k
  <2> TAKE k \in DOMAIN f
  <2> HAVE f[k] = End
  <2>1. PICK j \in 1..(k - 1) : f[j] = Begin
    BY DEF WellFormed
  <2>2. j \in DOMAIN f /\ j < k
    BY <1>1
  <2> QED
    BY <1>2, <2>1, <2>2
<1>4. \A k \in DOMAIN f : f[k].kind = "host" => b < k /\ \A i \in b..k : f[i] # End
  <2> TAKE k \in DOMAIN f
  <2> HAVE f[k].kind = "host"
  <2>1. PICK j \in 1..(k - 1) : f[j] = Begin /\ \A i \in j..k : f[i] # End
    BY DEF WellFormed
  <2>2. j \in DOMAIN f /\ j < k
    BY <1>1
  <2>3. j = b
    BY <1>2, <2>1, <2>2
  <2> QED
    BY <2>1, <2>2, <2>3
<1>5. \A k \in DOMAIN f : k < b => f[k] \in ForeignLines
  BY <1>1, <1>2, <1>3, <1>4
<1>6. ASSUME NEW e \in DOMAIN f, f[e] = End
      PROVE  /\ b < e
             /\ \A k \in DOMAIN f : e < k => f[k] \in ForeignLines
             /\ \A k \in DOMAIN f : b <= k /\ k <= e => f[k] \notin ForeignLines
  <2>1. b < e
    BY <1>3, <1>6
  <2>2. \A k \in DOMAIN f : e < k => f[k] \in ForeignLines
    <3> TAKE k \in DOMAIN f
    <3> HAVE e < k
    <3>1. f[k] # Begin /\ f[k] # End
      BY <1>1, <1>2, <1>6, <2>1
    <3>2. f[k].kind # "host"
      <4>1. e \in b..k
        BY <1>1, <2>1
      <4> QED
        BY <1>4, <1>6, <4>1
    <3> QED
      BY <1>1, <3>1, <3>2
  <2>3. \A k \in DOMAIN f : b <= k /\ k <= e => f[k] \notin ForeignLines
    <3> TAKE k \in DOMAIN f
    <3> HAVE b <= k /\ k <= e
    <3>1. k = b \/ k = e \/ (b < k /\ k < e)
      BY <1>1
    <3>2. b < k /\ k < e => f[k] \notin ForeignLines
      BY <1>6 DEF WellFormed
    <3> QED
      BY <1>6, <3>1, <3>2, LineKinds
  <2> QED
    BY <2>1, <2>2, <2>3
<1> QED
  BY <1>5, <1>6

\* Without a begin marker there is nothing of the agent's.
LEMMA NoBlock ==
  ASSUME NEW f \in Seq(Lines), WellFormed(f), ~Contains(f, Begin)
  PROVE  f \in Seq(ForeignLines)
<1>1. /\ DOMAIN f = 1..Len(f) /\ Len(f) \in Nat
      /\ \A k \in DOMAIN f : f[k] = Begin \/ f[k] = End \/ f[k] \in ForeignLines \/ f[k].kind = "host"
  BY LineKinds
<1>2. \A k \in DOMAIN f : f[k] # Begin
  BY <1>1 DEF Contains
<1>3. \A k \in DOMAIN f : f[k] # End
  <2> SUFFICES ASSUME NEW k \in DOMAIN f, f[k] = End PROVE FALSE
    OBVIOUS
  <2>1. PICK j \in 1..(k - 1) : f[j] = Begin
    BY DEF WellFormed
  <2>2. j \in DOMAIN f
    BY <1>1
  <2> QED
    BY <1>2, <2>1, <2>2
<1>4. \A k \in DOMAIN f : f[k].kind # "host"
  <2> SUFFICES ASSUME NEW k \in DOMAIN f, f[k].kind = "host" PROVE FALSE
    OBVIOUS
  <2>1. PICK j \in 1..(k - 1) : f[j] = Begin
    BY DEF WellFormed
  <2>2. j \in DOMAIN f
    BY <1>1
  <2> QED
    BY <1>2, <2>1, <2>2
<1>5. \A k \in 1..Len(f) : f[k] \in ForeignLines
  BY <1>1, <1>2, <1>3, <1>4
<1> QED
  BY <1>5, AllIn

\* The lines before the block.
LEMMA Before ==
  ASSUME NEW f \in Seq(Lines), NEW b \in DOMAIN f
  PROVE  /\ SubSeq(f, 1, b - 1) \in Seq(Lines) /\ Len(SubSeq(f, 1, b - 1)) = b - 1
         /\ \A i \in 1..(b - 1) : SubSeq(f, 1, b - 1)[i] = f[i] /\ i \in DOMAIN f /\ i < b
<1> DEFINE n == b - 1
<1>1. DOMAIN f = 1..Len(f) /\ Len(f) \in Nat /\ b \in 1..Len(f)
  OBVIOUS
<1>2. n \in Nat /\ n <= Len(f) /\ 1 <= n + 1 /\ n - 1 + 1 = n /\ 1 \in Nat \ {0}
      /\ \A i \in 1..n : 1 + i - 1 = i /\ i \in 1..Len(f) /\ i < b
  BY <1>1
<1> HIDE DEF n
<1>3. /\ SubSeq(f, 1, n) \in Seq(Lines) /\ Len(SubSeq(f, 1, n)) = n - 1 + 1
      /\ \A i \in 1..(n - 1 + 1) : SubSeq(f, 1, n)[i] = f[1 + i - 1]
  BY <1>2, Slice
<1>4. /\ SubSeq(f, 1, n) \in Seq(Lines) /\ Len(SubSeq(f, 1, n)) = n
      /\ \A i \in 1..n : SubSeq(f, 1, n)[i] = f[i] /\ i \in DOMAIN f /\ i < b
  BY <1>1, <1>2, <1>3
<1> QED
  BY <1>4 DEF n

\* The lines behind the block.
LEMMA After ==
  ASSUME NEW f \in Seq(Lines), NEW e \in DOMAIN f
  PROVE  /\ SubSeq(f, e + 1, Len(f)) \in Seq(Lines) /\ Len(SubSeq(f, e + 1, Len(f))) = Len(f) - e
         /\ \A i \in 1..(Len(f) - e) :
              SubSeq(f, e + 1, Len(f))[i] = f[e + i] /\ e + i \in DOMAIN f /\ e < e + i
<1> DEFINE m == e + 1
           n == Len(f)
<1>1. DOMAIN f = 1..n /\ n \in Nat /\ e \in 1..n
  OBVIOUS
<1>2. m \in Nat \ {0} /\ n <= Len(f) /\ m <= n + 1 /\ n - m + 1 = n - e
      /\ \A i \in 1..(n - e) : m + i - 1 = e + i /\ e + i \in 1..n /\ e < e + i
  BY <1>1
<1> HIDE DEF m
<1>3. /\ SubSeq(f, m, n) \in Seq(Lines) /\ Len(SubSeq(f, m, n)) = n - m + 1
      /\ \A i \in 1..(n - m + 1) : SubSeq(f, m, n)[i] = f[m + i - 1]
  BY <1>1, <1>2, Slice
<1> HIDE DEF n
<1>4. /\ SubSeq(f, m, n) \in Seq(Lines) /\ Len(SubSeq(f, m, n)) = n - e
      /\ \A i \in 1..(n - e) : SubSeq(f, m, n)[i] = f[e + i] /\ e + i \in DOMAIN f /\ e < e + i
  BY <1>1, <1>2, <1>3
<1> QED
  BY <1>4 DEF m, n

\* The agent's lines go and the lines of others stay, in their order, unless
\* the end of the block is missing.
LEMMA Stripped ==
  ASSUME NEW f \in Seq(Lines), WellFormed(f)
  PROVE  /\ StripManagedBlock(f) \in Seq(ForeignLines)
         /\ (Contains(f, Begin) => Contains(f, End))
              => OnlyIn(StripManagedBlock(f), ForeignLines) = OnlyIn(f, ForeignLines)
<1>1. CASE ~Contains(f, Begin)
  BY <1>1, NoBlock DEF StripManagedBlock
<1>2. CASE Contains(f, Begin)
  <2> DEFINE b == Index(f, Begin)
             before == SubSeq(f, 1, b - 1)
  <2>1. b \in DOMAIN f /\ f[b] = Begin
    BY <1>2, FirstIndex
  <2> HIDE DEF b
  <2>2. /\ before \in Seq(Lines) /\ Len(before) = b - 1
        /\ \A i \in 1..(b - 1) : before[i] = f[i] /\ i \in DOMAIN f /\ i < b
    BY <2>1, Before
  <2> HIDE DEF before
  <2>3. before \in Seq(ForeignLines)
    <3>1. \A i \in 1..Len(before) : before[i] \in ForeignLines
      BY <2>1, <2>2, Places
    <3> QED
      BY <2>2, <3>1, AllIn
  <2>4. CASE ~Contains(f, End)
    <3>1. StripManagedBlock(f) = before \o <<>>
      BY <1>2, <2>4 DEF StripManagedBlock, before, b
    <3>2. StripManagedBlock(f) = before
      BY <2>3, <3>1, ConcatEmptySeq
    <3> QED
      BY <1>2, <2>3, <2>4, <3>2
  <2>5. CASE Contains(f, End)
    <3> DEFINE e == Index(f, End)
               behind == SubSeq(f, e + 1, Len(f))
               inside == SubSeq(f, b, e)
    <3>1. e \in DOMAIN f /\ f[e] = End
      BY <2>5, FirstIndex
    <3> HIDE DEF e
    <3>2. /\ behind \in Seq(Lines) /\ Len(behind) = Len(f) - e
          /\ \A i \in 1..(Len(f) - e) : behind[i] = f[e + i] /\ e + i \in DOMAIN f /\ e < e + i
      BY <3>1, After
    <3> HIDE DEF behind
    <3>3. /\ b < e
          /\ \A k \in DOMAIN f : e < k => f[k] \in ForeignLines
          /\ \A k \in DOMAIN f : b <= k /\ k <= e => f[k] \notin ForeignLines
      BY <2>1, <3>1, Places
    <3>4. behind \in Seq(ForeignLines)
      <4>1. \A i \in 1..Len(behind) : behind[i] \in ForeignLines
        BY <3>2, <3>3
      <4> QED
        BY <3>2, <4>1, AllIn
    <3>5. StripManagedBlock(f) = before \o behind
      BY <1>2, <2>5 DEF StripManagedBlock, before, b, behind, e
    <3>6. before \o behind \in Seq(ForeignLines)
      BY <2>3, <3>4
    <3>7. /\ inside \in Seq(Lines) /\ Len(inside) = e - b + 1
          /\ \A i \in 1..(e - b + 1) : inside[i] = f[b + i - 1]
      <4>1. b \in Nat \ {0} /\ e \in Nat /\ e <= Len(f) /\ b <= e + 1
        BY <2>1, <3>1, <3>3
      <4> QED
        BY <4>1, Slice
    <3>8. \A i \in DOMAIN inside : inside[i] \notin ForeignLines
      <4>1. DOMAIN inside = 1..(e - b + 1)
        BY <2>1, <3>1, <3>3, <3>7
      <4>2. \A i \in 1..(e - b + 1) : b + i - 1 \in DOMAIN f /\ b <= b + i - 1 /\ b + i - 1 <= e
        BY <2>1, <3>1, <3>3
      <4> HIDE DEF inside
      <4> QED
        BY <3>3, <3>7, <4>1, <4>2
    <3>9. f = (before \o inside) \o behind
      <4>1. /\ 1 \in 1..(Len(f) + 1) /\ b - 1 \in (1 - 1)..Len(f) /\ e \in (b - 1)..Len(f)
            /\ (b - 1) + 1 = b /\ e \in (1 - 1)..Len(f) /\ Len(f) \in e..Len(f)
        BY <2>1, <3>1, <3>3
      <4>2. SubSeq(f, 1, b - 1) \o SubSeq(f, (b - 1) + 1, e) = SubSeq(f, 1, e)
        BY <4>1, ConcatAdjacentSubSeq
      <4>3. SubSeq(f, 1, e) \o SubSeq(f, e + 1, Len(f)) = SubSeq(f, 1, Len(f))
        BY <4>1, ConcatAdjacentSubSeq
      <4>4. SubSeq(f, 1, Len(f)) = f
        BY SubSeqFull
      <4>5. SubSeq(f, 1, b - 1) \o SubSeq(f, b, e) = SubSeq(f, 1, e)
        BY <4>1, <4>2
      <4> QED
        BY <4>3, <4>4, <4>5 DEF before, behind
    <3> HIDE DEF inside
    <3>10. OnlyIn(inside, ForeignLines) = <<>>
      BY <3>7, <3>8, OnlyInNone
    <3>11. OnlyIn(before \o inside, ForeignLines) = OnlyIn(before, ForeignLines)
      <4>1. OnlyIn(before \o inside, ForeignLines)
              = OnlyIn(before, ForeignLines) \o OnlyIn(inside, ForeignLines)
        BY <2>2, <3>7, OnlyInConcat
      <4>2. OnlyIn(before, ForeignLines) \in Seq(Lines)
        BY <2>2, OnlyInSeq, Zenon
      <4> QED
        BY <3>10, <4>1, <4>2, ConcatEmptySeq
    <3>12. OnlyIn(f, ForeignLines)
             = OnlyIn(before \o inside, ForeignLines) \o OnlyIn(behind, ForeignLines)
      <4>1. before \o inside \in Seq(Lines)
        BY <2>2, <3>7
      <4> DEFINE bi == before \o inside
      <4> HIDE DEF bi
      <4>2. bi \in Seq(Lines) /\ behind \in Seq(Lines)
        BY <3>2, <4>1 DEF bi
      <4>3. OnlyIn(bi \o behind, ForeignLines) = OnlyIn(bi, ForeignLines) \o OnlyIn(behind, ForeignLines)
        BY <4>2, OnlyInConcat
      <4> QED
        BY <3>9, <4>3 DEF bi
    <3>13. OnlyIn(before \o behind, ForeignLines)
             = OnlyIn(before, ForeignLines) \o OnlyIn(behind, ForeignLines)
      BY <2>2, <3>2, OnlyInConcat
    <3> QED
      BY <3>5, <3>6, <3>11, <3>12, <3>13
  <2> QED
    BY <2>4, <2>5
<1> QED
  BY <1>1, <1>2

\* ... so what it writes has the new names and no other, and keeps the rest.
LEMMA UpdatedGood ==
  ASSUME NEW f \in Seq(Lines), WellFormed(f), NEW h \in Seq(Entries)
  PROVE  /\ Updated(f, h) \in Seq(Lines) /\ WellFormed(Updated(f, h))
         /\ HostsOf(Updated(f, h)) = {HostLine(e) : e \in ToSet(h)}
<1> DEFINE u == StripManagedBlock(f)
<1>1. u \in Seq(ForeignLines)
  BY Stripped
<1>2. Updated(f, h) = u \o RenderBlock(h)
  BY DEF Updated
<1> HIDE DEF u
<1> QED
  BY <1>1, <1>2, BlockBehind

\* Whatever the new names are, the lines of others stay.
LEMMA UpdatedKeeps ==
  ASSUME NEW f \in Seq(Lines), WellFormed(f), NEW h \in Seq(Entries),
         Contains(f, Begin) => Contains(f, End)
  PROVE  OnlyIn(Updated(f, h), ForeignLines) = OnlyIn(f, ForeignLines)
<1> DEFINE u == StripManagedBlock(f)
           R == RenderBlock(h)
<1>1. u \in Seq(ForeignLines) /\ OnlyIn(u, ForeignLines) = OnlyIn(f, ForeignLines)
  BY Stripped
<1>2. Updated(f, h) = u \o R
  BY DEF Updated
<1> HIDE DEF u
<1>3. R \in Seq(Lines) /\ \A i \in DOMAIN R : R[i] \notin ForeignLines
  <2>1. CASE h = <<>>
    <3>1. R = <<>>
      BY <2>1 DEF RenderBlock
    <3> HIDE DEF R
    <3> QED
      BY <3>1
  <2>2. CASE h # <<>>
    <3> DEFINE n == Len(h)
    <3>1. n \in Nat /\ \A i \in 1..n : h[i] \in Entries
      OBVIOUS
    <3>2. /\ R \in Seq(Lines) /\ Len(R) = n + 2 /\ R[1] = Begin /\ R[n + 2] = End
          /\ \A i \in 1..n : R[i + 1] = HostLine(h[i])
      BY <2>2, Block
    <3> HIDE DEF R, n
    <3>3. ASSUME NEW i \in DOMAIN R
          PROVE  R[i] \notin ForeignLines
      <4>1. i \in 1..(n + 2)
        BY <3>2
      <4>2. i = 1 \/ i = n + 2 \/ (i - 1 \in 1..n /\ (i - 1) + 1 = i)
        BY <3>1, <4>1
      <4>3. i - 1 \in 1..n /\ (i - 1) + 1 = i => R[i] = HostLine(h[i - 1]) /\ h[i - 1] \in Entries
        BY <3>1, <3>2
      <4> QED
        BY <3>2, <4>2, <4>3, LineKinds, HostLineKind
    <3> QED
      BY <3>2, <3>3
  <2> QED
    BY <2>1, <2>2
<1> HIDE DEF R
<1>4. OnlyIn(R, ForeignLines) = <<>>
  BY <1>3, OnlyInNone
<1>5. u \in Seq(Lines)
  BY <1>1, ForeignFile
<1>6. OnlyIn(u \o R, ForeignLines) = OnlyIn(u, ForeignLines) \o OnlyIn(R, ForeignLines)
  BY <1>3, <1>5, OnlyInConcat
<1>7. OnlyIn(u, ForeignLines) \in Seq(Lines)
  BY <1>5, OnlyInSeq, Zenon
<1>8. OnlyIn(u, ForeignLines) \o <<>> = OnlyIn(u, ForeignLines)
  BY <1>7, ConcatEmptySeq
<1> QED
  BY <1>1, <1>2, <1>4, <1>6, <1>8

-----------------------------------------------------------------------------
(* What others do to the file.                                             *)

\* p tells where in f the lines of g are; only lines of others and the end
\* of the block may be missing.
PartOf(g, f, p) ==
  /\ p \in [DOMAIN g -> DOMAIN f]
  /\ \A j, k \in DOMAIN g : j < k <=> p[j] < p[k]
  /\ \A k \in DOMAIN g : g[k] = f[p[k]]
  /\ \A m \in DOMAIN f : f[m] = Begin \/ f[m].kind = "host" => \E k \in DOMAIN g : p[k] = m

\* A file that lost such lines is as well formed as it was, with the same names.
LEMMA Thinned ==
  ASSUME NEW f \in Seq(Lines), NEW g \in Seq(Lines), WellFormed(f), NEW p, PartOf(g, f, p)
  PROVE  WellFormed(g) /\ HostsOf(g) = HostsOf(f)
<1> USE DEF PartOf
<1>1. /\ DOMAIN f = 1..Len(f) /\ Len(f) \in Nat /\ DOMAIN g = 1..Len(g) /\ Len(g) \in Nat
      /\ \A k \in DOMAIN g : p[k] \in DOMAIN f /\ p[k] \in Nat /\ k \in Nat
  OBVIOUS
<1>2. \A j, k \in DOMAIN g : p[j] = p[k] => j = k
  BY <1>1
<1>3. \A i, j \in DOMAIN g : g[i] = g[j] /\ g[i] \in {Begin, End} => i = j
  BY <1>1, <1>2 DEF WellFormed
<1>4. \A k \in DOMAIN g : g[k] = End => \E j \in 1..(k - 1) : g[j] = Begin
  <2> SUFFICES ASSUME NEW k \in DOMAIN g, g[k] = End
               PROVE  \E j \in 1..(k - 1) : g[j] = Begin
    OBVIOUS
  <2>1. PICK m \in 1..(p[k] - 1) : f[m] = Begin
    BY <1>1 DEF WellFormed
  <2>2. m \in DOMAIN f /\ m < p[k]
    BY <1>1
  <2>3. PICK j \in DOMAIN g : p[j] = m
    BY <2>1, <2>2
  <2>4. j \in 1..(k - 1) /\ g[j] = Begin
    BY <1>1, <2>1, <2>2, <2>3
  <2> QED
    BY <2>4
<1>5. \A i \in DOMAIN g : g[i].kind = "host"
        => \E j \in 1..(i - 1) : g[j] = Begin /\ \A k \in j..i : g[k] # End
  <2> SUFFICES ASSUME NEW i \in DOMAIN g, g[i].kind = "host"
               PROVE  \E j \in 1..(i - 1) : g[j] = Begin /\ \A k \in j..i : g[k] # End
    OBVIOUS
  <2>1. PICK m \in 1..(p[i] - 1) : f[m] = Begin /\ \A k \in m..p[i] : f[k] # End
    BY <1>1 DEF WellFormed
  <2>2. m \in DOMAIN f /\ m < p[i]
    BY <1>1
  <2>3. PICK j \in DOMAIN g : p[j] = m
    BY <2>1, <2>2
  <2>4. j \in 1..(i - 1) /\ g[j] = Begin
    BY <1>1, <2>1, <2>2, <2>3
  <2>5. \A k \in j..i : g[k] # End
    <3> TAKE k \in j..i
    <3>1. k \in DOMAIN g /\ ~(k < j) /\ ~(i < k)
      BY <1>1
    <3>2. ~(p[k] < p[j]) /\ ~(p[i] < p[k])
      BY <3>1
    <3>3. p[k] \in m..p[i]
      BY <1>1, <2>2, <2>3, <3>1, <3>2
    <3> QED
      BY <2>1, <3>1, <3>3
  <2> QED
    BY <2>4, <2>5
<1>6. \A i, j, k \in DOMAIN g :
        g[j] = Begin /\ g[k] = End /\ j < i /\ i < k => g[i] \notin ForeignLines
  BY <1>1 DEF WellFormed
<1>7. WellFormed(g)
  BY <1>3, <1>4, <1>5, <1>6 DEF WellFormed
<1>8. HostsOf(g) = HostsOf(f)
  BY <1>1 DEF HostsOf, ToSet
<1> QED
  BY <1>7, <1>8

\* A line is removed: one of others, or the end of the block.
LEMMA RemovedGood ==
  ASSUME NEW f \in Seq(Lines), WellFormed(f), NEW i \in DOMAIN f,
         f[i] # Begin, f[i].kind # "host"
  PROVE  /\ RemoveAt(f, i) \in Seq(Lines) /\ WellFormed(RemoveAt(f, i))
         /\ HostsOf(RemoveAt(f, i)) = HostsOf(f)
<1> DEFINE g == RemoveAt(f, i)
           p == [k \in DOMAIN g |-> IF k < i THEN k ELSE k + 1]
<1>1. /\ g \in Seq(Lines) /\ Len(g) = Len(f) - 1 /\ i \in 1..Len(f) /\ Len(f) \in Nat
      /\ \A k \in 1..(Len(f) - 1) : g[k] = IF k < i THEN f[k] ELSE f[k + 1]
  BY Removed
<1> HIDE DEF g
<1>2. DOMAIN f = 1..Len(f) /\ DOMAIN g = 1..(Len(f) - 1)
  BY <1>1
<1>3. p \in [DOMAIN g -> DOMAIN f]
  BY <1>1, <1>2
<1>4. \A k \in DOMAIN g : p[k] = (IF k < i THEN k ELSE k + 1) /\ k \in Nat
  BY <1>2
<1> HIDE DEF p
<1>5. \A j, k \in DOMAIN g : j < k <=> p[j] < p[k]
  BY <1>1, <1>4
<1>6. \A k \in DOMAIN g : g[k] = f[p[k]]
  BY <1>1, <1>2, <1>4
<1>7. \A m \in DOMAIN f : m # i => \E k \in DOMAIN g : p[k] = m
  <2> SUFFICES ASSUME NEW m \in DOMAIN f, m # i PROVE \E k \in DOMAIN g : p[k] = m
    OBVIOUS
  <2>1. CASE m < i
    <3>1. m \in DOMAIN g
      BY <1>1, <1>2, <2>1
    <3>2. p[m] = m
      BY <1>4, <2>1, <3>1
    <3> QED
      BY <3>1, <3>2
  <2>2. CASE ~(m < i)
    <3> DEFINE k == m - 1
    <3>1. k \in DOMAIN g /\ ~(k < i) /\ k + 1 = m
      BY <1>1, <1>2, <2>2
    <3> HIDE DEF k
    <3> QED
      BY <1>4, <3>1
  <2> QED
    BY <2>1, <2>2
<1>8. PartOf(g, f, p)
  BY <1>3, <1>5, <1>6, <1>7 DEF PartOf
<1>9. WellFormed(g) /\ HostsOf(g) = HostsOf(f)
  BY <1>1, <1>8, Thinned, Zenon
<1> QED
  BY <1>1, <1>9 DEF g

\* A line of others is added at an end of the file: at q, and the lines of f
\* moved by o.
AddsLine(g, f, q, o) ==
  /\ q \in DOMAIN g /\ o \in Nat /\ g[q] \in ForeignLines
  /\ (\A i \in DOMAIN g : q <= i) \/ (\A i \in DOMAIN g : i <= q)
  /\ \A i \in DOMAIN g : i = q \/ (i - o \in DOMAIN f /\ g[i] = f[i - o])
  /\ \A k \in DOMAIN f : k + o \in DOMAIN g /\ k + o # q /\ g[k + o] = f[k]

\* A file with such a line more is as well formed as it was, with the same names.
LEMMA Added ==
  ASSUME NEW f \in Seq(Lines), NEW g \in Seq(Lines), WellFormed(f),
         NEW q, NEW o, AddsLine(g, f, q, o)
  PROVE  WellFormed(g) /\ HostsOf(g) = HostsOf(f)
<1> USE DEF AddsLine
<1>1. /\ DOMAIN f = 1..Len(f) /\ Len(f) \in Nat /\ DOMAIN g = 1..Len(g) /\ Len(g) \in Nat
      /\ \A i \in DOMAIN g : i \in Nat
      /\ \A i \in DOMAIN f : i \in Nat /\ (i + o) - o = i
  BY SMT
<1>2. g[q] # Begin /\ g[q] # End /\ g[q].kind # "host"
  BY LineKinds
<1>3. \A i, j \in DOMAIN g : g[i] = g[j] /\ g[i] \in {Begin, End} => i = j
  <2> SUFFICES ASSUME NEW i \in DOMAIN g, NEW j \in DOMAIN g, g[i] = g[j], g[i] \in {Begin, End}
               PROVE  i = j
    OBVIOUS
  <2>1. i # q /\ j # q
    BY <1>2
  <2>2. i - o \in DOMAIN f /\ j - o \in DOMAIN f /\ g[i] = f[i - o] /\ g[j] = f[j - o]
    BY <2>1
  <2>3. i - o = j - o
    BY <2>2 DEF WellFormed
  <2> QED
    BY <1>1, <2>3
<1>4. \A k \in DOMAIN g : g[k] = End => \E j \in 1..(k - 1) : g[j] = Begin
  <2> SUFFICES ASSUME NEW k \in DOMAIN g, g[k] = End
               PROVE  \E j \in 1..(k - 1) : g[j] = Begin
    OBVIOUS
  <2>1. k - o \in DOMAIN f /\ f[k - o] = End
    BY <1>2
  <2>2. PICK m \in 1..(k - o - 1) : f[m] = Begin
    BY <2>1 DEF WellFormed
  <2>3. m \in DOMAIN f
    BY <1>1, <2>1
  <2>4. g[m + o] = Begin /\ m + o \in DOMAIN g
    BY <2>2, <2>3
  <2>5. m + o \in 1..(k - 1)
    BY <1>1, <2>1, <2>4
  <2> QED
    BY <2>4, <2>5
<1>5. \A i \in DOMAIN g : g[i].kind = "host"
        => \E j \in 1..(i - 1) : g[j] = Begin /\ \A k \in j..i : g[k] # End
  <2> SUFFICES ASSUME NEW i \in DOMAIN g, g[i].kind = "host"
               PROVE  \E j \in 1..(i - 1) : g[j] = Begin /\ \A k \in j..i : g[k] # End
    OBVIOUS
  <2>1. i - o \in DOMAIN f /\ f[i - o].kind = "host"
    BY <1>2
  <2>2. PICK m \in 1..(i - o - 1) : f[m] = Begin /\ \A k \in m..(i - o) : f[k] # End
    BY <2>1 DEF WellFormed
  <2>3. m \in DOMAIN f
    BY <1>1, <2>1
  <2>4. g[m + o] = Begin /\ m + o \in DOMAIN g
    BY <2>2, <2>3
  <2>5. m + o \in 1..(i - 1)
    BY <1>1, <2>1, <2>4
  <2>6. \A k \in (m + o)..i : g[k] # End
    <3> TAKE k \in (m + o)..i
    <3>1. k \in DOMAIN g /\ k - o \in m..(i - o)
      BY <1>1, <2>3, <2>4
    <3> QED
      BY <1>2, <2>2, <3>1
  <2> QED
    BY <2>4, <2>5, <2>6
<1>6. \A i, j, k \in DOMAIN g :
        g[j] = Begin /\ g[k] = End /\ j < i /\ i < k => g[i] \notin ForeignLines
  <2> SUFFICES ASSUME NEW i \in DOMAIN g, NEW j \in DOMAIN g, NEW k \in DOMAIN g,
                      g[j] = Begin, g[k] = End, j < i, i < k
               PROVE  g[i] \notin ForeignLines
    OBVIOUS
  <2>1. i # q /\ j # q /\ k # q
    BY <1>1, <1>2
  <2>2. /\ i - o \in DOMAIN f /\ j - o \in DOMAIN f /\ k - o \in DOMAIN f
        /\ g[i] = f[i - o] /\ f[j - o] = Begin /\ f[k - o] = End
    BY <2>1
  <2>3. j - o < i - o /\ i - o < k - o
    BY <1>1
  <2> QED
    BY <2>2, <2>3 DEF WellFormed
<1>7. WellFormed(g)
  BY <1>3, <1>4, <1>5, <1>6 DEF WellFormed
<1>8. HostsOf(g) = HostsOf(f)
  BY <1>2 DEF HostsOf, ToSet
<1> QED
  BY <1>7, <1>8

\* An edit at the top of the file.
LEMMA Prepended ==
  ASSUME NEW f \in Seq(Lines), WellFormed(f), NEW l \in ForeignLines
  PROVE  <<l>> \o f \in Seq(Lines) /\ WellFormed(<<l>> \o f) /\ HostsOf(<<l>> \o f) = HostsOf(f)
<1> DEFINE b == <<l>>
           g == b \o f
<1>1. b \in Seq(Lines) /\ Len(b) = 1 /\ b[1] = l
  BY LineKinds
<1> HIDE DEF b
<1>2. /\ g \in Seq(Lines) /\ Len(g) = Len(b) + Len(f) /\ Len(f) \in Nat
      /\ DOMAIN g = 1..(Len(b) + Len(f)) /\ DOMAIN f = 1..Len(f)
      /\ \A i \in 1..Len(b) : g[i] = b[i]
      /\ \A i \in 1..Len(f) : g[Len(b) + i] = f[i]
  <2>1. b \in Seq(Lines)
    BY <1>1
  <2> QED
    BY <2>1
<1> HIDE DEF g
<1>3. /\ DOMAIN g = 1..(Len(f) + 1) /\ g[1] = l /\ 1 \in DOMAIN g
      /\ \A i \in 1..Len(f) : g[i + 1] = f[i]
  BY <1>1, <1>2
<1>4. \A i \in DOMAIN g : 1 <= i
  BY <1>2, <1>3
<1>5. \A i \in DOMAIN g : i = 1 \/ (i - 1 \in DOMAIN f /\ g[i] = f[i - 1])
  <2> TAKE i \in DOMAIN g
  <2>1. i = 1 \/ (i - 1 \in 1..Len(f) /\ (i - 1) + 1 = i)
    BY <1>2, <1>3
  <2> QED
    BY <1>2, <1>3, <2>1
<1>6. \A k \in DOMAIN f : k + 1 \in DOMAIN g /\ k + 1 # 1 /\ g[k + 1] = f[k]
  BY <1>2, <1>3
<1>7. AddsLine(g, f, 1, 1)
  BY <1>3, <1>4, <1>5, <1>6 DEF AddsLine
<1>8. WellFormed(g) /\ HostsOf(g) = HostsOf(f)
  BY <1>2, <1>7, Added, Zenon
<1> QED
  BY <1>2, <1>8 DEF g, b

\* An edit at the end of the file.
LEMMA Appended ==
  ASSUME NEW f \in Seq(Lines), WellFormed(f), NEW l \in ForeignLines
  PROVE  Append(f, l) \in Seq(Lines) /\ WellFormed(Append(f, l)) /\ HostsOf(Append(f, l)) = HostsOf(f)
<1> DEFINE g == Append(f, l)
           q == Len(f) + 1
<1>1. /\ g \in Seq(Lines) /\ Len(f) \in Nat /\ DOMAIN g = 1..q /\ DOMAIN f = 1..Len(f)
      /\ g[q] = l /\ \A i \in 1..Len(f) : g[i] = f[i]
  BY LineKinds, AppendSeq
<1>2. q \in Nat /\ q \in 1..q /\ \A i \in 1..q : i <= q
  BY <1>1
<1> HIDE DEF g
<1>3. \A i \in DOMAIN g : i = q \/ (i - 0 \in DOMAIN f /\ g[i] = f[i - 0])
  <2> TAKE i \in DOMAIN g
  <2>1. i = q \/ i \in 1..Len(f)
    BY <1>1
  <2>2. i - 0 = i
    BY <1>1
  <2> QED
    BY <1>1, <2>1, <2>2
<1>4. \A k \in DOMAIN f : k + 0 \in DOMAIN g /\ k + 0 # q /\ g[k + 0] = f[k]
  <2> TAKE k \in DOMAIN f
  <2>1. k + 0 = k /\ k \in 1..q /\ k # q
    BY <1>1
  <2> QED
    BY <1>1, <2>1
<1> HIDE DEF q
<1>5. AddsLine(g, f, q, 0)
  BY <1>1, <1>2, <1>3, <1>4 DEF AddsLine
<1>6. WellFormed(g) /\ HostsOf(g) = HostsOf(f)
  BY <1>1, <1>5, Added, Zenon
<1> QED
  BY <1>1, <1>6 DEF g

-----------------------------------------------------------------------------
(* The invariant.                                                          *)

USE DEF RowsOK, CountersOK, LoopOK, NamesOK

\* The bounds are numbers (HostsAssumption).
LEMMA Numbers == MaxWrites \in Nat /\ MaxDisturbances \in Nat
BY HostsAssumption

\* What the admin does to the tables is a commit, and leaves rows in them.
LEMMA AdminRows ==
  ASSUME TypeOK, AdminStep
  PROVE  Commit /\ nodes' \in Seq(Row) /\ statics' \in Seq(Row)
<1>0. nodes \in Seq(Row) /\ statics \in Seq(Row)
  BY DEF TypeOK
<1>1. ASSUME NEW name \in RawNames, CreateStatic(name)
      PROVE  Commit /\ nodes' \in Seq(Row) /\ statics' \in Seq(Row)
  <2>1. PICK a \in Allocate :
          statics' = Append(statics, [name |-> name, ip |-> a, approved |-> TRUE])
    BY <1>1 DEF CreateStatic
  <2>2. [name |-> name, ip |-> a, approved |-> TRUE] \in Row
    BY <2>1 DEF Row, Allocate
  <2> QED
    BY <1>0, <1>1, <2>1, <2>2 DEF CreateStatic
<1>2. ASSUME NEW name \in RawNames, NEW b \in BOOLEAN, Enroll(name, b)
      PROVE  Commit /\ nodes' \in Seq(Row) /\ statics' \in Seq(Row)
  <2>1. PICK a \in Allocate :
          nodes' = Append(nodes, [name |-> name, ip |-> a, approved |-> b])
    BY <1>2 DEF Enroll
  <2>2. [name |-> name, ip |-> a, approved |-> b] \in Row
    BY <2>1 DEF Row, Allocate
  <2> QED
    BY <1>0, <1>2, <2>1, <2>2 DEF Enroll
<1>3. ASSUME NEW i \in DOMAIN nodes, Approve(i)
      PROVE  Commit /\ nodes' \in Seq(Row) /\ statics' \in Seq(Row)
  <2>1. nodes[i] \in Row
    BY <1>0
  <2>2. [nodes[i] EXCEPT !.approved = TRUE] \in Row
    BY <2>1 DEF Row
  <2>3. nodes' = [nodes EXCEPT ![i] = [nodes[i] EXCEPT !.approved = TRUE]]
    BY <1>3 DEF Approve
  <2> QED
    BY <1>0, <1>3, <2>2, <2>3 DEF Approve
<1>4. ASSUME NEW i \in DOMAIN nodes, DeleteNode(i)
      PROVE  Commit /\ nodes' \in Seq(Row) /\ statics' \in Seq(Row)
  BY <1>0, <1>4, Removed DEF DeleteNode
<1>5. ASSUME NEW i \in DOMAIN statics, DeleteStatic(i)
      PROVE  Commit /\ nodes' \in Seq(Row) /\ statics' \in Seq(Row)
  BY <1>0, <1>5, Removed DEF DeleteStatic
<1> QED
  BY <1>1, <1>2, <1>3, <1>4, <1>5 DEF AdminStep

\* The values that Init starts from.
LEMMA NothingYet ==
  /\ NoList \in Lists /\ NoList.version = 0 /\ NoList.hosts = <<>> /\ Distinct(<<>>)
  /\ WellFormed(<<>>) /\ ToSet(<<>>) = {} /\ <<>> \in Seq(Lines) /\ <<>> \in Seq(Row)
<1>1. NoList.version = 0 /\ NoList.hosts = <<>>
  BY DEF NoList
<1>2. <<>> \in Seq(Entries) /\ <<>> \in Seq(ForeignLines) /\ <<>> \in Seq(Row) /\ DOMAIN <<>> = {}
  OBVIOUS
<1>3. NoList \in Lists
  BY <1>2 DEF NoList, Lists
<1> QED
  BY <1>1, <1>2, <1>3, ForeignFile DEF Distinct, ToSet

\* The parts of a list.
LEMMA ListParts ==
  ASSUME NEW l \in Lists
  PROVE  l.version \in Nat /\ l.hosts \in Seq(Entries)
BY DEF Lists

\* A poll that has read both tables makes a list of the version it read first.
LEMMA ReadsGood ==
  ASSUME IInv, ReadStatics
  PROVE  /\ got' = [version |-> hver, hosts |-> BuildHosts(rnodes, statics)]
         /\ got'.version = hver /\ got'.hosts = BuildHosts(rnodes, statics)
         /\ got' \in Lists /\ Distinct(got'.hosts)
<1>1. rnodes \in Seq(Row) /\ statics \in Seq(Row) /\ hver \in Nat
  BY DEF IInv, TypeOK
<1>2. BuildHosts(rnodes, statics) \in Seq(Entries) /\ Distinct(BuildHosts(rnodes, statics))
  BY <1>1, BuildHostsGood, Zenon
<1>3. got' = [version |-> hver, hosts |-> BuildHosts(rnodes, statics)]
  BY DEF ReadStatics
<1>4. got'.version = hver /\ got'.hosts = BuildHosts(rnodes, statics)
  BY <1>3
<1>5. got' \in Lists
  BY <1>1, <1>2, <1>3 DEF Lists
<1> QED
  BY <1>2, <1>3, <1>4, <1>5

\* What a step may make of the file and of the copy read.
LEMMA FilesGood ==
  ASSUME IInv, [Next]_vars
  PROVE  /\ file' \in Seq(Lines) /\ WellFormed(file')
         /\ read' \in Seq(Lines) /\ WellFormed(read')
         /\ HostsOf(file') = HostsOf(file)
              \/ (HostsRename /\ HostsOf(file') = {HostLine(e) : e \in ToSet(got.hosts)})
<1>1. /\ file \in Seq(Lines) /\ WellFormed(file) /\ read \in Seq(Lines) /\ WellFormed(read)
      /\ got.hosts \in Seq(Entries)
  BY ListParts DEF IInv, TypeOK, FileInv
<1>2. CASE UNCHANGED <<file, read>>
  BY <1>1, <1>2
<1>3. CASE UNCHANGED file /\ (read' = file \/ read' = <<>>)
  BY <1>1, <1>3, NothingYet
<1>4. CASE HostsRename
  BY <1>1, <1>4, UpdatedGood DEF HostsRename
<1>5. CASE Edit
  <2>0. UNCHANGED read
    BY <1>5 DEF Edit
  <2>1. PICK l \in ForeignLines :
          IF Contains(file, l)
            THEN file' = RemoveAt(file, Index(file, l))
            ELSE file' \in {<<l>> \o file, Append(file, l)}
    BY <1>5 DEF Edit, ForeignLines
  <2>2. CASE Contains(file, l)
    <3>1. Index(file, l) \in DOMAIN file /\ file[Index(file, l)] = l
      BY <1>1, <2>2, FirstIndex
    <3>2. l # Begin /\ l.kind # "host"
      BY LineKinds
    <3> DEFINE i == Index(file, l)
    <3> HIDE DEF i
    <3>3. i \in DOMAIN file /\ file[i] # Begin /\ file[i].kind # "host"
      BY <3>1, <3>2 DEF i
    <3>4. /\ RemoveAt(file, i) \in Seq(Lines) /\ WellFormed(RemoveAt(file, i))
          /\ HostsOf(RemoveAt(file, i)) = HostsOf(file)
      BY <1>1, <3>3, RemovedGood
    <3> QED
      BY <1>1, <2>0, <2>1, <2>2, <3>4 DEF i
  <2>3. CASE file' = <<l>> \o file
    BY <1>1, <2>0, <2>3, Prepended
  <2>4. CASE file' = Append(file, l)
    BY <1>1, <2>0, <2>4, Appended
  <2> QED
    BY <2>1, <2>2, <2>3, <2>4
<1>6. CASE EditEnd
  <2> DEFINE i == Index(file, End)
  <2>1. UNCHANGED read /\ file' = RemoveAt(file, i) /\ Contains(file, End)
    BY <1>6 DEF EditEnd
  <2>2. i \in DOMAIN file /\ file[i] = End
    BY <1>1, <2>1, FirstIndex
  <2> HIDE DEF i
  <2>3. file[i] # Begin /\ file[i].kind # "host"
    BY <2>2, LineKinds
  <2>4. /\ RemoveAt(file, i) \in Seq(Lines) /\ WellFormed(RemoveAt(file, i))
        /\ HostsOf(RemoveAt(file, i)) = HostsOf(file)
    BY <1>1, <2>2, <2>3, RemovedGood
  <2> QED
    BY <1>1, <2>1, <2>4
<1>7. CASE AdminStep
  <2>1. Commit
    BY <1>7, AdminRows DEF IInv
  <2> QED
    BY <1>2, <2>1 DEF Commit, hostVars
<1>8. CASE Bump \/ Poll \/ ReadNodes \/ ReadStatics \/ Adopt \/ Start \/ PollError
  BY <1>2, <1>8 DEF Bump, Poll, ReadNodes, ReadStatics, Adopt, Start, PollError, hostVars
<1>9. CASE HostsRead \/ SetHosts \/ Crash
  BY <1>3, <1>9 DEF HostsRead, SetHosts, Crash
<1>10. CASE UNCHANGED vars
  BY <1>2, <1>10 DEF vars, hostVars
<1> QED
  BY <1>4, <1>5, <1>6, <1>7, <1>8, <1>9, <1>10 DEF Next, AgentStep

\* Init establishes the invariant.
LEMMA InitInv == Init => IInv
<1> SUFFICES ASSUME Init PROVE IInv
  OBVIOUS
<1>1. nodes \in Seq(Row)
  <2>1. [name |-> HubName, ip |-> HubIP, approved |-> TRUE] \in Row
    BY HostsAssumption DEF Row
  <2> QED
    BY <2>1 DEF Init
<1>2. file \in Seq(ForeignLines)
  BY DEF Init, ForeignLines
<1>3. file \in Seq(Lines) /\ WellFormed(file) /\ HostsOf(file) = {}
  BY <1>2, ForeignFile
<1>4. TypeOK
  <2>1. RowsOK /\ NamesOK
    BY <1>1, <1>3, NothingYet DEF Init
  <2>2. CountersOK
    BY Numbers DEF Init
  <2>3. LoopOK
    BY DEF Init
  <2> QED
    BY <2>1, <2>2, <2>3 DEF TypeOK
<1>5. NamesInv
  BY NothingYet DEF NamesInv, Init
<1>6. ExactInv
  BY NothingYet DEF ExactInv, Init
<1>7. FileInv
  BY <1>3, NothingYet DEF FileInv, Init
<1>8. ViewsInv
  BY <1>3, NothingYet DEF ViewsInv, Init, FileHas, HostLines, HostsOf
<1> QED
  BY <1>4, <1>5, <1>6, <1>7, <1>8 DEF IInv

\* Every step keeps the types.
LEMMA TypeStep == IInv /\ [Next]_vars => TypeOK'
<1> SUFFICES ASSUME IInv, [Next]_vars PROVE TypeOK'
  OBVIOUS
<1>0. /\ TypeOK
      /\ file' \in Seq(Lines) /\ read' \in Seq(Lines)
  BY FilesGood DEF IInv
<1> USE Numbers
<1>1. CASE AdminStep
  <2>1. Commit /\ nodes' \in Seq(Row) /\ statics' \in Seq(Row)
    BY <1>0, <1>1, AdminRows
  <2>2. RowsOK' /\ LoopOK' /\ NamesOK'
    BY <1>0, <2>1 DEF TypeOK, Commit, hostVars, pollVars
  <2>3. CountersOK'
    BY <1>0, <2>1 DEF TypeOK, Commit, pollVars
  <2> QED
    BY <2>2, <2>3 DEF TypeOK
<1>2. CASE Bump
  BY <1>0, <1>2 DEF TypeOK, Bump, pollVars, hostVars
<1>3. CASE Poll
  BY <1>0, <1>3 DEF TypeOK, Poll, Goto, storeVars, hostVars
<1>4. CASE ReadNodes
  BY <1>0, <1>4, VisibleRows DEF TypeOK, ReadNodes, Goto, storeVars, hostVars
<1>5. CASE ReadStatics
  <2>1. got' \in Lists
    BY <1>5, ReadsGood
  <2> QED
    BY <1>0, <1>5, <2>1, NothingYet DEF TypeOK, ReadStatics, Goto, storeVars, hostVars
<1>6. CASE Adopt
  <2>1. RowsOK' /\ NamesOK'
    BY <1>0, <1>6, NothingYet DEF TypeOK, Adopt, storeVars
  <2>2. CountersOK'
    BY <1>0, <1>6 DEF TypeOK, Adopt, Disturb, storeVars
  <2>3. LoopOK'
    BY <1>0, <1>6 DEF TypeOK, Adopt, Goto
  <2> QED
    BY <2>1, <2>2, <2>3 DEF TypeOK
<1>7. CASE HostsRead
  BY <1>0, <1>7 DEF TypeOK, HostsRead, Goto, storeVars
<1>8. CASE HostsRename
  <2>1. RowsOK' /\ NamesOK'
    BY <1>0, <1>8, NothingYet DEF TypeOK, HostsRename, storeVars
  <2>2. CountersOK'
    BY <1>0, <1>8 DEF TypeOK, HostsRename, Disturb, storeVars
  <2>3. LoopOK'
    BY <1>0, <1>8 DEF TypeOK, HostsRename, Goto
  <2> QED
    BY <2>1, <2>2, <2>3 DEF TypeOK
<1>9. CASE SetHosts
  <2>1. got.hosts \in Seq(Entries)
    BY <1>0, ListParts DEF TypeOK
  <2>2. ToSet(got.hosts) \subseteq Entries
    BY <2>1 DEF ToSet
  <2> QED
    BY <1>0, <1>9, <2>2, NothingYet DEF TypeOK, SetHosts, Goto, storeVars
<1>10. CASE Start
  BY <1>0, <1>10 DEF TypeOK, Start, Goto, storeVars, hostVars
<1>11. CASE PollError
  BY <1>0, <1>11, NothingYet DEF TypeOK, PollError, Disturb, Goto, storeVars, hostVars
<1>12. CASE Crash
  <2>1. RowsOK' /\ NamesOK'
    BY <1>0, <1>12, NothingYet DEF TypeOK, Crash, storeVars
  <2>2. CountersOK'
    BY <1>0, <1>12 DEF TypeOK, Crash, Disturb, storeVars
  <2>3. LoopOK'
    BY <1>0, <1>12 DEF TypeOK, Crash, Goto
  <2> QED
    BY <2>1, <2>2, <2>3 DEF TypeOK
<1>13. CASE Edit
  BY <1>0, <1>13 DEF TypeOK, Edit, Disturb, storeVars, pollVars
<1>14. CASE EditEnd
  BY <1>0, <1>14 DEF TypeOK, EditEnd, Disturb, storeVars, pollVars
<1>15. CASE UNCHANGED vars
  BY <1>0, <1>15 DEF TypeOK, vars, storeVars, pollVars, hostVars
<1> QED
  BY <1>1, <1>2, <1>3, <1>4, <1>5, <1>6, <1>7, <1>8, <1>9, <1>10, <1>11, <1>12, <1>13,
     <1>14, <1>15 DEF Next, AgentStep

\* Every step keeps NamesInv: lists are made by ReadStatics only.
LEMMA NamesStep == IInv /\ [Next]_vars => NamesInv'
<1> SUFFICES ASSUME IInv, [Next]_vars PROVE NamesInv'
  OBVIOUS
<1>0. Distinct(got.hosts) /\ Distinct(live.hosts) /\ Distinct(nm.hosts) /\ Distinct(NoList.hosts)
  BY NothingYet DEF IInv, NamesInv
<1>1. CASE ReadStatics
  <2>1. Distinct(got'.hosts) /\ UNCHANGED <<live, nm>>
    BY <1>1, ReadsGood DEF ReadStatics, hostVars
  <2> QED
    BY <1>0, <2>1 DEF NamesInv
<1>2. CASE {got', live', nm'} \subseteq {got, live, nm, NoList}
  BY <1>0, <1>2 DEF NamesInv
<1>3. CASE AdminStep
  <2>1. Commit
    BY <1>3, AdminRows DEF IInv
  <2> QED
    BY <1>2, <2>1 DEF Commit, hostVars, pollVars
<1>4. CASE Bump \/ Poll \/ ReadNodes \/ Start \/ PollError \/ Edit \/ EditEnd \/ UNCHANGED vars
  BY <1>2, <1>4 DEF Bump, Poll, ReadNodes, Start, PollError, Edit, EditEnd, vars, hostVars, pollVars
<1>5. CASE Adopt \/ HostsRead \/ HostsRename \/ SetHosts \/ Crash
  BY <1>2, <1>5 DEF Adopt, HostsRead, HostsRename, SetHosts, Crash
<1> QED
  BY <1>1, <1>3, <1>4, <1>5 DEF Next, AgentStep

\* What depends on the tables of a list that is not newer than they.
Behind(l) == l.version <= version /\ (l.version = version /\ owed = 0 => IsExact(l.hosts))

\* Every step keeps ExactInv: a commit makes a version owed, a bump makes every list an
\* older one.
LEMMA ExactStep == IInv /\ [Next]_vars => ExactInv'
<1> SUFFICES ASSUME IInv, [Next]_vars PROVE ExactInv'
  OBVIOUS
<1>0. /\ Behind(got) /\ Behind(live) /\ Behind(nm) /\ Behind(NoList)
      /\ pc = "statics" /\ hver = version /\ owed = 0 => rnodes = Visible(nodes)
      /\ version \in Nat \ {0} /\ hver \in 0..version /\ owed \in Nat
      /\ got.version \in Nat /\ live.version \in Nat /\ nm.version \in Nat
  <2>1. /\ version \in Nat \ {0} /\ hver \in 0..version /\ owed \in Nat
        /\ got.version \in Nat /\ live.version \in Nat /\ nm.version \in Nat
    BY Numbers, ListParts DEF IInv, TypeOK
  <2>2. Behind(NoList)
    BY <2>1, NothingYet DEF Behind
  <2> QED
    BY <2>1, <2>2 DEF IInv, ExactInv, Behind
<1> SUFFICES /\ Behind(got)' /\ Behind(live)' /\ Behind(nm)'
             /\ (pc = "statics" /\ hver = version /\ owed = 0 => rnodes = Visible(nodes))'
  BY DEF ExactInv, Behind
<1>1. CASE AdminStep
  <2>1. Commit
    BY <1>1, AdminRows DEF IInv
  <2>2. owed' # 0 /\ UNCHANGED <<version, got, live, nm>>
    BY <1>0, <2>1 DEF Commit, hostVars, pollVars
  <2> QED
    BY <1>0, <2>2 DEF Behind
<1>2. CASE Bump
  <2>1. version' = version + 1 /\ UNCHANGED <<got, live, nm, hver>>
    BY <1>2 DEF Bump, hostVars, pollVars
  <2>2. /\ got'.version < version' /\ live'.version < version' /\ nm'.version < version'
        /\ hver' < version' /\ version' \in Nat /\ hver' \in Nat
        /\ got'.version \in Nat /\ live'.version \in Nat /\ nm'.version \in Nat
    BY <1>0, <2>1 DEF Behind
  <2> QED
    BY <2>2 DEF Behind
<1>3. ASSUME UNCHANGED <<nodes, statics, version, owed>>, NEW l, Behind(l)
      PROVE  Behind(l)'
  BY <1>3 DEF Behind, IsExact
<1>4. CASE /\ UNCHANGED <<nodes, statics, version, owed>>
           /\ {got', live', nm'} \subseteq {got, live, nm, NoList}
           /\ pc' = "statics" => pc = "statics" /\ UNCHANGED <<hver, rnodes>>
  BY <1>0, <1>4 DEF Behind, IsExact
<1>5. CASE Poll
  BY <1>4, <1>5 DEF Poll, Goto, storeVars, hostVars
<1>6. CASE ReadNodes
  <2>1. /\ UNCHANGED <<nodes, statics, version, owed, got, live, nm>>
        /\ rnodes' = Visible(nodes)
    BY <1>6 DEF ReadNodes, storeVars, hostVars
  <2> QED
    BY <1>0, <2>1 DEF Behind, IsExact
<1>7. CASE ReadStatics
  <2>1. /\ UNCHANGED <<nodes, statics, version, owed, live, nm>> /\ pc = "statics" /\ pc' = "got"
        /\ got'.version = hver /\ got'.hosts = BuildHosts(rnodes, statics)
    BY <1>7, ReadsGood DEF ReadStatics, Goto, storeVars, hostVars
  <2>2. hver = version /\ owed = 0 => IsExact(got'.hosts)
    <3>1. nodes \in Seq(Row) /\ statics \in Seq(Row)
      BY DEF IInv, TypeOK
    <3>2. Visible(nodes) \in Seq(Row)
      BY <3>1, VisibleRows
    <3> DEFINE v == Visible(nodes)
    <3>3. /\ Len(BuildHosts(v, statics)) = Len(v) + Len(statics)
          /\ IPs(BuildHosts(v, statics)) = IPs(v) \union IPs(statics)
      BY <3>1, <3>2, BuildHostsGood, Zenon
    <3> QED
      BY <1>0, <2>1, <3>3 DEF IsExact
  <2>3. Behind(got)'
    BY <1>0, <2>1, <2>2 DEF Behind, IsExact
  <2> QED
    BY <1>0, <2>1, <2>3 DEF Behind, IsExact
<1>8. CASE Adopt \/ HostsRead \/ HostsRename \/ SetHosts \/ Crash
  BY <1>4, <1>8 DEF Adopt, HostsRead, HostsRename, SetHosts, Crash, Goto, storeVars
<1>9. CASE Start \/ PollError
  BY <1>4, <1>9 DEF Start, PollError, Goto, storeVars, hostVars
<1>10. CASE Edit \/ EditEnd \/ UNCHANGED vars
  BY <1>4, <1>10 DEF Edit, EditEnd, vars, storeVars, pollVars, hostVars
<1> QED
  BY <1>1, <1>2, <1>5, <1>6, <1>7, <1>8, <1>9, <1>10 DEF Next, AgentStep

\* Every step keeps FileInv.
LEMMA FileStep == IInv /\ [Next]_vars => FileInv'
BY FilesGood DEF FileInv

\* Every step keeps ViewsInv: the three views change one after the other, in one apply.
LEMMA ViewsStep == IInv /\ [Next]_vars => ViewsInv'
<1> SUFFICES ASSUME IInv, [Next]_vars PROVE ViewsInv'
  OBVIOUS
<1> DEFINE Idle == {"down", "idle", "nodes", "statics", "got"}
           Has(f, h) == HostsOf(f) = {HostLine(e) : e \in ToSet(h)}
<1>0. /\ ~up => pc = "down"
      /\ pc \in {"hosts", "rename", "dns"} => live = got
      /\ ~broken /\ pc = "dns" => Has(file, got.hosts)
      /\ ~broken /\ pc \in Idle => Has(file, live.hosts) /\ dns = ToSet(live.hosts)
  BY DEF IInv, ViewsInv, FileHas, HostLines, HostsOf
<1> SUFFICES /\ ~up' => pc' = "down"
             /\ pc' \in {"hosts", "rename", "dns"} => live' = got'
             /\ ~broken' /\ pc' = "dns" => Has(file', got'.hosts)
             /\ ~broken' /\ pc' \in Idle => Has(file', live'.hosts) /\ dns' = ToSet(live'.hosts)
  BY DEF ViewsInv, FileHas, HostLines, HostsOf
<1>1. HostsOf(file') = HostsOf(file) \/ (HostsRename /\ Has(file', got.hosts))
  BY FilesGood
<1> HIDE DEF Has
<1>2. \A h : Has(file, h) /\ HostsOf(file') = HostsOf(file) => Has(file', h)
  BY DEF Has
<1>3. CASE UNCHANGED <<up, pc, got, live, dns, broken>> /\ ~HostsRename
  BY <1>0, <1>1, <1>2, <1>3
<1>4. CASE AdminStep
  <2>1. Commit
    BY <1>4, AdminRows DEF IInv
  <2> QED
    BY <1>0, <2>1 DEF Commit, pollVars, hostVars
<1>5. CASE Bump \/ UNCHANGED vars
  BY <1>0, <1>5 DEF Bump, vars, pollVars, hostVars
<1>6. CASE Poll \/ ReadNodes \/ ReadStatics
  BY <1>0, <1>6 DEF Poll, ReadNodes, ReadStatics, Goto, hostVars
<1>7. CASE Adopt
  BY <1>0, <1>7 DEF Adopt, Goto
<1>8. CASE HostsRead
  <2>1. /\ UNCHANGED <<up, got, live, dns, file, broken>> /\ pc = "hosts"
        /\ pc' = IF Updated(file, got.hosts) = file THEN "dns" ELSE "rename"
    BY <1>8 DEF HostsRead, Goto
  <2>2. Updated(file, got.hosts) = file => Has(file, got.hosts)
    <3>1. file \in Seq(Lines) /\ WellFormed(file) /\ got.hosts \in Seq(Entries)
      BY ListParts DEF IInv, TypeOK, FileInv
    <3>2. Has(Updated(file, got.hosts), got.hosts)
      BY <3>1, UpdatedGood DEF Has
    <3> QED
      BY <3>2
  <2> QED
    BY <1>0, <2>1, <2>2
<1>9. CASE HostsRename
  <2>1. /\ UNCHANGED <<up, got, live>> /\ pc = "rename" /\ pc' = "dns"
        /\ (UNCHANGED broken /\ file' = Updated(read, got.hosts)) \/ broken'
    BY <1>9 DEF HostsRename, Goto
  <2>2. file' = Updated(read, got.hosts) => Has(file', got.hosts)
    <3>1. read \in Seq(Lines) /\ WellFormed(read) /\ got.hosts \in Seq(Entries)
      BY ListParts DEF IInv, TypeOK, FileInv
    <3> QED
      BY <3>1, UpdatedGood DEF Has
  <2> QED
    BY <1>0, <2>1, <2>2
<1>10. CASE SetHosts
  BY <1>0, <1>10 DEF SetHosts, Goto
<1>11. CASE Start
  BY <1>0, <1>11 DEF Start, Goto, hostVars
<1>12. CASE PollError
  BY <1>0, <1>12 DEF PollError, Goto, hostVars
<1>13. CASE Crash
  BY <1>13 DEF Crash, Goto
<1>14. CASE Edit \/ EditEnd
  <2>1. UNCHANGED <<up, pc, got, live, dns, broken>>
    BY <1>14 DEF Edit, EditEnd, pollVars
  <2>2. HostsRename => pc' # pc
    BY DEF HostsRename, Goto
  <2> QED
    BY <1>3, <2>1, <2>2
<1> QED
  BY <1>4, <1>5, <1>6, <1>7, <1>8, <1>9, <1>10, <1>11, <1>12, <1>13, <1>14 DEF Next, AgentStep

\* The rows, the lists, the file and the place of the loop agree with each
\* other in every state that writes, polls, applies, crashes and edits reach.
THEOREM Inductive == Spec => []IInv
<1>1. Init => IInv
  BY InitInv
<1>2. IInv /\ [Next]_vars => IInv'
  BY TypeStep, NamesStep, ExactStep, FileStep, ViewsStep DEF IInv
<1> QED
  BY <1>1, <1>2, PTL DEF Spec

\* Every variable has its type: every list that the agent holds consists of
\* labelled addresses, and every line of /etc/hosts is of a known kind.
THEOREM TypeCorrect == Spec => []TypeOK
<1>1. IInv => TypeOK
  BY DEF IInv
<1> QED
  BY <1>1, Inductive, PTL

\* buildHosts gives every device a usable name of its own, whatever the
\* devices are called and however the tables change between their reads.
THEOREM NamesDiffer == Spec => []OneDevicePerName
<1>1. IInv => OneDevicePerName
  <2> SUFFICES ASSUME IInv, NEW l \in {got, live, nm}, NEW i \in DOMAIN l.hosts
               PROVE  /\ l.hosts[i].name # NoLabel
                      /\ \A j \in DOMAIN l.hosts : l.hosts[i].name = l.hosts[j].name => i = j
    BY DEF OneDevicePerName
  <2>1. l \in Lists /\ Distinct(l.hosts)
    BY DEF IInv, TypeOK, NamesInv
  <2>2. l.hosts \in Seq(Entries)
    BY <2>1, ListParts
  <2>3. l.hosts[i] \in Entries
    BY <2>2
  <2>4. l.hosts[i].name # NoLabel
    BY <2>3 DEF Entries
  <2> QED
    BY <2>1, <2>4 DEF Distinct
<1> QED
  BY <1>1, Inductive, PTL

\* A list that is current by its version has every visible device once: the
\* long-poll reads the version before the tables, and handlers bump it after.
THEOREM CurrentIsExact == Spec => []CurrentListIsExact
<1>1. IInv => CurrentListIsExact
  BY DEF IInv, ExactInv, IsExact, CurrentListIsExact
<1> QED
  BY <1>1, Inductive, PTL

\* A name means the same to the command line, to the hub's resolver and to
\* the DNS responder once an apply went through, whatever others did to the
\* file before it, during it and after it.
THEOREM ViewsTheSame == Spec => []ViewsAgree
<1>1. IInv => ViewsAgree
  <2> SUFFICES ASSUME IInv, pc = "idle", ~broken, NEW n
               PROVE  ResolveFile(n) = ResolveDevice(n) /\ AnswerKai(n) = ResolveDevice(n)
    BY DEF ViewsAgree
  <2>1. HostLines = {HostLine(e) : e \in ToSet(live.hosts)} /\ dns = ToSet(live.hosts)
    BY DEF IInv, ViewsInv, FileHas
  <2>2. \A e : HostLine(e).name = e.name /\ HostLine(e).ip = e.ip
    BY DEF HostLine
  <2> DEFINE S == ToSet(live.hosts)
             H == {HostLine(e) : e \in S}
  <2>3. {l.ip : l \in {d \in H : d.name = n}} = {e.ip : e \in {d \in S : d.name = n}}
    <3> HIDE DEF S
    <3>1. \A e \in S : HostLine(e) \in H
      OBVIOUS
    <3>2. \A l \in H : \E e \in S : l = HostLine(e)
      OBVIOUS
    <3> HIDE DEF H
    <3>3. ASSUME NEW a \in {l.ip : l \in {d \in H : d.name = n}}
          PROVE  a \in {e.ip : e \in {d \in S : d.name = n}}
      <4>1. PICK l \in H : l.name = n /\ a = l.ip
        OBVIOUS
      <4>2. PICK e \in S : l = HostLine(e)
        BY <3>2
      <4> QED
        BY <2>2, <4>1, <4>2
    <3>4. ASSUME NEW a \in {e.ip : e \in {d \in S : d.name = n}}
          PROVE  a \in {l.ip : l \in {d \in H : d.name = n}}
      <4>1. PICK e \in S : e.name = n /\ a = e.ip
        OBVIOUS
      <4>2. HostLine(e) \in H /\ HostLine(e).name = n /\ HostLine(e).ip = a
        BY <2>2, <3>1, <4>1
      <4> QED
        BY <4>2
    <3> QED
      BY <3>3, <3>4
  <2> QED
    BY <2>1, <2>3 DEF ResolveFile, ResolveDevice, AnswerKai, Lookup
<1> QED
  BY <1>1, Inductive, PTL

\* /etc/hosts has one managed block at most and every name of the agent's in
\* it, whatever crashes, edits and lost end markers do.
THEOREM BlockStaysOne == Spec => []OneBlock
<1>1. IInv => OneBlock
  <2> SUFFICES ASSUME IInv PROVE OneBlock
    OBVIOUS
  <2>1. WellFormed(file)
    BY DEF IInv, FileInv
  <2>2. \A i, j \in DOMAIN file : file[i] = Begin /\ file[j] = Begin => i = j
    BY <2>1 DEF WellFormed
  <2>3. ASSUME NEW i \in DOMAIN file, file[i].kind = "host"
        PROVE  \E j \in 1..(i - 1) : file[j] = Begin /\ End \notin {file[k] : k \in j..i}
    <3>1. PICK j \in 1..(i - 1) : file[j] = Begin /\ \A k \in j..i : file[k] # End
      BY <2>1, <2>3 DEF WellFormed
    <3> QED
      BY <3>1
  <2> QED
    BY <2>2, <2>3 DEF OneBlock
<1> QED
  BY <1>1, Inductive, PTL

\* Rewriting the block leaves the lines of others as they are, in their
\* order, if the file is still what was read and its block is whole.
THEOREM OthersLinesStay == Spec => ForeignLinesKept
<1>1. IInv /\ [Next]_vars
        => [HostsRename /\ read = file /\ (Contains(file, Begin) => Contains(file, End))
              => OnlyIn(file', ForeignLines) = OnlyIn(file, ForeignLines)]_vars
  <2> SUFFICES ASSUME IInv, HostsRename, read = file, Contains(file, Begin) => Contains(file, End)
               PROVE  OnlyIn(file', ForeignLines) = OnlyIn(file, ForeignLines)
    OBVIOUS
  <2>1. file \in Seq(Lines) /\ WellFormed(file) /\ got.hosts \in Seq(Entries)
    BY ListParts DEF IInv, TypeOK, FileInv
  <2>2. file' = Updated(file, got.hosts) \/ file' = file
    BY DEF HostsRename
  <2> QED
    BY <2>1, <2>2, UpdatedKeeps
<1> QED
  BY <1>1, Inductive, PTL DEF Spec, ForeignLinesKept

\* Three sequences of rows together.
LEMMA RowsTogether ==
  ASSUME NEW s \in Seq(Row), NEW t \in Seq(Row), NEW u \in Seq(Row)
  PROVE  (s \o t) \o u = s \o (t \o u)
BY ConcatAssociative

\* A new node comes behind the visible ones, or is not visible.
LEMMA VisibleNewcomer ==
  ASSUME NEW ns \in Seq(Row), NEW n \in Row
  PROVE  \E t \in Seq(Row) : Visible(Append(ns, n)) = Visible(ns) \o t
<1>1. Visible(ns) \in Seq(Row)
  BY VisibleRows
<1>2. \/ Visible(Append(ns, n)) = Append(Visible(ns), n)
      \/ Visible(Append(ns, n)) = Visible(ns)
  BY OnlyInAppend, Zenon DEF Visible
<1> DEFINE v == Visible(ns)
<1> HIDE DEF v
<1>3. Append(v, n) = v \o <<n>> /\ v = v \o <<>> /\ <<n>> \in Seq(Row) /\ <<>> \in Seq(Row)
  <2>1. v \in Seq(Row)
    BY <1>1 DEF v
  <2> QED
    BY <2>1, ConcatEmptySeq, AppendIsConcat
<1> QED
  BY <1>2, <1>3 DEF v

\* A new static peer renames nobody and a new node renames no node: labels
\* are given in the order of enrollment, static peers after the nodes.
THEOREM NewcomersHarmless == Spec => NewcomersRenameNoNode
<1> DEFINE Keeps ==
      /\ Len(statics') > Len(statics)
           => ToSet(Current) \subseteq ToSet(BuildHosts(Visible(nodes'), statics'))
      /\ Len(nodes') > Len(nodes)
           => ToSet(BuildHosts(Visible(nodes), <<>>))
                \subseteq ToSet(BuildHosts(Visible(nodes'), statics'))
<1>1. ASSUME IInv, Next PROVE Keeps
  <2>1. /\ nodes \in Seq(Row) /\ statics \in Seq(Row) /\ Visible(nodes) \in Seq(Row)
        /\ Len(nodes) \in Nat /\ Len(statics) \in Nat
    BY <1>1, VisibleRows DEF IInv, TypeOK
  <2> DEFINE v == Visible(nodes)
  <2>2. ASSUME NEW name \in RawNames, CreateStatic(name)
        PROVE  Keeps
    <3>1. PICK a \in Allocate :
            /\ statics' = Append(statics, [name |-> name, ip |-> a, approved |-> TRUE])
            /\ nodes' = nodes
      BY <2>2 DEF CreateStatic
    <3> DEFINE p == [name |-> name, ip |-> a, approved |-> TRUE]
               t == <<p>>
    <3>2. p \in Row
      BY <3>1 DEF Row, Allocate
    <3> HIDE DEF v, p
    <3>3. v \in Seq(Row) /\ t \in Seq(Row)
      BY <2>1, <3>2 DEF v
    <3> HIDE DEF t
    <3>4. v \o statics \in Seq(Row) /\ v \o (statics \o t) = (v \o statics) \o t
      <4>1. v \o statics \in Seq(Row)
        BY <2>1, <3>3
      <4>3. (v \o statics) \o t = v \o (statics \o t)
        <5>1. v \in Seq(Row) /\ statics \in Seq(Row) /\ t \in Seq(Row)
          BY <2>1, <3>3
        <5> QED
          BY ONLY <5>1, RowsTogether
      <4> QED
        BY <4>1, <4>3
    <3>5. Append(statics, p) = statics \o t
      BY <2>1, <3>2, AppendIsConcat DEF t
    <3>6. ToSet(Named(v \o statics)) \subseteq ToSet(Named((v \o statics) \o t))
      <4> DEFINE s == v \o statics
      <4>1. s \in Seq(Row)
        BY <3>4
      <4> HIDE DEF s
      <4>2. ToSet(Named(s)) \subseteq ToSet(Named(s \o t))
        BY <3>3, <4>1, NamedPrefix
      <4> QED
        BY <4>2 DEF s
    <3>7. ToSet(Current) \subseteq ToSet(BuildHosts(Visible(nodes'), statics'))
      BY <3>1, <3>4, <3>5, <3>6 DEF Current, BuildHosts, v, p
    <3>8. ~(Len(nodes') > Len(nodes))
      <4>1. Len(nodes') = Len(nodes)
        BY <3>1, Zenon
      <4> QED
        BY <2>1, <4>1
    <3> QED
      BY <3>7, <3>8, Zenon
  <2>3. ASSUME NEW name \in RawNames, NEW b \in BOOLEAN, Enroll(name, b)
        PROVE  Keeps
    <3>1. PICK a \in Allocate :
            /\ nodes' = Append(nodes, [name |-> name, ip |-> a, approved |-> b])
            /\ statics' = statics
      BY <2>3 DEF Enroll
    <3> DEFINE n == [name |-> name, ip |-> a, approved |-> b]
    <3>2. n \in Row
      BY <3>1 DEF Row, Allocate
    <3> HIDE DEF n
    <3>3. PICK t \in Seq(Row) : Visible(Append(nodes, n)) = Visible(nodes) \o t
      BY <2>1, <3>2, VisibleNewcomer
    <3> HIDE DEF v
    <3>4. v \in Seq(Row) /\ t \o statics \in Seq(Row) /\ v \o <<>> = v
          /\ (v \o t) \o statics = v \o (t \o statics)
      <4>1. v \in Seq(Row)
        BY <2>1 DEF v
      <4>3. (v \o t) \o statics = v \o (t \o statics)
        BY <2>1, <4>1, RowsTogether
      <4>4. t \o statics \in Seq(Row)
        BY <2>1
      <4>5. v \o <<>> = v
        BY <4>1, ConcatEmptySeq
      <4> QED
        BY <4>1, <4>3, <4>4, <4>5
    <3>5. ToSet(Named(v)) \subseteq ToSet(Named(v \o (t \o statics)))
      <4> DEFINE u == t \o statics
      <4>1. u \in Seq(Row)
        BY <3>4
      <4> HIDE DEF u
      <4>2. ToSet(Named(v)) \subseteq ToSet(Named(v \o u))
        BY <3>4, <4>1, NamedPrefix
      <4> QED
        BY <4>2 DEF u
    <3>6. ToSet(BuildHosts(Visible(nodes), <<>>))
            \subseteq ToSet(BuildHosts(Visible(nodes'), statics'))
      BY <3>1, <3>3, <3>4, <3>5 DEF BuildHosts, v, n
    <3> QED
      BY <2>1, <3>1, <3>6
  <2>4. ASSUME NEW i \in DOMAIN nodes, Approve(i)
        PROVE  Keeps
    <3>1. Len(nodes') = Len(nodes) /\ statics' = statics
      BY <2>1, <2>4 DEF Approve
    <3> QED
      BY <2>1, <3>1
  <2>5. ASSUME NEW i \in DOMAIN nodes, DeleteNode(i)
        PROVE  Keeps
    <3>1. Len(nodes') = Len(nodes) - 1 /\ statics' = statics
      BY <2>1, <2>5, Removed DEF DeleteNode
    <3> QED
      BY <2>1, <3>1
  <2>6. ASSUME NEW i \in DOMAIN statics, DeleteStatic(i)
        PROVE  Keeps
    <3>1. Len(statics') = Len(statics) - 1 /\ nodes' = nodes
      BY <2>1, <2>6, Removed DEF DeleteStatic
    <3> QED
      BY <2>1, <3>1
  <2>7. CASE UNCHANGED <<nodes, statics>>
    BY <2>1, <2>7
  <2>8. CASE Bump \/ Poll \/ ReadNodes \/ ReadStatics \/ Adopt \/ HostsRead \/ HostsRename
    BY <2>7, <2>8 DEF Bump, Poll, ReadNodes, ReadStatics, Adopt, HostsRead, HostsRename, storeVars
  <2>9. CASE SetHosts \/ Start \/ PollError \/ Crash \/ Edit \/ EditEnd
    BY <2>7, <2>9 DEF SetHosts, Start, PollError, Crash, Edit, EditEnd, storeVars
  <2> HIDE DEF Keeps
  <2>10. CASE AdminStep
    BY <2>2, <2>3, <2>4, <2>5, <2>6, <2>10 DEF AdminStep
  <2> QED
    BY <1>1, <2>8, <2>9, <2>10 DEF Next, AgentStep
<1>2. IInv /\ [Next]_vars
        => [\A ns \in {nodes'}, ps \in {statics'} :
              LET after == ToSet(BuildHosts(Visible(ns), ps)) IN
                /\ Len(ps) > Len(statics) => ToSet(Current) \subseteq after
                /\ Len(ns) > Len(nodes)
                     => ToSet(BuildHosts(Visible(nodes), <<>>)) \subseteq after]_vars
  BY <1>1
<1> QED
  BY <1>2, Inductive, PTL DEF Spec, NewcomersRenameNoNode
=============================================================================
