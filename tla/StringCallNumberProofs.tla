----------------------- MODULE StringCallNumberProofs -----------------------
(***************************************************************************)
(* What the conversions of telephone numbers compute, for texts of any     *)
(* length, any display rules and any prefixes: the number shown is the     *)
(* number dialled, and a key of the address book cache is its own key.     *)
(*                                                                         *)
(* callNumber and _match read a text one character at a time, so the       *)
(* proofs are inductions over texts.  The library's induction theorems     *)
(* take an operator; the ones below take a set of naturals or of           *)
(* sequences, and rest on the library's theorem that < is well-founded on  *)
(* the naturals.                                                           *)
(***************************************************************************)
EXTENDS StringCallNumber, SequenceTheorems, WellFoundedInduction, TLAPS

-----------------------------------------------------------------------------
\* Induction.

\* A set of natural numbers with an element has a least one.
LEMMA LeastNat ==
    ASSUME NEW S, S \subseteq Nat, S # {}
    PROVE  \E x \in S : \A y \in S : x <= y
<1>1. PICK x \in S : \A y \in S : ~ (<<y, x>> \in OpToRel(<, Nat))
    BY NatLessThanWellFounded, WFMin
<1>2. ASSUME NEW y \in S PROVE x <= y
    <2>1. x \in Nat /\ y \in Nat
        OBVIOUS
    <2>2. <<y, x>> \notin OpToRel(<, Nat)
        BY <1>1
    <2> QED BY <2>1, <2>2 DEF OpToRel
<1> QED BY <1>2

\* A set with 0 that has the successor of each of its numbers has every number.
LEMMA Induction ==
    ASSUME NEW S, 0 \in S, \A n \in Nat : n \in S => n + 1 \in S
    PROVE  Nat \subseteq S
<1> SUFFICES ASSUME Nat \ S # {} PROVE FALSE
    OBVIOUS
<1>1. PICK n \in Nat \ S : \A m \in Nat \ S : n <= m
    BY LeastNat
<1>2. n - 1 \in Nat
    BY <1>1
<1>3. n - 1 \in S
    BY <1>1, <1>2
<1>4. (n - 1) + 1 \in S
    BY <1>2, <1>3
<1> QED BY <1>1, <1>4

\* A set with the empty sequence that has, with a sequence, each one that is longer by
\* an element, has every sequence.
LEMMA SeqInduction ==
    ASSUME NEW T, NEW S, <<>> \in S,
           \A s \in Seq(T) : \A x \in T : s \in S => Append(s, x) \in S
    PROVE  Seq(T) \subseteq S
<1> DEFINE N == {n \in Nat : \A s \in Seq(T) : Len(s) = n => s \in S}
<1>1. 0 \in N
    <2>1. ASSUME NEW s \in Seq(T), Len(s) = 0 PROVE s \in S
        BY <2>1, EmptySeq
    <2> QED BY <2>1
<1>2. ASSUME NEW n \in Nat, n \in N PROVE n + 1 \in N
    <2>1. ASSUME NEW s \in Seq(T), Len(s) = n + 1 PROVE s \in S
        <3>1. s # <<>>
            BY <2>1
        <3>2. PICK r \in Seq(T), x \in T : s = Append(r, x)
            BY <3>1, SequenceEmptyOrAppend
        <3>3. Len(r) = n
            BY <2>1, <3>2
        <3> QED BY <1>2, <3>2, <3>3
    <2> QED BY <2>1
<1> HIDE DEF N
<1>3. Nat \subseteq N
    BY <1>1, <1>2, Induction
<1>4. ASSUME NEW s \in Seq(T) PROVE s \in S
    <2>1. Len(s) \in N
        BY <1>3
    <2> QED BY <2>1 DEF N
<1> QED BY <1>4

-----------------------------------------------------------------------------
\* Kept: the characters that stay, one step for each character of the text.

KeptStep(s, C, f, i) ==
    IF i = 0 THEN <<>> ELSE IF s[i] \in C THEN Append(f[i - 1], s[i]) ELSE f[i - 1]

\* There is a function that does these steps.
LEMMA KeptFunction ==
    ASSUME NEW s, NEW C, NEW n \in Nat
    PROVE  \E f : f = [i \in 0..n |-> KeptStep(s, C, f, i)]
<1> DEFINE N == {m \in Nat : \E f : f = [i \in 0..m |-> KeptStep(s, C, f, i)]}
<1>1. 0 \in N
    <2> DEFINE f == [i \in 0..0 |-> <<>>]
    <2>1. f = [i \in 0..0 |-> KeptStep(s, C, f, i)]
        BY DEF KeptStep
    <2> HIDE DEF f
    <2> QED BY <2>1
<1>2. ASSUME NEW m \in Nat, m \in N PROVE m + 1 \in N
    <2>1. PICK f : f = [i \in 0..m |-> KeptStep(s, C, f, i)]
        BY <1>2
    <2> DEFINE g == [i \in 0..(m + 1) |-> IF i = m + 1 THEN KeptStep(s, C, f, m + 1) ELSE f[i]]
    <2>2. \A i \in 0..m : g[i] = f[i]
        OBVIOUS
    <2>3. ASSUME NEW i \in 0..(m + 1) PROVE g[i] = KeptStep(s, C, g, i)
        <3>1. g[i] = KeptStep(s, C, f, i)
            <4>1. CASE i = m + 1
                BY <4>1
            <4>2. CASE i # m + 1
                <5>1. i \in 0..m
                    BY <4>2
                <5>2. f[i] = KeptStep(s, C, f, i)
                    BY <2>1, <5>1
                <5> QED BY <2>2, <5>1, <5>2
            <4> QED BY <4>1, <4>2
        <3>2. i # 0 => i - 1 \in 0..m
            OBVIOUS
        <3>3. i # 0 => g[i - 1] = f[i - 1]
            BY <2>2, <3>2
        <3> HIDE DEF g
        <3> QED BY <3>1, <3>3 DEF KeptStep
    <2>4. g = [i \in 0..(m + 1) |-> KeptStep(s, C, g, i)]
        BY <2>3
    <2> HIDE DEF g
    <2> QED BY <2>4
<1> HIDE DEF N
<1>3. Nat \subseteq N
    BY <1>1, <1>2, Induction
<1>4. n \in N
    BY <1>3
<1> QED BY <1>4 DEF N

\* What keeps the characters of s among C is the last value of such a function.
LEMMA KeptByFunction ==
    ASSUME NEW T, NEW s \in Seq(T), NEW C
    PROVE  \E f : /\ f = [i \in 0..Len(s) |-> KeptStep(s, C, f, i)]
                  /\ Kept(s, C) = f[Len(s)]
<1> DEFINE F == CHOOSE f : f = [i \in 0..Len(s) |-> KeptStep(s, C, f, i)]
<1>1. F = [i \in 0..Len(s) |-> KeptStep(s, C, F, i)]
    <2>1. Len(s) \in Nat
        OBVIOUS
    <2> QED BY <2>1, KeptFunction
<1>2. Kept(s, C) = F[Len(s)]
    BY DEF Kept, KeptStep
<1> QED BY <1>1, <1>2

\* Two of them agree as far as their texts do.
LEMMA KeptAgree ==
    ASSUME NEW s, NEW t, NEW C, NEW k \in Nat, NEW l \in Nat, NEW n \in Nat, n <= k, n <= l,
           NEW f, f = [i \in 0..k |-> KeptStep(s, C, f, i)],
           NEW g, g = [i \in 0..l |-> KeptStep(t, C, g, i)],
           \A i \in 1..n : s[i] = t[i]
    PROVE  f[n] = g[n]
<1> DEFINE N == {m \in Nat : m <= n => f[m] = g[m]}
<1>1. 0 \in N
    <2>1. 0 \in 0..k /\ 0 \in 0..l
        OBVIOUS
    <2>2. f[0] = KeptStep(s, C, f, 0)
        BY <2>1
    <2>3. g[0] = KeptStep(t, C, g, 0)
        BY <2>1
    <2> QED BY <2>2, <2>3 DEF KeptStep
<1>2. ASSUME NEW m \in Nat, m \in N PROVE m + 1 \in N
    <2>1. SUFFICES ASSUME m + 1 <= n PROVE f[m + 1] = g[m + 1]
        OBVIOUS
    <2>2. f[m] = g[m]
        BY <1>2, <2>1
    <2>3. m + 1 \in 0..k /\ m + 1 \in 0..l /\ m + 1 \in 1..n /\ (m + 1) - 1 = m /\ m + 1 # 0
        BY <2>1
    <2>4. f[m + 1] = KeptStep(s, C, f, m + 1)
        BY <2>3
    <2>5. g[m + 1] = KeptStep(t, C, g, m + 1)
        BY <2>3
    <2>6. s[m + 1] = t[m + 1]
        BY <2>3
    <2> QED BY <2>2, <2>3, <2>4, <2>5, <2>6 DEF KeptStep
<1> HIDE DEF N
<1>3. Nat \subseteq N
    BY <1>1, <1>2, Induction
<1>4. n \in N
    BY <1>3
<1> QED BY <1>4 DEF N

\* Nothing is kept of nothing.
LEMMA KeptEmpty ==
    ASSUME NEW C
    PROVE  Kept(<<>>, C) = <<>>
<1>1. PICK f : /\ f = [i \in 0..Len(<<>>) |-> KeptStep(<<>>, C, f, i)]
               /\ Kept(<<>>, C) = f[Len(<<>>)]
    <2>1. <<>> \in Seq({})
        BY EmptySeq
    <2> QED BY <2>1, KeptByFunction
<1>2. Len(<<>>) = 0
    BY EmptySeq
<1>3. f[0] = KeptStep(<<>>, C, f, 0)
    BY <1>1, <1>2
<1> QED BY <1>1, <1>2, <1>3 DEF KeptStep

\* One character more: it is kept at the end, or left out.
LEMMA KeptAppend ==
    ASSUME NEW T, NEW s \in Seq(T), NEW x \in T, NEW C
    PROVE  Kept(Append(s, x), C) = IF x \in C THEN Append(Kept(s, C), x) ELSE Kept(s, C)
<1> DEFINE t == Append(s, x)
<1>1. t \in Seq(T) /\ Len(t) = Len(s) + 1 /\ Len(s) \in Nat
    BY AppendProperties
<1>2. t[Len(s) + 1] = x /\ \A i \in 1..Len(s) : t[i] = s[i]
    BY AppendProperties
<1> HIDE DEF t
<1>3. PICK f : f = [i \in 0..Len(s) |-> KeptStep(s, C, f, i)] /\ Kept(s, C) = f[Len(s)]
    BY KeptByFunction
<1>4. PICK g : g = [i \in 0..Len(t) |-> KeptStep(t, C, g, i)] /\ Kept(t, C) = g[Len(t)]
    BY <1>1, KeptByFunction
<1>5. f[Len(s)] = g[Len(s)]
    <2>1. Len(s) \in Nat /\ Len(t) \in Nat /\ Len(s) <= Len(t) /\ Len(s) <= Len(s)
        BY <1>1
    <2> QED BY <1>2, <1>3, <1>4, <2>1, KeptAgree
<1>6. g[Len(t)] = KeptStep(t, C, g, Len(t))
    BY <1>1, <1>4
<1>7. (Len(s) + 1) - 1 = Len(s) /\ Len(s) + 1 # 0
    BY <1>1
<1>8. Kept(t, C) = IF x \in C THEN Append(Kept(s, C), x) ELSE Kept(s, C)
    BY <1>1, <1>2, <1>3, <1>4, <1>5, <1>6, <1>7 DEF KeptStep
<1> QED BY <1>8 DEF t

\* What is kept is a text of those characters, not longer than the whole.
LEMMA KeptType ==
    ASSUME NEW T, NEW s \in Seq(T), NEW C
    PROVE  Kept(s, C) \in Seq(T \cap C) /\ Len(Kept(s, C)) <= Len(s)
<1> DEFINE S == {r \in Seq(T) : Kept(r, C) \in Seq(T \cap C) /\ Len(Kept(r, C)) <= Len(r)}
<1>1. <<>> \in S
    <2>1. <<>> \in Seq(T) /\ <<>> \in Seq(T \cap C) /\ Len(<<>>) = 0
        BY EmptySeq
    <2>2. Len(<<>>) <= Len(<<>>)
        BY <2>1
    <2> QED BY <2>1, <2>2, KeptEmpty
<1>2. ASSUME NEW r \in Seq(T), NEW x \in T, r \in S PROVE Append(r, x) \in S
    <2>1. Append(r, x) \in Seq(T) /\ Len(Append(r, x)) = Len(r) + 1
        BY AppendProperties
    <2>2. Kept(Append(r, x), C) = IF x \in C THEN Append(Kept(r, C), x) ELSE Kept(r, C)
        BY KeptAppend
    <2>3. Kept(r, C) \in Seq(T \cap C) /\ Len(Kept(r, C)) <= Len(r)
        BY <1>2
    <2>4. CASE x \in C
        <3>1. Append(Kept(r, C), x) \in Seq(T \cap C)
              /\ Len(Append(Kept(r, C), x)) = Len(Kept(r, C)) + 1
            BY <2>3, <2>4, AppendProperties
        <3>2. Len(Kept(r, C)) \in Nat /\ Len(r) \in Nat
            BY <2>3, LenProperties
        <3>3. Kept(Append(r, x), C) = Append(Kept(r, C), x)
            BY <2>2, <2>4, Zenon
        <3>4. Len(Append(Kept(r, C), x)) <= Len(Append(r, x))
            <4> HIDE DEF S
            <4> QED BY <2>1, <2>3, <3>1, <3>2
        <3> QED BY <2>1, <3>1, <3>3, <3>4, Zenon
    <2>5. CASE x \notin C
        <3>1. Len(Kept(r, C)) \in Nat /\ Len(r) \in Nat
            BY <2>3, LenProperties
        <3>2. Kept(Append(r, x), C) = Kept(r, C)
            BY <2>2, <2>5, Zenon
        <3>3. Len(Kept(r, C)) <= Len(Append(r, x))
            <4> HIDE DEF S
            <4> QED BY <2>1, <2>3, <3>1
        <3> QED BY <2>1, <2>3, <3>2, <3>3, Zenon
    <2> QED BY <2>4, <2>5
<1> HIDE DEF S
<1>3. Seq(T) \subseteq S
    BY <1>1, <1>2, SeqInduction
<1> QED BY <1>3 DEF S

\* A text of those characters is kept as it is.
LEMMA KeptAll ==
    ASSUME NEW C, NEW s \in Seq(C)
    PROVE  Kept(s, C) = s
<1> DEFINE S == {r \in Seq(C) : Kept(r, C) = r}
<1>1. <<>> \in S
    BY KeptEmpty, EmptySeq
<1>2. ASSUME NEW r \in Seq(C), NEW x \in C, r \in S PROVE Append(r, x) \in S
    BY <1>2, KeptAppend, AppendProperties
<1> HIDE DEF S
<1>3. Seq(C) \subseteq S
    BY <1>1, <1>2, SeqInduction
<1> QED BY <1>3 DEF S

\* The parts of a text are kept each on its own.
LEMMA KeptConcat ==
    ASSUME NEW T, NEW s \in Seq(T), NEW t \in Seq(T), NEW C
    PROVE  Kept(s \o t, C) = Kept(s, C) \o Kept(t, C)
<1> DEFINE S == {r \in Seq(T) : Kept(s \o r, C) = Kept(s, C) \o Kept(r, C)}
<1>1. <<>> \in S
    <2>1. Kept(s, C) \in Seq(T \cap C)
        BY KeptType
    <2>2. s \o <<>> = s /\ Kept(s, C) \o <<>> = Kept(s, C)
        BY <2>1, ConcatEmptySeq
    <2> QED BY <2>2, KeptEmpty, EmptySeq
<1>2. ASSUME NEW r \in Seq(T), NEW x \in T, r \in S PROVE Append(r, x) \in S
    <2>1. s \o Append(r, x) = Append(s \o r, x) /\ s \o r \in Seq(T)
        BY ConcatProperties
    <2>2. Kept(s, C) \in Seq(T) /\ Kept(r, C) \in Seq(T)
        <3>1. Kept(s, C) \in Seq(T \cap C) /\ Kept(r, C) \in Seq(T \cap C)
            BY KeptType
        <3> QED BY <3>1, SeqMonotonic, T \cap C \subseteq T
    <2>3. Kept(s, C) \o Append(Kept(r, C), x) = Append(Kept(s, C) \o Kept(r, C), x)
        BY <2>2
    <2>4. Kept(Append(s \o r, x), C) = IF x \in C THEN Append(Kept(s \o r, C), x) ELSE Kept(s \o r, C)
        BY <2>1, KeptAppend
    <2>5. Kept(Append(r, x), C) = IF x \in C THEN Append(Kept(r, C), x) ELSE Kept(r, C)
        BY KeptAppend
    <2>6. Append(r, x) \in Seq(T)
        BY AppendProperties
    <2> QED BY <1>2, <2>1, <2>3, <2>4, <2>5, <2>6
<1> HIDE DEF S
<1>3. Seq(T) \subseteq S
    BY <1>1, <1>2, SeqInduction
<1> QED BY <1>3 DEF S

-----------------------------------------------------------------------------
\* A rule and the number it lays out.

\* What a match is, over an alphabet T: what is left to match is a number.
Matches(T) == [ok : BOOLEAN, out : Seq(T), rest : Seq(Dialled)]

\* A text that starts with p is p and what follows it.
LEMMA PrefixAndRest ==
    ASSUME NEW D, NEW T, NEW r \in Seq(D), NEW p \in Seq(T), IsPrefix(p, r)
    PROVE  /\ p \in Seq(D) /\ SubSeq(r, Len(p) + 1, Len(r)) \in Seq(D)
           /\ p \o SubSeq(r, Len(p) + 1, Len(r)) = r
<1>1. Len(p) \in Nat /\ Len(r) \in Nat /\ Len(p) <= Len(r)
    BY DEF IsPrefix
<1>2. SubSeq(p, 1, Len(p)) = p
    BY SubSeqFull
<1>3. p = SubSeq(r, 1, Len(p))
    BY <1>2 DEF IsPrefix
<1>4. SubSeq(r, 1, Len(p)) \in Seq(D)
    BY <1>1, SubSeqProperties
<1>5. SubSeq(r, Len(p) + 1, Len(r)) \in Seq(D)
    BY <1>1, SubSeqProperties
<1>6. SubSeq(r, 1, Len(p)) \o SubSeq(r, Len(p) + 1, Len(r)) = SubSeq(r, 1, Len(r))
    <2>1. 1 \in 1..Len(r) + 1 /\ Len(p) \in 1 - 1..Len(r) /\ Len(r) \in Len(p)..Len(r)
        BY <1>1
    <2> QED BY <2>1, ConcatAdjacentSubSeq, Zenon
<1>7. SubSeq(r, 1, Len(r)) = r
    BY SubSeqFull
<1> QED BY <1>3, <1>4, <1>5, <1>6, <1>7

Taken(m, p) == [ok |-> m.ok, out |-> m.out \o p, rest |-> SubSeq(m.rest, Len(p) + 1, Len(m.rest))]

\* A part of the number that is taken: the number is still there, the layout put aside.
LEMMA TakenKeeps ==
    ASSUME NEW T, Dialled \subseteq T, NEW m \in Matches(T), NEW p \in Seq(T), IsPrefix(p, m.rest)
    PROVE  /\ Taken(m, p) \in Matches(T)
           /\ Taken(m, p).ok = m.ok
           /\ Kept(Taken(m, p).out, Dialled) \o Taken(m, p).rest = Kept(m.out, Dialled) \o m.rest
           /\ Len(Taken(m, p).out) = Len(m.out) + Len(p)
<1> DEFINE after == SubSeq(m.rest, Len(p) + 1, Len(m.rest))
<1>1. m.ok \in BOOLEAN /\ m.out \in Seq(T) /\ m.rest \in Seq(Dialled)
    BY DEF Matches
<1>2. p \in Seq(Dialled) /\ after \in Seq(Dialled) /\ p \o after = m.rest
    BY <1>1, PrefixAndRest
<1> HIDE DEF after
<1>3. m.out \o p \in Seq(T) /\ Len(m.out \o p) = Len(m.out) + Len(p)
    BY <1>1, ConcatProperties
<1>4. Kept(m.out \o p, Dialled) = Kept(m.out, Dialled) \o p
    <2>1. Kept(m.out \o p, Dialled) = Kept(m.out, Dialled) \o Kept(p, Dialled)
        <3>1. \A s, r \in Seq(T) : Kept(s \o r, Dialled) = Kept(s, Dialled) \o Kept(r, Dialled)
            BY KeptConcat
        <3> QED BY <1>1, <3>1
    <2>2. Kept(p, Dialled) = p
        BY <1>2, KeptAll
    <2> QED BY <2>1, <2>2
<1>5. Kept(m.out, Dialled) \in Seq(Dialled)
    <2>1. Kept(m.out, Dialled) \in Seq(T \cap Dialled)
        BY <1>1, KeptType
    <2> QED BY <2>1, SeqMonotonic, T \cap Dialled \subseteq Dialled
<1>6. (Kept(m.out, Dialled) \o p) \o after = Kept(m.out, Dialled) \o (p \o after)
    <2>1. \A q, r, s \in Seq(Dialled) : (q \o r) \o s = q \o (r \o s)
        BY ConcatAssociative
    <2> QED BY <1>2, <1>5, <2>1
<1>7. Taken(m, p) = [ok |-> m.ok, out |-> m.out \o p, rest |-> after]
    BY DEF Taken, after
<1>8. Taken(m, p) \in Matches(T)
    BY <1>1, <1>2, <1>3, <1>7 DEF Matches
<1>9. Taken(m, p).ok = m.ok /\ Taken(m, p).out = m.out \o p /\ Taken(m, p).rest = after
    BY <1>7
<1> HIDE DEF Taken
<1> QED BY <1>2, <1>3, <1>4, <1>6, <1>8, <1>9, Zenon

\* One character of a rule keeps the number: what was taken, less the layout, and what is left.
LEMMA MatchCharKeeps ==
    ASSUME NEW T, Dialled \subseteq T, NEW conv, conv.ip \in Seq(T), NEW t \in T \cup {"I"}, t # "*",
           NEW l \in Nat, 1 <= l, Len(conv.ip) <= l, NEW m \in Matches(T)
    PROVE  LET n == MatchChar(conv, m, t)
           IN  /\ n \in Matches(T)
               /\ n.ok => /\ m.ok
                          /\ Kept(n.out, Dialled) \o n.rest = Kept(m.out, Dialled) \o m.rest
                          /\ Len(n.out) <= Len(m.out) + l
<1> DEFINE taken(p) == IF IsPrefix(p, m.rest) THEN Taken(m, p) ELSE [m EXCEPT !.ok = FALSE]
<1> DEFINE n == MatchChar(conv, m, t)
<1> DEFINE Good(x) == /\ x \in Matches(T)
                      /\ x.ok => /\ m.ok
                                 /\ Kept(x.out, Dialled) \o x.rest = Kept(m.out, Dialled) \o m.rest
                                 /\ Len(x.out) <= Len(m.out) + l
<1> SUFFICES Good(n)
    OBVIOUS
<1>1. m.ok \in BOOLEAN /\ m.out \in Seq(T) /\ m.rest \in Seq(Dialled)
    BY DEF Matches
<1>2. Good([m EXCEPT !.ok = FALSE])
    BY DEF Matches
<1>3. ASSUME NEW p \in Seq(T), Len(p) <= l PROVE Good(taken(p))
    <2>1. CASE IsPrefix(p, m.rest)
        <3>1. taken(p) = Taken(m, p)
            BY <2>1
        <3>2. Len(m.out) \in Nat /\ Len(p) \in Nat
            BY <1>1
        <3> HIDE DEF taken
        <3>3. /\ Taken(m, p) \in Matches(T) /\ Taken(m, p).ok = m.ok
              /\ Kept(Taken(m, p).out, Dialled) \o Taken(m, p).rest = Kept(m.out, Dialled) \o m.rest
              /\ Len(Taken(m, p).out) = Len(m.out) + Len(p)
            BY <2>1, TakenKeeps
        <3> QED BY <1>3, <3>1, <3>2, <3>3
    <2>2. CASE ~IsPrefix(p, m.rest)
        BY <1>2, <2>2
    <2> QED BY <2>1, <2>2
<1>4. /\ t = "I" => n = taken(conv.ip)
      /\ t = "#" => n = IF m.rest # <<>> /\ m.rest[1] \in Digits THEN taken(<<m.rest[1]>>)
                         ELSE [m EXCEPT !.ok = FALSE]
      /\ t \in Digits \cup {"+"} => n = taken(<<t>>)
      /\ t \notin {"I", "#", "+"} \cup Digits => n = [m EXCEPT !.out = Append(@, t)]
    <2>1. CASE t = "I"
        BY <2>1 DEF MatchChar, Taken, Digits
    <2>2. CASE t = "#"
        BY <2>2 DEF MatchChar, Taken, Digits
    <2>3. CASE t \in Digits \cup {"+"}
        <3>1. t # "I" /\ t # "#"
            BY <2>3 DEF Digits
        <3> QED BY <2>3, <3>1 DEF MatchChar, Taken
    <2>4. CASE t \notin {"I", "#", "+"} \cup Digits
        BY <2>4 DEF MatchChar, Taken
    <2> QED BY <2>1, <2>2, <2>3, <2>4
<1> HIDE DEF taken, Good, n
<1>5. CASE t = "I"
    <2>1. n = taken(conv.ip)
        BY <1>4, <1>5
    <2> QED BY <1>3, <2>1
<1>6. CASE t = "#"
    <2>1. CASE m.rest # <<>> /\ m.rest[1] \in Digits
        <3>1. n = taken(<<m.rest[1]>>)
            BY <1>4, <1>6, <2>1
        <3>2. m.rest[1] \in T
            BY <2>1 DEF Dialled
        <3>3. <<m.rest[1]>> \in Seq(T) /\ Len(<<m.rest[1]>>) <= l
            BY <3>2
        <3> QED BY <1>3, <3>1, <3>3
    <2>2. CASE ~(m.rest # <<>> /\ m.rest[1] \in Digits)
        <3>1. n = [m EXCEPT !.ok = FALSE]
            BY <1>4, <1>6, <2>2
        <3> QED BY <1>2, <3>1
    <2> QED BY <2>1, <2>2
<1>7. CASE t \in Digits \cup {"+"}
    <2>1. t # "I" /\ t # "#"
        BY <1>7 DEF Digits
    <2>2. n = taken(<<t>>)
        BY <1>4, <1>7, <2>1
    <2>3. <<t>> \in Seq(T) /\ Len(<<t>>) <= l
        BY <2>1
    <2> QED BY <1>3, <2>2, <2>3
<1>8. CASE t \notin {"I", "#", "+"} \cup Digits
    <2>1. n = [m EXCEPT !.out = Append(@, t)]
        BY <1>4, <1>8
    <2>2. t \notin Dialled
        BY <1>8 DEF Dialled
    <2>3. Append(m.out, t) \in Seq(T) /\ Len(Append(m.out, t)) = Len(m.out) + 1 /\ Len(m.out) \in Nat
        <3>1. t \in T
            BY <1>8
        <3> QED BY <1>1, <3>1, AppendProperties
    <2>4. Kept(Append(m.out, t), Dialled) = Kept(m.out, Dialled)
        <3>1. t \in T
            BY <1>8
        <3> QED BY <1>1, <2>2, <3>1, KeptAppend
    <2>5. n \in Matches(T) /\ n.ok = m.ok /\ n.out = Append(m.out, t) /\ n.rest = m.rest
        BY <2>1, <2>3 DEF Matches
    <2>6. Len(n.out) <= Len(m.out) + l
        BY <2>3, <2>5
    <2> QED BY <2>4, <2>5, <2>6, Zenon DEF Good
<1> QED BY <1>5, <1>6, <1>7, <1>8

\* MatchRule: one step for each character of the rule.
RuleStep(conv, num, template, m, i) ==
    IF i = 0 THEN [ok |-> TRUE, rest |-> num, out |-> <<>>]
    ELSE MatchChar(conv, m[i - 1], template[i])

\* There is a function that does these steps.
LEMMA RuleFunction ==
    ASSUME NEW conv, NEW num, NEW template, NEW n \in Nat
    PROVE  \E f : f = [i \in 0..n |-> RuleStep(conv, num, template, f, i)]
<1> DEFINE step(f, i) == RuleStep(conv, num, template, f, i)
<1> DEFINE N == {m \in Nat : \E f : f = [i \in 0..m |-> step(f, i)]}
<1>1. 0 \in N
    <2> DEFINE f == [i \in 0..0 |-> [ok |-> TRUE, rest |-> num, out |-> <<>>]]
    <2>1. f = [i \in 0..0 |-> step(f, i)]
        BY DEF RuleStep
    <2> HIDE DEF f
    <2> QED BY <2>1
<1>2. ASSUME NEW m \in Nat, m \in N PROVE m + 1 \in N
    <2>1. PICK f : f = [i \in 0..m |-> step(f, i)]
        BY <1>2
    <2> DEFINE g == [i \in 0..(m + 1) |-> IF i = m + 1 THEN step(f, m + 1) ELSE f[i]]
    <2>2. \A i \in 0..m : g[i] = f[i]
        OBVIOUS
    <2>3. ASSUME NEW i \in 0..(m + 1) PROVE g[i] = step(g, i)
        <3>1. g[i] = step(f, i)
            <4>1. CASE i = m + 1
                BY <4>1
            <4>2. CASE i # m + 1
                <5>1. i \in 0..m
                    BY <4>2
                <5>2. f[i] = step(f, i)
                    BY <2>1, <5>1
                <5> QED BY <2>2, <5>1, <5>2
            <4> QED BY <4>1, <4>2
        <3>2. i # 0 => i - 1 \in 0..m
            OBVIOUS
        <3>3. i # 0 => g[i - 1] = f[i - 1]
            BY <2>2, <3>2
        <3> HIDE DEF g
        <3> QED BY <3>1, <3>3 DEF RuleStep
    <2>4. g = [i \in 0..(m + 1) |-> step(g, i)]
        BY <2>3
    <2> HIDE DEF g
    <2> QED BY <2>4
<1> HIDE DEF N
<1>3. Nat \subseteq N
    BY <1>1, <1>2, Induction
<1>4. n \in N
    BY <1>3
<1> QED BY <1>4 DEF N

\* What a rule leaves of a number is the last value of such a function.
LEMMA MatchRuleByFunction ==
    ASSUME NEW conv, NEW num, NEW T, NEW template \in Seq(T)
    PROVE  \E f : /\ f = [i \in 0..Len(template) |-> RuleStep(conv, num, template, f, i)]
                  /\ MatchRule(conv, num, template) = f[Len(template)]
<1> DEFINE F == CHOOSE f : f = [i \in 0..Len(template) |-> RuleStep(conv, num, template, f, i)]
<1>1. F = [i \in 0..Len(template) |-> RuleStep(conv, num, template, F, i)]
    <2>1. Len(template) \in Nat
        OBVIOUS
    <2> QED BY <2>1, RuleFunction
<1>2. MatchRule(conv, num, template) = F[Len(template)]
    BY DEF MatchRule, RuleStep
<1> QED BY <1>1, <1>2

\* Every prefix of a rule keeps the number.
LEMMA MatchRuleKeeps ==
    ASSUME NEW T, Dialled \subseteq T, NEW conv, conv.ip \in Seq(T),
           NEW template \in Seq(T \cup {"I"}),
           \A i \in 1..Len(template) : template[i] # "*",
           NEW l \in Nat, 1 <= l, Len(conv.ip) <= l, NEW num \in Seq(Dialled)
    PROVE  LET m == MatchRule(conv, num, template)
           IN  /\ m \in Matches(T)
               /\ m.ok => /\ Kept(m.out, Dialled) \o m.rest = num
                          /\ Len(m.out) <= Len(template) * l
<1>1. PICK f : /\ f = [i \in 0..Len(template) |-> RuleStep(conv, num, template, f, i)]
               /\ MatchRule(conv, num, template) = f[Len(template)]
    <2>1. \A r \in Seq(T \cup {"I"}) : \E f : /\ f = [i \in 0..Len(r) |-> RuleStep(conv, num, r, f, i)]
                                         /\ MatchRule(conv, num, r) = f[Len(r)]
        BY MatchRuleByFunction
    <2> QED BY <2>1
<1>2. Len(template) \in Nat
    OBVIOUS
<1> DEFINE w(i) == i * l
<1>3. w(0) = 0 /\ \A i \in Nat : w(i) \in Nat /\ w(i + 1) = w(i) + l
    OBVIOUS
<1> DEFINE Good(m, i) == /\ m \in Matches(T)
                         /\ m.ok => Kept(m.out, Dialled) \o m.rest = num /\ Len(m.out) <= w(i)
<1> SUFFICES Good(f[Len(template)], Len(template))
    BY <1>1
<1> DEFINE N == {i \in Nat : i <= Len(template) => Good(f[i], i)}
<1> HIDE DEF w
<1>4. 0 \in N
    <2>1. f[0] = [ok |-> TRUE, rest |-> num, out |-> <<>>]
        <3>1. 0 \in 0..Len(template)
            BY <1>2
        <3> QED BY <1>1, <3>1 DEF RuleStep
    <2>2. <<>> \in Seq(T) /\ Len(<<>>) = 0 /\ Kept(<<>>, Dialled) = <<>> /\ <<>> \o num = num
        BY EmptySeq, KeptEmpty, ConcatEmptySeq
    <2> DEFINE m == [ok |-> TRUE, rest |-> num, out |-> <<>>]
    <2>3. m \in Matches(T)
        BY <2>2 DEF Matches
    <2>4. m.out = <<>> /\ m.rest = num
        OBVIOUS
    <2> HIDE DEF m
    <2>5. Good(m, 0)
        <3>1. Kept(m.out, Dialled) \o m.rest = num
            BY <2>2, <2>4, Zenon
        <3>2. Len(m.out) <= w(0)
            BY <1>3, <2>2, <2>4
        <3> QED BY <2>3, <3>1, <3>2, Zenon
    <2>6. Good(f[0], 0)
        BY <2>1, <2>5 DEF m
    <2> QED BY <2>6
<1>5. ASSUME NEW i \in Nat, i \in N PROVE i + 1 \in N
    <2> HIDE DEF Good
    <2> SUFFICES ASSUME i + 1 <= Len(template) PROVE Good(f[i + 1], i + 1)
        OBVIOUS
    <2>1. i <= Len(template)
        BY <1>2
    <2>2. Good(f[i], i)
        BY <1>5, <2>1
    <2>3. i + 1 \in 0..Len(template) /\ i + 1 \in 1..Len(template) /\ i + 1 # 0 /\ (i + 1) - 1 = i
        BY <1>2
    <2>4. f[i + 1] = MatchChar(conv, f[i], template[i + 1])
        BY <1>1, <2>3 DEF RuleStep
    <2>5. template[i + 1] \in T \cup {"I"} /\ template[i + 1] # "*"
        BY <2>3
    <2>6. ASSUME NEW m \in Matches(T), NEW t \in T \cup {"I"}, t # "*", Good(m, i)
          PROVE  Good(MatchChar(conv, m, t), i + 1)
        <3> DEFINE n == MatchChar(conv, m, t)
        <3>1. /\ n \in Matches(T)
              /\ n.ok => /\ m.ok
                         /\ Kept(n.out, Dialled) \o n.rest = Kept(m.out, Dialled) \o m.rest
                         /\ Len(n.out) <= Len(m.out) + l
            BY <2>6, MatchCharKeeps
        <3> HIDE DEF n
        <3>2. Len(m.out) \in Nat /\ Len(n.out) \in Nat
            BY <3>1 DEF Matches
        <3>3. w(i) \in Nat /\ w(i + 1) = w(i) + l
            BY <1>3
        <3>4. m.ok => Kept(m.out, Dialled) \o m.rest = num /\ Len(m.out) <= w(i)
            BY <2>6 DEF Good
        <3>5. n.ok => Len(n.out) <= w(i + 1)
            <4>1. SUFFICES ASSUME n.ok PROVE Len(n.out) <= w(i + 1)
                OBVIOUS
            <4>2. Len(n.out) <= Len(m.out) + l
                BY <3>1, <4>1, Zenon
            <4>3. Len(m.out) <= w(i)
                BY <3>1, <3>4, <4>1, Zenon
            <4>4. \A a, b, c, d \in Nat : a <= b + l /\ b <= c /\ d = c + l => a <= d
                OBVIOUS
            <4>5. w(i + 1) \in Nat
                BY <3>3
            <4> QED BY <3>2, <3>3, <4>2, <4>3, <4>4, <4>5, Zenon
        <3>6. Good(n, i + 1)
            BY <3>1, <3>4, <3>5, Zenon DEF Good
        <3> QED BY <3>6 DEF n
    <2>7. f[i] \in Matches(T)
        BY <2>2 DEF Good
    <2> QED BY <2>2, <2>4, <2>5, <2>6, <2>7
<1> HIDE DEF N
<1>6. Nat \subseteq N
    BY <1>4, <1>5, Induction
<1>7. Len(template) \in N
    BY <1>2, <1>6
<1> HIDE DEF Good
<1> QED BY <1>2, <1>7 DEF N

-----------------------------------------------------------------------------
\* The number that is dialled.

\* What callNumber makes of the characters it keeps.
PlusFirst(k) == IF k = <<>> THEN <<>> ELSE <<Head(k)>> \o Kept(Tail(k), Dialled \ {"+"})

\* After that a plus sign is only the first character, so doing it again changes nothing.
LEMMA PlusFirstOnce ==
    ASSUME NEW k \in Seq(Dialled)
    PROVE  /\ PlusFirst(k) \in Seq(Dialled) /\ Len(PlusFirst(k)) <= Len(k)
           /\ PlusFirst(PlusFirst(k)) = PlusFirst(k)
           /\ k # <<>> => /\ PlusFirst(k) # <<>>
                          /\ Tail(PlusFirst(k)) \in Seq(Dialled \ {"+"})
<1>1. CASE k = <<>>
    BY <1>1, EmptySeq DEF PlusFirst
<1>2. CASE k # <<>>
    <2> DEFINE rest == Kept(Tail(k), Dialled \ {"+"})
    <2>1. Head(k) \in Dialled /\ Tail(k) \in Seq(Dialled) /\ Len(Tail(k)) = Len(k) - 1
        BY <1>2, HeadTailProperties
    <2>2. rest \in Seq(Dialled \ {"+"}) /\ Len(rest) <= Len(Tail(k))
        <3>1. rest \in Seq(Dialled \cap (Dialled \ {"+"})) /\ Len(rest) <= Len(Tail(k))
            BY <2>1, KeptType
        <3>2. Dialled \cap (Dialled \ {"+"}) = Dialled \ {"+"}
            OBVIOUS
        <3> QED BY <3>1, <3>2
    <2> HIDE DEF rest
    <2>3. rest \in Seq(Dialled)
        BY <2>2, SeqMonotonic, Dialled \ {"+"} \subseteq Dialled
    <2> DEFINE p == <<Head(k)>> \o rest
    <2>4. PlusFirst(k) = p
        BY <1>2 DEF PlusFirst, rest
    <2>5. p \in Seq(Dialled) /\ Len(p) = 1 + Len(rest) /\ p # <<>>
        BY <2>1, <2>3
    <2>6. Head(p) = Head(k) /\ Tail(p) = rest
        BY <2>1, <2>3
    <2> HIDE DEF p
    <2>7. Kept(Tail(p), Dialled \ {"+"}) = rest
        BY <2>2, <2>6, KeptAll
    <2>8. PlusFirst(p) = p
        BY <2>5, <2>6, <2>7 DEF PlusFirst, p
    <2>9. Len(p) <= Len(k)
        <3>1. Len(rest) \in Nat /\ Len(k) \in Nat
            BY <2>3, LenProperties
        <3> QED BY <2>1, <2>2, <2>5, <3>1
    <2> QED BY <2>2, <2>4, <2>5, <2>6, <2>8, <2>9
<1> QED BY <1>1, <1>2

\* callNumber of a text that fits in the buffer.
LEMMA CallNumberOf ==
    ASSUME NEW T, NEW str \in Seq(T), str # Nil, Len(str) < BufferSize
    PROVE  /\ callNumber(str) = PlusFirst(Kept(str, Dialled))
           /\ Kept(str, Dialled) \in Seq(Dialled) /\ Len(Kept(str, Dialled)) <= Len(str)
<1>1. Kept(str, Dialled) \in Seq(T \cap Dialled) /\ Len(Kept(str, Dialled)) <= Len(str)
    BY KeptType
<1>2. Kept(str, Dialled) \in Seq(Dialled)
    BY <1>1, SeqMonotonic, T \cap Dialled \subseteq Dialled
<1>3. ~(str = Nil \/ Len(str) >= BufferSize)
    BY DEF BufferSize
<1>4. callNumber(str) = PlusFirst(Kept(str, Dialled))
    BY <1>3 DEF callNumber, PlusFirst
<1> QED BY <1>1, <1>2, <1>4

\* A number to dial is one already, and not longer than the text it comes from.
LEMMA CallNumberOnce ==
    ASSUME NEW T, NEW str, str = Nil \/ str \in Seq(T)
    PROVE  /\ callNumber(str) # Nil => /\ callNumber(str) \in Seq(Dialled)
                                       /\ Len(callNumber(str)) < BufferSize
                                       /\ Len(callNumber(str)) <= Len(str)
           /\ callNumber(callNumber(str)) = callNumber(str)
<1>1. CASE callNumber(str) = Nil
    <2>1. callNumber(Nil) = Nil
        BY DEF callNumber
    <2> QED BY <1>1, <2>1
<1>2. CASE callNumber(str) # Nil
    <2>1. str # Nil /\ ~(Len(str) >= BufferSize)
        BY <1>2 DEF callNumber
    <2>2. str \in Seq(T) /\ Len(str) \in Nat /\ Len(str) < BufferSize
        BY <2>1 DEF BufferSize
    <2> DEFINE k == Kept(str, Dialled)
    <2> DEFINE s == callNumber(str)
    <2>3. s = PlusFirst(k) /\ k \in Seq(Dialled) /\ Len(k) <= Len(str)
        BY <2>1, <2>2, CallNumberOf
    <2> HIDE DEF k, s
    <2>4. s \in Seq(Dialled) /\ Len(s) <= Len(k) /\ PlusFirst(s) = s
        BY <2>3, PlusFirstOnce
    <2>5. Len(s) <= Len(str) /\ Len(s) < BufferSize
        <3>1. Len(s) \in Nat /\ Len(k) \in Nat
            BY <2>3, <2>4, LenProperties
        <3> QED BY <2>2, <2>3, <2>4, <3>1 DEF BufferSize
    <2>6. callNumber(s) = PlusFirst(Kept(s, Dialled))
        BY <1>2, <2>4, <2>5, CallNumberOf DEF s
    <2>7. Kept(s, Dialled) = s
        BY <2>4, KeptAll
    <2> QED BY <2>4, <2>5, <2>6, <2>7 DEF s
<1> QED BY <1>1, <1>2

-----------------------------------------------------------------------------
\* What is displayed is what is dialled.

\* The first rule that matches is one that matches.
LEMMA LeastOfPositions ==
    ASSUME NEW S, S \subseteq Nat, S # {}
    PROVE  Min(S) \in S
<1>1. \E x \in S : \A y \in S : x =< y
    BY LeastNat
<1> QED BY <1>1 DEF Min

\* A layout of a number converts back to the number.
LEMMA MatchDials ==
    ASSUME NEW T, NEW conv, Converter(conv, T), NEW n \in Seq(Dialled), PlusFirst(n) = n,
           NEW i \in DOMAIN conv.rules, match(conv, n, conv.rules[i]) # Nil
    PROVE  /\ callNumber(match(conv, n, conv.rules[i])) = n
           /\ match(conv, n, conv.rules[i]) \in Seq(T)
<1> DEFINE template == conv.rules[i]
<1> DEFINE m == MatchRule(conv, n, template)
<1> DEFINE ipLen == Len(conv.ip)
<1> DEFINE l == IF ipLen = 0 THEN 1 ELSE ipLen
<1>1. template \in Seq(T \cup {"I"}) /\ Len(template) \in Nat
    BY DEF Converter
<1>2. ipLen \in Nat
    BY DEF Converter
<1>3. (\A j \in 1..Len(template) : template[j] # "*") /\ Len(template) < BufferSize
      /\ Len(template) * ipLen < BufferSize
    <2>1. DOMAIN template = 1..Len(template)
        BY <1>1
    <2>2. (\A j \in DOMAIN template : template[j] # "*") /\ Len(template) < BufferSize
          /\ Len(template) * ipLen < BufferSize
        BY Zenon DEF Converter
    <2> QED BY <2>1, <2>2, Zenon
<1>4. l \in Nat /\ 1 <= l /\ ipLen <= l
    BY <1>2
<1>5. Len(template) * l < BufferSize
    <2>1. CASE ipLen = 0
        <3>1. l = 1 /\ Len(template) * 1 = Len(template)
            BY <1>1, <2>1
        <3> QED BY <1>3, <3>1
    <2>2. CASE ipLen # 0
        <3>1. l = ipLen
            BY <2>2
        <3> QED BY <1>3, <3>1
    <2> QED BY <2>1, <2>2
<1>6. m.ok /\ m.rest = <<>> /\ match(conv, n, template) = m.out /\ m.out # Nil
    BY DEF match
<1>7. Dialled \subseteq T /\ conv.ip \in Seq(T) /\ Len(conv.ip) <= l
    BY <1>4 DEF Converter
<1> HIDE DEF template, l
<1>8. /\ m \in Matches(T)
      /\ m.ok => Kept(m.out, Dialled) \o m.rest = n /\ Len(m.out) <= Len(template) * l
    BY <1>1, <1>3, <1>4, <1>7, MatchRuleKeeps
<1> HIDE DEF m
<1>9. m.out \in Seq(T) /\ Len(m.out) \in Nat
    BY <1>8 DEF Matches
<1>10. Len(m.out) < BufferSize
    <2>1. Len(template) * l \in Nat
        BY <1>1, <1>4
    <2>2. Len(m.out) <= Len(template) * l
        BY <1>6, <1>8
    <2> QED BY <1>5, <1>9, <2>1, <2>2 DEF BufferSize
<1>11. Kept(m.out, Dialled) = n
    <2>1. Kept(m.out, Dialled) \in Seq(T \cap Dialled)
        BY <1>9, KeptType
    <2>2. Kept(m.out, Dialled) \o <<>> = Kept(m.out, Dialled)
        BY <2>1, ConcatEmptySeq
    <2> QED BY <1>6, <1>8, <2>2, Zenon
<1>12. callNumber(m.out) = PlusFirst(Kept(m.out, Dialled))
    BY <1>6, <1>9, <1>10, CallNumberOf
<1> QED BY <1>6, <1>9, <1>11, <1>12 DEF template

\* What is displayed of a text is dialled like the text, whichever rule matched.
THEOREM DisplayIsDialled ==
    ASSUME NEW T, NEW conv, Converter(conv, T), NEW str, str = Nil \/ str \in Seq(T)
    PROVE  /\ callNumber(displayCallNumber(conv, str)) = callNumber(str)
           /\ internationalCallNumber(conv, displayCallNumber(conv, str))
                = internationalCallNumber(conv, str)
           /\ displayCallNumber(conv, str) = Nil \/ displayCallNumber(conv, str) \in Seq(T)
<1> DEFINE s == callNumber(str)
<1> DEFINE matching == {i \in DOMAIN conv.rules : match(conv, s, conv.rules[i]) # Nil}
<1>1. CASE s = Nil \/ matching = {}
    <2>1. displayCallNumber(conv, str) = s
        BY <1>1 DEF displayCallNumber, applyFormatFor
    <2>2. callNumber(s) = s
        BY CallNumberOnce
    <2>3. callNumber(displayCallNumber(conv, str)) = callNumber(str)
        BY <2>1, <2>2
    <2>4. s = Nil \/ s \in Seq(T)
        <3>1. s # Nil => s \in Seq(Dialled)
            BY CallNumberOnce
        <3>2. Dialled \subseteq T
            BY DEF Converter
        <3> QED BY <3>1, <3>2, SeqMonotonic
    <2> QED BY <2>1, <2>3, <2>4 DEF internationalCallNumber
<1>2. CASE ~(s = Nil \/ matching = {})
    <2>1. displayCallNumber(conv, str) = match(conv, s, conv.rules[Min(matching)])
        BY <1>2 DEF displayCallNumber, applyFormatFor
    <2>2. Min(matching) \in matching
        <3>1. matching \subseteq Nat
            <4>1. conv.rules \in Seq(Seq(T \cup {"I"}))
                BY DEF Converter
            <4>2. DOMAIN conv.rules \subseteq Nat
                BY <4>1
            <4> QED BY <4>2, Zenon
        <3> QED BY <1>2, <3>1, LeastOfPositions
    <2>3. s \in Seq(Dialled) /\ PlusFirst(s) = s
        <3>1. s \in Seq(Dialled) /\ Len(s) < BufferSize /\ callNumber(s) = s
            BY <1>2, CallNumberOnce
        <3>2. callNumber(s) = PlusFirst(Kept(s, Dialled)) /\ Kept(s, Dialled) = s
            BY <1>2, <3>1, CallNumberOf, KeptAll
        <3> QED BY <3>1, <3>2
    <2> HIDE DEF s
    <2>4. /\ callNumber(match(conv, s, conv.rules[Min(matching)])) = s
          /\ match(conv, s, conv.rules[Min(matching)]) \in Seq(T)
        BY <2>2, <2>3, MatchDials
    <2>5. callNumber(displayCallNumber(conv, str)) = callNumber(str)
        BY <2>1, <2>4 DEF s
    <2> QED BY <2>1, <2>4, <2>5 DEF internationalCallNumber
<1> QED BY <1>1, <1>2

-----------------------------------------------------------------------------
\* The key of a number.

\* A text starts with another when its first characters are those.
LEMMA PrefixByCharacters ==
    ASSUME NEW D, NEW T, NEW r \in Seq(D), NEW p \in Seq(T)
    PROVE  IsPrefix(p, r) <=> Len(p) <= Len(r) /\ \A i \in 1..Len(p) : p[i] = r[i]
<1> DEFINE q == SubSeq(r, 1, Len(p))
<1>1. Len(p) \in Nat /\ Len(r) \in Nat /\ SubSeq(p, 1, Len(p)) = p
    BY SubSeqFull
<1>2. SUFFICES ASSUME Len(p) <= Len(r) PROVE p = q <=> \A i \in 1..Len(p) : p[i] = r[i]
    BY <1>1 DEF IsPrefix
<1>3. q \in Seq(D) /\ Len(q) = Len(p) /\ \A i \in 1..Len(p) : q[i] = r[i]
    <2>1. \A i \in 1..Len(p) : r[i] \in D
        BY <1>1, <1>2
    <2> QED BY <1>1, <2>1, SubSeqProperties
<1> HIDE DEF q
<1>4. ASSUME \A i \in 1..Len(p) : p[i] = r[i] PROVE p = q
    <2>1. q \in Seq(D \cup T) /\ p \in Seq(D \cup T)
        BY <1>3, SeqMonotonic
    <2> QED BY <1>3, <1>4, <2>1, SeqEqual
<1> QED BY <1>3, <1>4

\* The two prefixes that tell an international number, by their characters.
LEMMA StartsWith ==
    ASSUME NEW D, NEW r \in Seq(D), NEW c
    PROVE  /\ IsPrefix(<<c>>, r) <=> 1 <= Len(r) /\ r[1] = c
           /\ IsPrefix(<<c, c>>, r) <=> 2 <= Len(r) /\ r[1] = c /\ r[2] = c
<1>1. ASSUME NEW p \in Seq({c}), Len(p) = 1, p[1] = c
      PROVE  IsPrefix(p, r) <=> 1 <= Len(r) /\ r[1] = c
    <2>1. IsPrefix(p, r) <=> Len(p) <= Len(r) /\ \A i \in 1..Len(p) : p[i] = r[i]
        BY PrefixByCharacters
    <2>2. 1..Len(p) = {1}
        BY <1>1
    <2> QED BY <1>1, <2>1, <2>2, Zenon
<1>2. ASSUME NEW p \in Seq({c}), Len(p) = 2, p[1] = c, p[2] = c
      PROVE  IsPrefix(p, r) <=> 2 <= Len(r) /\ r[1] = c /\ r[2] = c
    <2>1. IsPrefix(p, r) <=> Len(p) <= Len(r) /\ \A i \in 1..Len(p) : p[i] = r[i]
        BY PrefixByCharacters
    <2>2. 1..Len(p) = {1, 2}
        BY <1>2
    <2>3. (\A i \in 1..Len(p) : p[i] = r[i]) <=> p[1] = r[1] /\ p[2] = r[2]
        BY <2>2
    <2> QED BY <1>2, <2>1, <2>3, Zenon
<1>3. <<c>> \in Seq({c}) /\ Len(<<c>>) = 1 /\ <<c>>[1] = c
    OBVIOUS
<1>4. <<c, c>> \in Seq({c}) /\ Len(<<c, c>>) = 2 /\ <<c, c>>[1] = c /\ <<c, c>>[2] = c
    OBVIOUS
<1> QED BY <1>1, <1>2, <1>3, <1>4, Zenon

\* A number without a plus sign behind its first character stays as it is.
LEMMA PlusOnlyFirst ==
    ASSUME NEW k \in Seq(Dialled), k # <<>> => Tail(k) \in Seq(Dialled \ {"+"})
    PROVE  PlusFirst(k) = k
<1>1. CASE k = <<>>
    BY <1>1 DEF PlusFirst
<1>2. CASE k # <<>>
    <2>1. Kept(Tail(k), Dialled \ {"+"}) = Tail(k)
        BY <1>2, KeptAll
    <2>2. <<Head(k)>> \o Tail(k) = k
        BY <1>2
    <2> QED BY <1>2, <2>1, <2>2 DEF PlusFirst
<1> QED BY <1>1, <1>2

\* An international prefix that is one, and tells an international number from a national.
InternationalPrefix(conv) ==
    /\ conv.ip \in Seq(Dialled) /\ PlusFirst(conv.ip) = conv.ip
    /\ \/ IsPrefix(<<"+">>, conv.ip)
       \/ IsPrefix(<<"0", "0">>, conv.ip)
       \/ conv.ip = <<>> /\ conv.np = <<"0">>

\* The national number u, after the national prefix, behind the international prefix.
LEMMA PrefixedNumber ==
    ASSUME NEW ip \in Seq(Dialled), PlusFirst(ip) = ip, NEW u \in Seq(Dialled \ {"+"})
    PROVE  ip \o u \in Seq(Dialled) /\ PlusFirst(ip \o u) = ip \o u
<1>1. u \in Seq(Dialled)
    BY SeqMonotonic, Dialled \ {"+"} \subseteq Dialled
<1>2. ip \o u \in Seq(Dialled)
    BY <1>1, ConcatProperties
<1>3. CASE ip = <<>>
    <2>1. ip \o u = u
        BY <1>1, <1>3
    <2>2. u # <<>> => Tail(u) \in Seq(Dialled \ {"+"})
        BY HeadTailProperties
    <2> QED BY <1>1, <1>2, <2>1, <2>2, PlusOnlyFirst
<1>4. CASE ip # <<>>
    <2>1. Tail(ip) \in Seq(Dialled \ {"+"})
        BY <1>4, PlusFirstOnce
    <2>2. Tail(ip \o u) = Tail(ip) \o u
        BY <1>1, <1>4
    <2>3. Tail(ip) \o u \in Seq(Dialled \ {"+"})
        BY <2>1, ConcatProperties
    <2> QED BY <1>2, <2>2, <2>3, PlusOnlyFirst
<1> QED BY <1>3, <1>4

\* What follows the first characters of a number has no plus sign.
LEMMA RestHasNoPlus ==
    ASSUME NEW s \in Seq(Dialled), PlusFirst(s) = s, NEW n \in Nat, 1 <= n, n <= Len(s)
    PROVE  /\ SubSeq(s, n + 1, Len(s)) \in Seq(Dialled \ {"+"})
           /\ Len(SubSeq(s, n + 1, Len(s))) = Len(s) - n
           /\ \A i \in 1..(Len(s) - n) : SubSeq(s, n + 1, Len(s))[i] = s[i + n]
<1>1. Len(s) \in Nat /\ s # <<>>
    BY EmptySeq
<1>2. Tail(s) \in Seq(Dialled \ {"+"})
    BY <1>1, PlusFirstOnce
<1>3. Len(Tail(s)) = Len(s) - 1 /\ \A i \in 1..Len(Tail(s)) : Tail(s)[i] = s[i + 1]
    BY <1>1, HeadTailProperties
<1>4. ASSUME NEW i \in (n + 1)..Len(s) PROVE s[i] \in Dialled \ {"+"}
    <2>1. i - 1 \in 1..Len(Tail(s)) /\ (i - 1) + 1 = i
        BY <1>1, <1>3
    <2>2. Tail(s)[i - 1] = s[i]
        BY <1>3, <2>1
    <2>3. Tail(s)[i - 1] \in Dialled \ {"+"}
        BY <1>2, <2>1, ElementOfSeq
    <2> QED BY <2>2, <2>3
<1>5. n + 1 \in Int /\ Len(s) \in Int
    BY <1>1
<1>6. /\ SubSeq(s, n + 1, Len(s)) \in Seq(Dialled \ {"+"})
      /\ Len(SubSeq(s, n + 1, Len(s))) = IF n + 1 <= Len(s) THEN Len(s) - (n + 1) + 1 ELSE 0
      /\ \A i \in 1..(Len(s) - (n + 1) + 1) :
           SubSeq(s, n + 1, Len(s))[i] = s[(n + 1) + i - 1]
    BY <1>4, <1>5, SubSeqProperties
<1> DEFINE rest == SubSeq(s, n + 1, Len(s))
<1> HIDE DEF rest
<1>7. /\ (IF n + 1 <= Len(s) THEN Len(s) - (n + 1) + 1 ELSE 0) = Len(s) - n
      /\ Len(s) - (n + 1) + 1 = Len(s) - n
      /\ \A i \in Nat : (n + 1) + i - 1 = i + n
    BY <1>1
<1>8. /\ rest \in Seq(Dialled \ {"+"}) /\ Len(rest) = Len(s) - n
      /\ \A i \in 1..(Len(s) - n) : rest[i] = s[i + n]
    <2>1. rest \in Seq(Dialled \ {"+"}) /\ Len(rest) = Len(s) - n
        BY <1>6, <1>7, Zenon DEF rest
    <2>2. \A i \in 1..(Len(s) - n) : rest[i] = s[(n + 1) + i - 1]
        BY <1>6, <1>7, Zenon DEF rest
    <2>3. ASSUME NEW i \in 1..(Len(s) - n) PROVE rest[i] = s[i + n]
        <3>1. (n + 1) + i - 1 = i + n
            BY <1>1
        <3> QED BY <2>2, <3>1, Zenon
    <2> QED BY <2>1, <2>3, Zenon
<1> QED BY <1>8, Zenon DEF rest

\* A key is its own key, for texts that leave room for the international prefix.
LEMMA KeyOnce ==
    ASSUME NEW T, NEW conv, Converter(conv, T), InternationalPrefix(conv),
           NEW str, str = Nil \/ (str \in Seq(T) /\ Len(str) + Len(conv.ip) <= BufferSize)
    PROVE  LET key == internationalCallNumber(conv, str)
           IN  internationalCallNumber(conv, key) = key
<1> DEFINE s == callNumber(str)
<1> DEFINE key == internationalCallNumber(conv, str)
<1> DEFINE National(n) == HasPrefix(n, conv.np) /\ ~HasPrefix(n, <<"+">>) /\ ~HasPrefix(n, <<"0", "0">>)
<1> SUFFICES internationalCallNumber(conv, key) = key
    OBVIOUS
<1>1. CASE ~National(s)
    <2>1. key = s
        BY <1>1 DEF internationalCallNumber
    <2>2. callNumber(s) = s
        BY CallNumberOnce
    <2> QED BY <1>1, <2>1, <2>2 DEF internationalCallNumber
<1>2. CASE National(s)
    <2> DEFINE n == Len(conv.np)
    <2> DEFINE u == SubSeq(s, n + 1, Len(s))
    <2>1. s # Nil /\ conv.np # <<>> /\ IsPrefix(conv.np, s)
        BY <1>2 DEF HasPrefix
    <2>2. key = conv.ip \o u
        BY <1>2 DEF internationalCallNumber
    <2>3. /\ s \in Seq(Dialled) /\ Len(s) < BufferSize /\ Len(s) <= Len(str)
          /\ str \in Seq(T) /\ Len(str) + Len(conv.ip) <= BufferSize
        <3>1. str # Nil
            BY <2>1 DEF callNumber
        <3> QED BY <2>1, <3>1, CallNumberOnce
    <2>4. PlusFirst(s) = s
        <3>1. callNumber(s) = PlusFirst(Kept(s, Dialled)) /\ Kept(s, Dialled) = s
            BY <2>1, <2>3, CallNumberOf, KeptAll
        <3>2. callNumber(s) = s
            BY CallNumberOnce
        <3> QED BY <3>1, <3>2
    <2>5. n \in Nat /\ 1 <= n /\ n <= Len(s) /\ \A i \in 1..n : conv.np[i] = s[i]
        <3>1. conv.np \in Seq(T)
            BY DEF Converter
        <3>2. n <= Len(s) /\ \A i \in 1..n : conv.np[i] = s[i]
            BY <2>1, <2>3, <3>1, PrefixByCharacters
        <3>3. n \in Nat /\ n # 0
            BY <2>1, <3>1, EmptySeq
        <3> QED BY <3>2, <3>3
    <2>6. conv.ip \in Seq(Dialled) /\ PlusFirst(conv.ip) = conv.ip
        BY DEF InternationalPrefix
    <2>7. ~IsPrefix(<<"0", "0">>, s)
        BY <1>2, <2>1 DEF HasPrefix
    <2> HIDE DEF s, key, National
    <2>8. /\ u \in Seq(Dialled \ {"+"}) /\ Len(u) = Len(s) - n
          /\ \A i \in 1..(Len(s) - n) : u[i] = s[i + n]
        BY <2>3, <2>4, <2>5, RestHasNoPlus
    <2> HIDE DEF u, n
    <2>9. key \in Seq(Dialled) /\ PlusFirst(key) = key
        BY <2>2, <2>6, <2>8, PrefixedNumber
    <2>10. Len(key) < BufferSize /\ \A i \in 1..Len(conv.ip) : i \in 1..Len(key) /\ key[i] = conv.ip[i]
        <3>1. u \in Seq(Dialled)
            BY <2>8, SeqMonotonic, Dialled \ {"+"} \subseteq Dialled
        <3>2. /\ Len(conv.ip) \in Nat /\ Len(u) \in Nat
              /\ Len(key) = Len(conv.ip) + Len(u)
              /\ \A i \in 1..Len(conv.ip) : key[i] = conv.ip[i]
            BY <2>2, <2>6, <3>1
        <3>3. Len(s) \in Nat /\ Len(str) \in Nat
            BY <2>3, LenProperties
        <3>4. Len(key) < BufferSize
            BY <2>3, <2>5, <2>8, <3>2, <3>3 DEF BufferSize
        <3> QED BY <3>2, <3>4
    <2>11. callNumber(key) = key
        <3>1. CASE key = Nil
            BY <3>1 DEF callNumber
        <3>2. CASE key # Nil
            BY <2>9, <2>10, <3>2, CallNumberOf, KeptAll
        <3> QED BY <3>1, <3>2
    <2>12. ~National(key)
        <3> SUFFICES ASSUME key # Nil PROVE ~National(key)
            BY DEF National, HasPrefix
        <3>1. CASE IsPrefix(<<"+">>, conv.ip)
            <4>1. 1 <= Len(conv.ip) /\ conv.ip[1] = "+"
                BY <2>6, <3>1, StartsWith, Zenon
            <4>2. 1 <= Len(key) /\ key[1] = "+"
                BY <2>6, <2>9, <2>10, <4>1
            <4>3. IsPrefix(<<"+">>, key)
                BY <2>9, <4>2, StartsWith, Zenon
            <4> QED BY <4>3 DEF National, HasPrefix
        <3>2. CASE IsPrefix(<<"0", "0">>, conv.ip)
            <4>1. 2 <= Len(conv.ip) /\ conv.ip[1] = "0" /\ conv.ip[2] = "0"
                BY <2>6, <3>2, StartsWith, Zenon
            <4>2. 2 <= Len(key) /\ key[1] = "0" /\ key[2] = "0"
                BY <2>6, <2>9, <2>10, <4>1
            <4>3. IsPrefix(<<"0", "0">>, key)
                BY <2>9, <4>2, StartsWith, Zenon
            <4> QED BY <4>3 DEF National, HasPrefix
        <3>3. CASE conv.ip = <<>> /\ conv.np = <<"0">>
            <4>1. n = 1 /\ s[1] = "0"
                BY <2>5, <3>3 DEF n
            <4>2. key = u
                BY <2>2, <2>8, <3>3
            <4>3. SUFFICES ASSUME IsPrefix(<<"0">>, key) PROVE FALSE
                BY <3>3 DEF National, HasPrefix
            <4>4. 1 <= Len(key) /\ key[1] = "0"
                BY <2>9, <4>3, StartsWith, Zenon
            <4>5. 2 <= Len(s) /\ s[2] = "0"
                BY <2>3, <2>8, <4>1, <4>2, <4>4
            <4>6. IsPrefix(<<"0", "0">>, s)
                BY <2>3, <4>1, <4>5, StartsWith, Zenon
            <4> QED BY <2>7, <4>6
        <3> QED BY <3>1, <3>2, <3>3 DEF InternationalPrefix
    <2> QED BY <2>11, <2>12 DEF internationalCallNumber, National
<1> QED BY <1>1, <1>2

\* A key is a number.
LEMMA KeyIsNumber ==
    ASSUME NEW T, NEW conv, Converter(conv, T), conv.ip \in Seq(Dialled),
           NEW str, str = Nil \/ str \in Seq(T)
    PROVE  internationalCallNumber(conv, str) = Nil \/ internationalCallNumber(conv, str) \in Seq(Dialled)
<1> DEFINE s == callNumber(str)
<1>1. s = Nil \/ s \in Seq(Dialled)
    BY CallNumberOnce
<1>2. CASE HasPrefix(s, conv.np)
    <2>1. IsPrefix(conv.np, s) /\ s # Nil /\ conv.np \in Seq(T)
        BY <1>2 DEF HasPrefix, Converter
    <2> HIDE DEF s
    <2>2. SubSeq(s, Len(conv.np) + 1, Len(s)) \in Seq(Dialled)
        BY <1>1, <2>1, PrefixAndRest
    <2>3. conv.ip \o SubSeq(s, Len(conv.np) + 1, Len(s)) \in Seq(Dialled)
        BY <2>2, ConcatProperties
    <2> QED BY <1>1, <2>3 DEF internationalCallNumber, s
<1>3. CASE ~HasPrefix(s, conv.np)
    BY <1>1, <1>3 DEF internationalCallNumber
<1> QED BY <1>2, <1>3

\* A key is its own key, by way of the form that is displayed too: what updateCompletionList
\* finds with a key, and what is found when its row is selected.  The text leaves room for
\* the international prefix.
THEOREM KeyIsStable ==
    ASSUME NEW T, NEW conv, Converter(conv, T), InternationalPrefix(conv),
           NEW str, str = Nil \/ (str \in Seq(T) /\ Len(str) + Len(conv.ip) <= BufferSize)
    PROVE  LET key == internationalCallNumber(conv, str)
           IN  /\ internationalCallNumber(conv, key) = key
               /\ internationalCallNumber(conv, displayCallNumber(conv, key)) = key
<1> DEFINE key == internationalCallNumber(conv, str)
<1>1. internationalCallNumber(conv, key) = key
    BY KeyOnce
<1>2. key = Nil \/ key \in Seq(T)
    <2>1. key = Nil \/ key \in Seq(Dialled)
        BY KeyIsNumber DEF InternationalPrefix
    <2>2. Dialled \subseteq T
        BY DEF Converter
    <2> QED BY <2>1, <2>2, SeqMonotonic
<1> HIDE DEF key
<1>3. internationalCallNumber(conv, displayCallNumber(conv, key)) = internationalCallNumber(conv, key)
    BY <1>2, DisplayIsDialled
<1> QED BY <1>1, <1>3 DEF key
=============================================================================
