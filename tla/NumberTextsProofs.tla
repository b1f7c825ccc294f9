-------------------------- MODULE NumberTextsProofs --------------------------
(***************************************************************************)
(* The properties of the conversions, for texts pasted together from any   *)
(* number of chunks: the preferences of MCStringCallNumber, with the rules *)
(* a new user has, are preferences StringCallNumberProofs is about.        *)
(***************************************************************************)
EXTENDS MCStringCallNumber, StringCallNumberProofs

\* The characters of the texts, and those that lay a number out.
Characters == Dialled \cup {" "}
Layouts == (Characters \cup {"I"}) \ {"*"}

\* The rules a new user has, whatever their characters stand for.
LEMMA RulesOfCharacters ==
    ASSUME NEW L, NEW ip \in L, NEW z \in L, NEW e \in L, NEW t \in L, NEW s \in L, NEW d \in L
    PROVE  << <<ip, s, d, s, d, d, s, d, d, s, d, d, s, d, d>>,
              <<z, s, e, t, d, s, d, d, d, s, d, d, d>>,
              <<ip, s, e, t, d, s, d, d, d, s, d, d, d>>,
              <<d, d, s, d, d, s, d, d, s, d, d, s, d, d>>,
              <<d, d, s, d, d, s, d, d, s, d, d, s, d>>,
              <<d, d, s, d, d, s, d, d, s, d, d>>,
              <<d, d, s, d, d, s, d, d, s, d>>,
              <<d, d, s, d, d, s, d, d>>,
              <<d, d, s, d, d, s, d>>,
              <<d, d, s, d, d>>,
              <<d, d, d>> >> \in Seq({r \in Seq(L) : Len(r) <= 15})
<1> DEFINE S == {r \in Seq(L) : Len(r) <= 15}
<1>1. <<ip, s, d, s, d, d, s, d, d, s, d, d, s, d, d>> \in S
    OBVIOUS
<1>2. <<z, s, e, t, d, s, d, d, d, s, d, d, d>> \in S
    OBVIOUS
<1>3. <<ip, s, e, t, d, s, d, d, d, s, d, d, d>> \in S
    OBVIOUS
<1>4. <<d, d, s, d, d, s, d, d, s, d, d, s, d, d>> \in S
    OBVIOUS
<1>5. <<d, d, s, d, d, s, d, d, s, d, d, s, d>> \in S
    OBVIOUS
<1>6. <<d, d, s, d, d, s, d, d, s, d, d>> \in S
    OBVIOUS
<1>7. <<d, d, s, d, d, s, d, d, s, d>> \in S
    OBVIOUS
<1>8. <<d, d, s, d, d, s, d, d>> \in S
    OBVIOUS
<1>9. <<d, d, s, d, d, s, d>> \in S
    OBVIOUS
<1>10. <<d, d, s, d, d>> \in S
    OBVIOUS
<1>11. <<d, d, d>> \in S
    OBVIOUS
<1> HIDE DEF S
<1>12. \A r1, r2, r3, r4, r5, r6, r7, r8, r9, r10, r11 \in S :
           <<r1, r2, r3, r4, r5, r6, r7, r8, r9, r10, r11>> \in Seq(S)
    OBVIOUS
<1> QED BY <1>1, <1>2, <1>3, <1>4, <1>5, <1>6, <1>7, <1>8, <1>9, <1>10, <1>11, <1>12, Zenon DEF S

\* They lay numbers out without a star, and none has more than 15 characters.
LEMMA DefaultRulesFit ==
    /\ DefaultRules \in Seq(Seq(Characters \cup {"I"}))
    /\ \A i \in DOMAIN DefaultRules :
         /\ \A j \in DOMAIN DefaultRules[i] : DefaultRules[i][j] # "*"
         /\ Len(DefaultRules[i]) \in Nat /\ Len(DefaultRules[i]) <= 15
<1> DEFINE S == {r \in Seq(Layouts) : Len(r) <= 15}
<1>1. "I" \in Layouts /\ "0" \in Layouts /\ "8" \in Layouts /\ "2" \in Layouts
      /\ " " \in Layouts /\ "#" \in Layouts
    BY DEF Layouts, Characters, Dialled, Digits
<1>2. DefaultRules \in Seq(S)
    BY <1>1, RulesOfCharacters, Zenon DEF DefaultRules
<1>3. S \subseteq Seq(Characters \cup {"I"})
    <2>1. Layouts \subseteq Characters \cup {"I"}
        BY DEF Layouts
    <2> QED BY <2>1, SeqMonotonic
<1>4. DefaultRules \in Seq(Seq(Characters \cup {"I"}))
    BY <1>2, <1>3, SeqMonotonic
<1>5. ASSUME NEW i \in DOMAIN DefaultRules PROVE DefaultRules[i] \in S
    <2>1. i \in 1..Len(DefaultRules)
        BY <1>2, LenProperties
    <2> QED BY <1>2, <2>1, ElementOfSeq
<1>6. ASSUME NEW r \in S PROVE (\A j \in DOMAIN r : r[j] # "*") /\ Len(r) \in Nat /\ Len(r) <= 15
    <2>1. \A j \in DOMAIN r : r[j] \in Layouts
        OBVIOUS
    <2>2. "*" \notin Layouts
        BY DEF Layouts
    <2> QED BY <2>1, <2>2
<1> HIDE DEF S
<1> QED BY <1>4, <1>5, <1>6

\* Preferences with these rules lay numbers out within the buffer.
LEMMA ConverterFits ==
    ASSUME NEW c, c.rules = DefaultRules, c.np \in Seq(Dialled),
           c.ip \in Seq(Dialled), Len(c.ip) \in 0..4, c.ip # <<>> => Tail(c.ip) \in Seq(Dialled \ {"+"}),
           \/ IsPrefix(<<"+">>, c.ip)
           \/ IsPrefix(<<"0", "0">>, c.ip)
           \/ c.ip = <<>> /\ c.np = <<"0">>
    PROVE  Converter(c, Characters) /\ InternationalPrefix(c)
<1>1. Dialled \subseteq Characters
    BY DEF Characters
<1>2. PlusFirst(c.ip) = c.ip
    BY PlusOnlyFirst
<1>3. InternationalPrefix(c)
    BY <1>2, Zenon DEF InternationalPrefix
<1>4. c.ip \in Seq(Characters) /\ c.np \in Seq(Characters)
    BY <1>1, SeqMonotonic
<1>5. ASSUME NEW i \in DOMAIN c.rules
      PROVE  /\ \A j \in DOMAIN c.rules[i] : c.rules[i][j] # "*"
             /\ Len(c.rules[i]) < BufferSize
             /\ Len(c.rules[i]) * Len(c.ip) < BufferSize
    <2>1. /\ \A j \in DOMAIN c.rules[i] : c.rules[i][j] # "*"
          /\ Len(c.rules[i]) \in Nat /\ Len(c.rules[i]) <= 15
        BY DefaultRulesFit, Zenon
    <2>3. \A a \in Nat, b \in 0..4 : a <= 15 => a < 128 /\ a * b < 128
        OBVIOUS
    <2> QED BY <2>1, <2>3, Zenon DEF BufferSize
<1>6. c.rules \in Seq(Seq(Characters \cup {"I"}))
    BY DefaultRulesFit, Zenon
<1> QED BY <1>1, <1>3, <1>4, <1>5, <1>6, Zenon DEF Converter

\* So do those of the run.
LEMMA ConvertersFit ==
    ASSUME NEW c \in Converters
    PROVE  Converter(c, Characters) /\ InternationalPrefix(c) /\ Len(c.ip) \in 0..4
<1>1. "0" \in Dialled /\ "1" \in Dialled /\ "+" \in Dialled /\ "3" \in Dialled
      /\ "1" \in Dialled \ {"+"} /\ "0" \in Dialled \ {"+"} /\ "3" \in Dialled \ {"+"}
    BY DEF Dialled, Digits
<1>2. c.rules = DefaultRules
    BY DEF Converters
<1>3. CASE c.ip = <<"+", "3", "3">> /\ c.np = <<"0">>
    <2> DEFINE ip == <<"+", "3", "3">>
    <2> DEFINE np == <<"0">>
    <2>1. ip \in Seq(Dialled) /\ Len(ip) = 3 /\ ip[1] = "+" /\ Tail(ip) = <<"3", "3">>
        BY <1>1
    <2>2. Tail(ip) \in Seq(Dialled \ {"+"}) /\ np \in Seq(Dialled)
        BY <1>1, <2>1
    <2>3. c.ip = ip /\ c.np = np
        BY <1>3
    <2> HIDE DEF ip, np
    <2>4. 1 <= Len(ip) /\ Len(ip) \in 0..4
        BY <2>1
    <2>5. IsPrefix(<<"+">>, ip)
        BY <2>1, <2>4, StartsWith, Zenon
    <2>6. /\ c.np \in Seq(Dialled) /\ c.ip \in Seq(Dialled) /\ Len(c.ip) \in 0..4
          /\ Tail(c.ip) \in Seq(Dialled \ {"+"}) /\ IsPrefix(<<"+">>, c.ip)
        BY <2>1, <2>2, <2>3, <2>4, <2>5, Zenon
    <2>7. Converter(c, Characters) /\ InternationalPrefix(c)
        <3>1. c.ip # <<>> => Tail(c.ip) \in Seq(Dialled \ {"+"})
            BY <2>6
        <3> QED BY <1>2, <2>6, <3>1, ConverterFits, Zenon
    <2> QED BY <2>6, <2>7
<1>4. CASE c.ip = <<"0", "0", "3", "3">> /\ c.np = <<"0">>
    <2> DEFINE ip == <<"0", "0", "3", "3">>
    <2> DEFINE np == <<"0">>
    <2>1. ip \in Seq(Dialled) /\ Len(ip) = 4 /\ ip[1] = "0" /\ ip[2] = "0" /\ Tail(ip) = <<"0", "3", "3">>
        BY <1>1
    <2>2. Tail(ip) \in Seq(Dialled \ {"+"}) /\ np \in Seq(Dialled)
        BY <1>1, <2>1
    <2>3. c.ip = ip /\ c.np = np
        BY <1>4
    <2> HIDE DEF ip, np
    <2>4. 2 <= Len(ip) /\ Len(ip) \in 0..4
        BY <2>1
    <2>5. IsPrefix(<<"0", "0">>, ip)
        BY <2>1, <2>4, StartsWith, Zenon
    <2>6. /\ c.np \in Seq(Dialled) /\ c.ip \in Seq(Dialled) /\ Len(c.ip) \in 0..4
          /\ Tail(c.ip) \in Seq(Dialled \ {"+"}) /\ IsPrefix(<<"0", "0">>, c.ip)
        BY <2>1, <2>2, <2>3, <2>4, <2>5, Zenon
    <2>7. Converter(c, Characters) /\ InternationalPrefix(c)
        <3>1. c.ip # <<>> => Tail(c.ip) \in Seq(Dialled \ {"+"})
            BY <2>6
        <3> QED BY <1>2, <2>6, <3>1, ConverterFits, Zenon
    <2> QED BY <2>6, <2>7
<1>5. CASE c.ip = <<"+", "1">> /\ c.np = <<"1">>
    <2> DEFINE ip == <<"+", "1">>
    <2> DEFINE np == <<"1">>
    <2>1. ip \in Seq(Dialled) /\ Len(ip) = 2 /\ ip[1] = "+" /\ Tail(ip) = <<"1">>
        BY <1>1
    <2>2. Tail(ip) \in Seq(Dialled \ {"+"}) /\ np \in Seq(Dialled)
        BY <1>1, <2>1
    <2>3. c.ip = ip /\ c.np = np
        BY <1>5
    <2> HIDE DEF ip, np
    <2>4. 1 <= Len(ip) /\ Len(ip) \in 0..4
        BY <2>1
    <2>5. IsPrefix(<<"+">>, ip)
        BY <2>1, <2>4, StartsWith, Zenon
    <2>6. /\ c.np \in Seq(Dialled) /\ c.ip \in Seq(Dialled) /\ Len(c.ip) \in 0..4
          /\ Tail(c.ip) \in Seq(Dialled \ {"+"}) /\ IsPrefix(<<"+">>, c.ip)
        BY <2>1, <2>2, <2>3, <2>4, <2>5, Zenon
    <2>7. Converter(c, Characters) /\ InternationalPrefix(c)
        <3>1. c.ip # <<>> => Tail(c.ip) \in Seq(Dialled \ {"+"})
            BY <2>6
        <3> QED BY <1>2, <2>6, <3>1, ConverterFits, Zenon
    <2> QED BY <2>6, <2>7
<1>6. CASE c.ip = <<>> /\ c.np = <<"0">>
    <2>1. c.ip \in Seq(Dialled) /\ Len(c.ip) \in 0..4 /\ c.np \in Seq(Dialled)
        BY <1>1, <1>6, EmptySeq
    <2> QED BY <1>2, <1>6, <2>1, ConverterFits, Zenon
<1> QED BY <1>3, <1>4, <1>5, <1>6 DEF Converters

\* The preferences are those of the run, and a text has three characters of each chunk.
TextInv == /\ conv \in Converters /\ text \in Seq(Characters)
           /\ chunks \in 0..MaxChunks /\ Len(text) <= 3 * chunks

\* Init says it and every chunk keeps it.
LEMMA TextKept == Spec => []TextInv
<1>1. ASSUME NEW c \in Chunks PROVE c \in Seq(Characters) /\ Len(c) \in Nat /\ Len(c) <= 3
    <2>1. /\ "+" \in Characters /\ "3" \in Characters /\ "0" \in Characters /\ "8" \in Characters
          /\ "2" \in Characters /\ "6" \in Characters /\ "1" \in Characters /\ " " \in Characters
          /\ "*" \in Characters
        BY DEF Characters, Dialled, Digits
    <2>2. \A x, y, z \in Characters : {<<x>>, <<x, y>>, <<x, y, z>>} \subseteq
                                      {s \in Seq(Characters) : Len(s) \in Nat /\ Len(s) <= 3}
        OBVIOUS
    <2>3. c \in {s \in Seq(Characters) : Len(s) \in Nat /\ Len(s) <= 3}
        <3> DEFINE S == {s \in Seq(Characters) : Len(s) \in Nat /\ Len(s) <= 3}
        <3>1. \A x, y, z \in Characters : <<x>> \in S /\ <<x, y>> \in S /\ <<x, y, z>> \in S
            BY <2>2, Zenon
        <3> HIDE DEF S
        <3>2. /\ <<"+", "3", "3">> \in S /\ <<"0">> \in S /\ <<"8", "2">> \in S
              /\ <<"6", "1", "2">> \in S /\ <<"1">> \in S /\ <<" ", "+">> \in S /\ <<"*">> \in S
            BY <2>1, <3>1, Zenon
        <3> QED BY <3>2, Zenon DEF S, Chunks
    <2> QED BY <2>3
<1>2. Init => TextInv
    BY ChunksAssumption, EmptySeq DEF Init, TextInv
<1>3. TextInv /\ [Next]_<<conv, text, chunks>> => TextInv'
    <2> SUFFICES ASSUME TextInv, [Next]_<<conv, text, chunks>> PROVE TextInv'
        OBVIOUS
    <2>1. CASE Next
        <3>1. PICK c \in Chunks : text' = text \o c
            BY <2>1 DEF Next
        <3>2. c \in Seq(Characters) /\ Len(c) \in Nat /\ Len(c) <= 3
            BY <1>1
        <3>3. text \in Seq(Characters) /\ Len(text) \in Nat /\ chunks \in Nat
            BY DEF TextInv
        <3>4. text' \in Seq(Characters) /\ Len(text') = Len(text) + Len(c)
            BY <3>1, <3>2, <3>3, ConcatProperties
        <3> QED BY <2>1, <3>2, <3>3, <3>4, ChunksAssumption DEF Next, TextInv
    <2>2. CASE UNCHANGED <<conv, text, chunks>>
        BY <2>2 DEF TextInv
    <2> QED BY <2>1, <2>2
<1> QED BY <1>2, <1>3, PTL DEF Spec

\* The number shown is the number dialled, for texts of any length.
THEOREM DisplayedIsDialled == Spec => []DisplayDials
<1>1. TextInv => DisplayDials
    <2> SUFFICES ASSUME TextInv PROVE DisplayDials
        OBVIOUS
    <2>1. Converter(conv, Characters) /\ text \in Seq(Characters)
        BY ConvertersFit DEF TextInv
    <2> QED BY <2>1, DisplayIsDialled DEF DisplayDials
<1> QED BY <1>1, TextKept, PTL

\* A key is its own key, for texts that leave room for the international prefix in the buffer.
THEOREM KeysAreStable ==
    ASSUME 3 * MaxChunks + 4 <= BufferSize
    PROVE  Spec => []KeyStable
<1>1. TextInv => KeyStable
    <2> SUFFICES ASSUME TextInv PROVE KeyStable
        OBVIOUS
    <2>1. Converter(conv, Characters) /\ InternationalPrefix(conv) /\ Len(conv.ip) \in 0..4
          /\ text \in Seq(Characters)
        BY ConvertersFit DEF TextInv
    <2>2. Len(text) + Len(conv.ip) <= BufferSize
        <3>1. Len(text) \in Nat
            BY <2>1, LenProperties
        <3>2. Len(text) <= 3 * chunks /\ chunks \in Nat /\ chunks <= MaxChunks
            BY ChunksAssumption DEF TextInv
        <3>3. \A a, b \in Nat, l \in 0..4 :
                  a <= 3 * b /\ b <= MaxChunks /\ 3 * MaxChunks + 4 <= 128 => a + l <= 128
            BY ChunksAssumption
        <3> QED BY <2>1, <3>1, <3>2, <3>3, Zenon DEF BufferSize
    <2> QED BY <2>1, <2>2, KeyIsStable DEF KeyStable
<1> QED BY <1>1, TextKept, PTL
=============================================================================
