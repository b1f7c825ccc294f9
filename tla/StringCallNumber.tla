-------------------------- MODULE StringCallNumber --------------------------
(***************************************************************************)
(* The conversions of telephone numbers (StringCallNumber.m): the number   *)
(* that is dialled, its international form, which is also the key of the   *)
(* address book cache, and the form that is displayed.  A text is a        *)
(* sequence of characters; Nil is nil.  The converter conv holds the       *)
(* preferences: the prefixes np and ip and the display rules.              *)
(***************************************************************************)
EXTENDS Naturals, Sequences, SequencesExt

CONSTANT Nil

Digits == {"0", "1", "2", "3", "4", "5", "6", "7", "8", "9"}

\* hasPrefix: no string has the empty prefix, and nil has none.
HasPrefix(s, p) == s # Nil /\ p # <<>> /\ IsPrefix(p, s)

\* The display rules a new user has: PrefPhoneNumberConverter's defaultPrefValue.
DefaultRules ==
    << <<"I", " ", "#", " ", "#", "#", " ", "#", "#", " ", "#", "#", " ", "#", "#">>,
       <<"0", " ", "8", "2", "#", " ", "#", "#", "#", " ", "#", "#", "#">>,
       <<"I", " ", "8", "2", "#", " ", "#", "#", "#", " ", "#", "#", "#">>,
       <<"#", "#", " ", "#", "#", " ", "#", "#", " ", "#", "#", " ", "#", "#">>,
       <<"#", "#", " ", "#", "#", " ", "#", "#", " ", "#", "#", " ", "#">>,
       <<"#", "#", " ", "#", "#", " ", "#", "#", " ", "#", "#">>,
       <<"#", "#", " ", "#", "#", " ", "#", "#", " ", "#">>,
       <<"#", "#", " ", "#", "#", " ", "#", "#">>,
       <<"#", "#", " ", "#", "#", " ", "#">>,
       <<"#", "#", " ", "#", "#">>,
       <<"#", "#", "#">> >>

\* The size of the buffers the conversions work in.
BufferSize == 128

Dialled == Digits \cup {"#", "*", "+"}

\* The characters of s that are in C, in their order.
Kept(s, C) ==
    LET f[i \in 0..Len(s)] == IF i = 0 THEN <<>>
                              ELSE IF s[i] \in C THEN Append(f[i - 1], s[i]) ELSE f[i - 1]
    IN  f[Len(s)]

\* The characters one can dial; a plus sign is one of them only as the first.
callNumber(str) ==
    IF str = Nil \/ Len(str) >= BufferSize THEN Nil
    ELSE LET kept == Kept(str, Dialled)
         IN  IF kept = <<>> THEN <<>>
             ELSE <<Head(kept)>> \o Kept(Tail(kept), Dialled \ {"+"})

\* Mutant: an international number that starts with 00 is taken for a national one.
internationalCallNumberTwice(conv, n) ==
    LET s == callNumber(n)
    IN  IF HasPrefix(s, conv.np) /\ ~HasPrefix(s, <<"+">>)
        THEN conv.ip \o SubSeq(s, Len(conv.np) + 1, Len(s))
        ELSE s

internationalCallNumber(conv, n) ==
    LET s == callNumber(n)
    IN  IF HasPrefix(s, conv.np) /\ ~HasPrefix(s, <<"+">>) /\ ~HasPrefix(s, <<"0", "0">>)
        THEN conv.ip \o SubSeq(s, Len(conv.np) + 1, Len(s))
        ELSE s

\* What one character of a rule does with the rest of the number: it takes a part of it,
\* adds a character of its own, or does not match.
MatchChar(conv, m, t) ==
    LET taken(p) == IF IsPrefix(p, m.rest)
                    THEN [ok |-> m.ok, out |-> m.out \o p,
                          rest |-> SubSeq(m.rest, Len(p) + 1, Len(m.rest))]
                    ELSE [m EXCEPT !.ok = FALSE]
    IN  CASE t = "I" -> taken(conv.ip)
          [] t = "#" -> IF m.rest # <<>> /\ m.rest[1] \in Digits THEN taken(<<m.rest[1]>>)
                        ELSE [m EXCEPT !.ok = FALSE]
          [] t \in Digits \cup {"+"} -> taken(<<t>>)
          [] OTHER -> [m EXCEPT !.out = Append(@, t)]

\* What the whole rule leaves of the number.
MatchRule(conv, num, template) ==
    LET m[i \in 0..Len(template)] ==
            IF i = 0 THEN [ok |-> TRUE, rest |-> num, out |-> <<>>]
            ELSE MatchChar(conv, m[i - 1], template[i])
    IN  m[Len(template)]

\* Mutant: a rule that is too short for the number matches.
matchPrefix(conv, num, template) ==
    LET m == MatchRule(conv, num, template)
    IN  IF m.ok /\ m.out # <<>> THEN m.out ELSE Nil

\* _match: the number in the layout of the rule, or Nil: the whole number must match.
match(conv, num, template) ==
    LET m == MatchRule(conv, num, template)
    IN  IF m.ok /\ m.rest = <<>> /\ m.out # <<>> THEN m.out ELSE Nil

\* _applyFormatFor: the first rule that matches decides.
applyFormatFor(conv, n) ==
    LET matching == {i \in DOMAIN conv.rules : match(conv, n, conv.rules[i]) # Nil}
    IN  IF n = Nil \/ matching = {} THEN n ELSE match(conv, n, conv.rules[Min(matching)])

\* displayCallNumberFor and internationalDisplayCallNumberFor do the same.
displayCallNumber(conv, n) == applyFormatFor(conv, callNumber(n))

\* Preferences whose display rules lay a number out without a character one can dial, and
\* fit in the buffer of _match.
Converter(conv, T) ==
    /\ Dialled \subseteq T
    /\ conv.ip \in Seq(T) /\ conv.np \in Seq(T)
    /\ conv.rules \in Seq(Seq(T \cup {"I"}))
    /\ \A i \in DOMAIN conv.rules :
         /\ \A j \in DOMAIN conv.rules[i] : conv.rules[i][j] # "*"
         /\ Len(conv.rules[i]) < BufferSize
         /\ Len(conv.rules[i]) * Len(conv.ip) < BufferSize
=============================================================================
