------------------------- MODULE MCStringCallNumber -------------------------
(***************************************************************************)
(* The conversions over the texts a user can paste together, under several *)
(* preferences: French prefixes, the 00 form as international prefix,      *)
(* North American prefixes, and no international prefix.                   *)
(***************************************************************************)
EXTENDS StringCallNumber

CONSTANT MaxChunks      \* a bound on the text

ASSUME ChunksAssumption == MaxChunks \in Nat

VARIABLES conv, text, chunks

Chunks == {<<"+", "3", "3">>, <<"0">>, <<"8", "2">>, <<"6", "1", "2">>, <<"1">>, <<" ", "+">>, <<"*">>}

Converters ==
    {[np |-> <<"0">>, ip |-> <<"+", "3", "3">>, rules |-> DefaultRules],
     [np |-> <<"0">>, ip |-> <<"0", "0", "3", "3">>, rules |-> DefaultRules],
     [np |-> <<"1">>, ip |-> <<"+", "1">>, rules |-> DefaultRules],
     [np |-> <<"0">>, ip |-> <<>>, rules |-> DefaultRules]}

Init == conv \in Converters /\ text = <<>> /\ chunks = 0

Next == /\ chunks < MaxChunks
        /\ \E c \in Chunks : text' = text \o c
        /\ chunks' = chunks + 1
        /\ UNCHANGED conv

Spec == Init /\ [][Next]_<<conv, text, chunks>>

\* The number shown is the number dialled: what displayCallNumberFor lays out converts back
\* to the same number and the same international number, whichever rule of
\* numberRulesPref matched.  The history and the completion list keep only the displayed
\* form, and calls are made from it.
DisplayDials ==
    /\ callNumber(displayCallNumber(conv, text)) = callNumber(text)
    /\ internationalCallNumber(conv, displayCallNumber(conv, text))
         = internationalCallNumber(conv, text)

\* A key of the address book cache is its own key, also by way of the displayed form:
\* updateCompletionList looks the keys up again with findByPhone, and the entry that is
\* selected is looked up from its displayed form.
KeyStable ==
    LET key == internationalCallNumber(conv, text)
    IN  /\ internationalCallNumber(conv, key) = key
        /\ internationalCallNumber(conv, displayCallNumber(conv, key)) = key
=============================================================================
