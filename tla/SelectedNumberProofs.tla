------------------------ MODULE SelectedNumberProofs ------------------------
(***************************************************************************)
(* The number to call, the name shown with it and the cache behind them,   *)
(* for every address book, every text and any number of questions.         *)
(*                                                                         *)
(* The proofs use what StringCallNumberProofs shows of the conversions:    *)
(* the history keeps the displayed form of a number only, so that a name   *)
(* of the history belongs to its number because the form that is displayed *)
(* has the same key.                                                       *)
(***************************************************************************)
EXTENDS SelectedNumber, StringCallNumberProofs

\* The texts, and the selected number with its name.
Text == {Nil} \cup Seq(Alphabet)
Selection == [number : Text, name : Names, fromAB : BOOLEAN]

-----------------------------------------------------------------------------
\* The inductive invariants.

\* What the cache holds was a book's.
CacheOfBook == perPhone \in {Nil} \cup {cachePopulate[b] : b \in Books}

\* A call has a ticket.
IsTicket(t) == t.number \in Text /\ t.name \in Names
CallHasTicket == phase \in {"ringing", "call"} => IsTicket(ticket)

TypeInv == TypeOK /\ sel \in Selection /\ alerts \in Seq(Text) /\ CacheOfBook /\ CallHasTicket

\* The cache is the one of the address book.
Fresh == perPhone \in {Nil, cachePopulate[book]}

\* Until the book is edited, lookups see it and fromAB tells whether it has the number.
BookInv == "book" \notin happened => ~abChanged /\ Fresh

\* The holders of a number in a book, what fromAB says of it, and the names that fit.
Holding(b, n) == {p \in ToSet(People) : Key(n) # <<>> /\ Key(n) \in KeysOf[b][p]}
Right(b, s) == s.number # Nil => (s.fromAB <=> Holding(b, s.number) # {})
Fits(b, name, n) == name \in Holding(b, n) \cup {Nil, Empty}

\* A number that is not from the address book has no name: the name is cleared with the
\* flag, and a number that is not found changes nothing when the flag is down.
Unnamed(s) == ~s.fromAB => s.name \in {Nil, Empty}
Named(b, s) == Unnamed(s) /\ (s.number # Nil => Fits(b, s.name, s.number))

\* Neither was the book edited nor anybody picked while the phone was busy.
Unpicked(events) == "book" \notin events /\ "pickbusy" \notin events

SelInv == /\ Unpicked(happened) => Right(book, sel)
          /\ happened \subseteq {"urls"} => Named(book, sel)

\* The name of the ticket, too.
Calls(b, t) == t # Nil /\ t.number # Nil => Fits(b, t.name, t.number)
TicketInv == happened \subseteq {"urls"} => Calls(book, ticket)

\* While a question waits the selected number is its number.
AskedInv == "urls" \notin happened /\ alerts # <<>> => Len(alerts) = 1 /\ Head(alerts) = sel.number

NumberInv == TypeInv /\ CacheFresh /\ BookInv /\ SelInv /\ TicketInv /\ AskedInv

-----------------------------------------------------------------------------
\* What the operators return.

\* The last of several positions is one of them.
LEMMA LastOfPositions ==
    ASSUME NEW n \in Nat, NEW S, S \subseteq 1..n, S # {}
    PROVE  Max(S) \in S
<1> DEFINE D == {m \in Nat : n - m \in S}
<1>1. D \subseteq Nat /\ D # {}
    <2>1. PICK x \in S : TRUE
        OBVIOUS
    <2>2. n - x \in Nat /\ n - (n - x) = x
        BY <2>1
    <2>3. n - x \in D
        BY <2>1, <2>2
    <2> QED BY <2>3
<1>2. PICK d \in D : \A m \in D : d <= m
    BY <1>1, LeastNat
<1>3. ASSUME NEW y \in S PROVE n - d >= y
    <2>1. n - y \in Nat /\ n - (n - y) = y
        OBVIOUS
    <2>2. n - y \in D
        BY <2>1
    <2>3. d <= n - y /\ d \in Nat /\ y \in Nat
        BY <1>2, <2>2
    <2> QED BY <2>3
<1>4. \E x \in S : \A y \in S : x >= y
    BY <1>2, <1>3
<1> QED BY <1>4 DEF Max

\* _abCachePopulate: every key of the book, with somebody who has it.
LEMMA OwnerHasKey ==
    ASSUME NEW b \in Books, NEW k
    PROVE  /\ k \in DOMAIN cachePopulate[b] <=> \E p \in ToSet(People) : k \in KeysOf[b][p]
           /\ k \in DOMAIN cachePopulate[b] => /\ cachePopulate[b][k] \in ToSet(People)
                                               /\ k \in KeysOf[b][cachePopulate[b][k]]
<1> DEFINE keys == KeysOf[b]
<1> DEFINE All == UNION {keys[p] : p \in ToSet(People)}
<1> DEFINE holders(x) == {i \in DOMAIN People : x \in keys[People[i]]}
<1>1. cachePopulate[b] = [x \in All |-> People[Max(holders(x))]]
    BY DEF cachePopulate, Owners
<1>2. k \in All <=> \E p \in ToSet(People) : k \in keys[p]
    OBVIOUS
<1>3. ASSUME k \in All PROVE Max(holders(k)) \in holders(k)
    <2>1. PICK p \in ToSet(People) : k \in keys[p]
        BY <1>2, <1>3
    <2>2. PICK i \in DOMAIN People : p = People[i]
        BY <2>1 DEF ToSet
    <2>3. i \in holders(k)
        BY <2>1, <2>2
    <2>4. DOMAIN People = 1..Len(People) /\ Len(People) \in Nat
        BY BookAssumption, LenProperties
    <2>5. holders(k) \subseteq 1..Len(People)
        BY <2>4, Zenon
    <2> HIDE DEF holders
    <2> QED BY <2>3, <2>4, <2>5, LastOfPositions
<1> HIDE DEF keys, All, holders
<1>4. ASSUME k \in All
      PROVE  cachePopulate[b][k] \in ToSet(People) /\ k \in KeysOf[b][cachePopulate[b][k]]
    <2>1. cachePopulate[b][k] = People[Max(holders(k))]
        BY <1>1, <1>4
    <2>2. Max(holders(k)) \in DOMAIN People /\ k \in keys[People[Max(holders(k))]]
        BY <1>3, <1>4 DEF holders
    <2>3. People[Max(holders(k))] \in ToSet(People)
        BY <2>2 DEF ToSet
    <2> QED BY <2>1, <2>2, <2>3 DEF keys
<1>5. DOMAIN cachePopulate[b] = All
    BY <1>1
<1> QED BY <1>2, <1>4, <1>5 DEF keys

\* A key is a text.
LEMMA KeyIsText ==
    ASSUME Laid, NEW n \in Text
    PROVE  Key(n) \in Text
<1>1. n = Nil \/ n \in Seq(Alphabet)
    BY DEF Text
<1>2. Key(n) = Nil \/ Key(n) \in Seq(Dialled)
    BY <1>1, KeyIsNumber DEF Key, Laid
<1>3. Dialled \subseteq Alphabet
    BY DEF Alphabet
<1> QED BY <1>2, <1>3, SeqMonotonic DEF Text

\* What is displayed is a text with the key of the number.
LEMMA DisplayKeepsKey ==
    ASSUME Laid, NEW n \in Text
    PROVE  /\ displayCallNumber(Conv, n) \in Text
           /\ Key(displayCallNumber(Conv, n)) = Key(n)
<1>1. n = Nil \/ n \in Seq(Alphabet)
    BY DEF Text
<1> QED BY <1>1, DisplayIsDialled DEF Key, Laid, Text

\* Nothing is displayed of no number.
LEMMA DisplayOfNil == displayCallNumber(Conv, Nil) = Nil
BY DEF displayCallNumber, applyFormatFor, callNumber

\* The numbers of a book are texts, and so are their keys.
LEMMA BookTexts ==
    ASSUME Laid, NEW b \in Books, NEW p \in ToSet(People)
    PROVE  b[p] \subseteq Text /\ KeysOf[b][p] \subseteq Text
<1>1. b[p] \subseteq Text
    BY BookAssumption DEF Text
<1>2. KeysOf[b][p] = {Key(n) : n \in b[p]} \ {Nil}
    BY DEF KeysOf
<1> QED BY <1>1, <1>2, KeyIsText

\* The cache of a book maps texts to people.
LEMMA CacheTypes ==
    ASSUME Laid, NEW b \in Books, NEW k \in DOMAIN cachePopulate[b]
    PROVE  k \in Text /\ cachePopulate[b][k] \in ToSet(People)
<1>1. cachePopulate[b][k] \in ToSet(People) /\ k \in KeysOf[b][cachePopulate[b][k]]
    BY OwnerHasKey
<1> QED BY <1>1, BookTexts

\* A lookup finds a person or nobody.
LEMMA FindTypes ==
    ASSUME book \in Books, CacheOfBook, NEW n
    PROVE  findByPhone(n) \in ToSet(People) \cup {NoOne}
<1>1. PICK b \in Books : Cache = cachePopulate[b]
    BY DEF Cache, CacheOfBook
<1>2. \A k : k \in DOMAIN cachePopulate[b] => cachePopulate[b][k] \in ToSet(People)
    BY OwnerHasKey
<1> QED BY <1>1, <1>2 DEF findByPhone

\* fullName is the person's, or nil.
LEMMA FullNameTypes ==
    ASSUME NEW p \in ToSet(People) \cup {NoOne}
    PROVE  fullName(p) \in Names /\ fullName(p) \in {p, Nil} /\ (p = NoOne => fullName(p) = Nil)
BY DEF fullName, Names

\* With the cache of the book, a lookup finds someone who has the number, if anybody has.
LEMMA FindsHolder ==
    ASSUME book \in Books, Fresh, NEW n
    PROVE  /\ findByPhone(n) # NoOne => findByPhone(n) \in Holders(n)
           /\ findByPhone(n) = NoOne => Holders(n) = {}
           /\ findByPhone(n) \in ToSet(People) \cup {NoOne}
<1> DEFINE k == Key(n)
<1>1. Cache = cachePopulate[book]
    BY DEF Cache, Fresh
<1>2. /\ k \in DOMAIN cachePopulate[book] <=> \E p \in ToSet(People) : k \in KeysOf[book][p]
      /\ k \in DOMAIN cachePopulate[book] => /\ cachePopulate[book][k] \in ToSet(People)
                                             /\ k \in KeysOf[book][cachePopulate[book][k]]
    BY OwnerHasKey
<1>3. \A p \in ToSet(People) : Nil \notin KeysOf[book][p]
    BY DEF KeysOf
<1>4. Holders(n) = {p \in ToSet(People) : k # <<>> /\ k \in KeysOf[book][p]}
    BY DEF Holders
<1>5. findByPhone(n) = IF k \notin {Nil, <<>>} /\ k \in DOMAIN cachePopulate[book]
                       THEN cachePopulate[book][k] ELSE NoOne
    BY <1>1 DEF findByPhone
<1>6. NoOne \notin ToSet(People)
    BY BookAssumption
<1> HIDE DEF k
<1>7. CASE k \notin {Nil, <<>>} /\ k \in DOMAIN cachePopulate[book]
    BY <1>2, <1>4, <1>5, <1>6, <1>7
<1>8. CASE k = <<>>
    BY <1>4, <1>5, <1>8
<1>9. CASE k = Nil
    BY <1>3, <1>4, <1>5, <1>9
<1>10. CASE k \notin DOMAIN cachePopulate[book]
    BY <1>2, <1>4, <1>5, <1>10
<1> QED BY <1>7, <1>8, <1>9, <1>10

\* The holders of a number are those of its displayed form.
LEMMA HoldersOfDisplay ==
    ASSUME Laid, NEW n \in Text
    PROVE  Holders(displayCallNumber(Conv, n)) = Holders(n)
BY DisplayKeepsKey DEF Holders

-----------------------------------------------------------------------------
\* Selecting a number.

\* setFromAB: the flag, and a name that is cleared when the flag goes.
LEMMA SetFromAB ==
    ASSUME NEW s \in Selection, NEW f \in BOOLEAN
    PROVE  /\ setFromAB(s, f) \in Selection
           /\ setFromAB(s, f).number = s.number /\ setFromAB(s, f).fromAB = f
           /\ f => setFromAB(s, f).name = s.name
           /\ ~f /\ Unnamed(s) => setFromAB(s, f).name \in {Nil, Empty}
<1>1. Empty \in Names
    BY DEF Names
<1>2. [s EXCEPT !.fromAB = f, !.name = IF f THEN @ ELSE Empty] \in Selection
    BY <1>1 DEF Selection
<1> QED BY <1>2 DEF setFromAB, Unnamed, Selection

\* setSelectedNumber:update: is given a text and leaves a selection.
LEMMA SelectTypes ==
    ASSUME book \in Books, CacheOfBook, NEW s \in Selection, NEW n \in Text
    PROVE  select(s, n) \in Selection /\ select(s, n).number = n
<1> DEFINE p == findByPhone(n)
<1> DEFINE t == [s EXCEPT !.number = n]
<1> DEFINE named == [t EXCEPT !.name = fullName(p)]
<1>1. t \in Selection /\ t.number = n
    BY DEF Selection
<1>2. fullName(p) \in Names
    BY FindTypes, FullNameTypes
<1> HIDE DEF p, t
<1>3. named \in Selection /\ named.number = n
    BY <1>1, <1>2 DEF Selection
<1>4. select(s, n) = IF p # NoOne THEN setFromAB(named, TRUE) ELSE setFromAB(t, FALSE)
    BY DEF select, p, t
<1> HIDE DEF named
<1> QED BY <1>1, <1>3, <1>4, SetFromAB

\* With the cache of the book, fromAB tells whether somebody has the number, and the name
\* is one that can go with it.
LEMMA SelectFromBook ==
    ASSUME book \in Books, Fresh, NEW s \in Selection, NEW n \in Text
    PROVE  /\ select(s, n).fromAB <=> Holders(n) # {}
           /\ Unnamed(s) => Unnamed(select(s, n)) /\ NameFor(select(s, n).name, n)
<1> DEFINE p == findByPhone(n)
<1> DEFINE t == [s EXCEPT !.number = n]
<1> DEFINE named == [t EXCEPT !.name = fullName(p)]
<1>1. t \in Selection /\ (Unnamed(s) => Unnamed(t))
    BY DEF Selection, Unnamed
<1>2. /\ p # NoOne => p \in Holders(n)
      /\ p = NoOne => Holders(n) = {}
      /\ p \in ToSet(People) \cup {NoOne}
    BY FindsHolder
<1>3. fullName(p) \in Names /\ fullName(p) \in {p, Nil}
    BY <1>2, FullNameTypes
<1> HIDE DEF p, t
<1>4. named \in Selection /\ named.name = fullName(p)
    BY <1>1, <1>3 DEF Selection
<1>5. select(s, n) = IF p # NoOne THEN setFromAB(named, TRUE) ELSE setFromAB(t, FALSE)
    BY DEF select, p, t
<1> HIDE DEF named
<1>6. CASE p # NoOne
    <2>1. select(s, n).fromAB = TRUE /\ select(s, n).name = fullName(p)
        BY <1>4, <1>5, <1>6, SetFromAB
    <2>2. p \in Holders(n)
        BY <1>2, <1>6
    <2> QED BY <1>3, <2>1, <2>2 DEF Unnamed, NameFor
<1>7. CASE p = NoOne
    <2>1. /\ select(s, n).fromAB = FALSE
          /\ Unnamed(t) => select(s, n).name \in {Nil, Empty}
        BY <1>1, <1>5, <1>7, SetFromAB
    <2> QED BY <1>1, <1>2, <1>7, <2>1 DEF Unnamed, NameFor
<1> QED BY <1>6, <1>7

\* A completion list is one of texts and names.
IsMatch(m) == \A e \in m : IsText(e.phone) /\ e.name \in Names

\* updateCompletionList makes one.
LEMMA CompletionTypes ==
    ASSUME Laid, book \in Books, CacheOfBook, NEW n, NEW m \in Completions(n)
    PROVE  IsMatch(m)
<1>1. ASSUME NEW x \in Text, NEW p \in ToSet(People) \cup {NoOne},
             NEW e, e = [phone |-> displayCallNumber(Conv, x), name |-> fullName(p)]
      PROVE  IsText(e.phone) /\ e.name \in Names
    <2>1. e.phone = displayCallNumber(Conv, x) /\ e.name = fullName(p)
        BY <1>1
    <2>2. displayCallNumber(Conv, x) \in Text
        BY DisplayKeepsKey
    <2> QED BY <2>1, <2>2, FullNameTypes DEF Text, IsText
<1>2. CASE n \in {Nil, <<>>}
    BY <1>2 DEF Completions, IsMatch
<1>3. CASE n \notin {Nil, <<>>} /\ Key(n) = <<>>
    <2>1. PICK found \in SUBSET ToSet(People) :
              m = UNION {{[phone |-> displayCallNumber(Conv, x), name |-> fullName(p)] : x \in book[p]} :
                             p \in found}
        BY <1>3 DEF Completions
    <2>2. ASSUME NEW e \in m PROVE IsText(e.phone) /\ e.name \in Names
        <3>1. PICK p \in found :
                  e \in {[phone |-> displayCallNumber(Conv, x), name |-> fullName(p)] : x \in book[p]}
            BY <2>1, <2>2
        <3>2. PICK x \in book[p] : e = [phone |-> displayCallNumber(Conv, x), name |-> fullName(p)]
            BY <3>1
        <3>3. x \in Text /\ p \in ToSet(People)
            BY <2>1, <3>1, <3>2, BookTexts
        <3> QED BY <1>1, <3>2, <3>3
    <2> QED BY <2>2 DEF IsMatch
<1>4. CASE n \notin {Nil, <<>>} /\ Key(n) # <<>>
    <2>1. m = Entries({k \in DOMAIN Cache : HasPrefix(k, Key(n))})
        BY <1>4 DEF Completions
    <2>2. PICK b \in Books : Cache = cachePopulate[b]
        BY DEF Cache, CacheOfBook
    <2>3. ASSUME NEW e \in m PROVE IsText(e.phone) /\ e.name \in Names
        <3>1. PICK x \in DOMAIN Cache :
                  e = [phone |-> displayCallNumber(Conv, x), name |-> fullName(findByPhone(x))]
            BY <2>1, <2>3 DEF Entries
        <3>2. x \in Text
            BY <2>2, <3>1, CacheTypes
        <3>3. findByPhone(x) \in ToSet(People) \cup {NoOne}
            BY FindTypes
        <3> QED BY <1>1, <3>1, <3>2, <3>3
    <2> QED BY <2>3 DEF IsMatch
<1> QED BY <1>2, <1>3, <1>4

\* setSelectedNumber: keeps everything, or selects.
LEMMA Outcomes ==
    ASSUME NEW s, NEW n, NEW r \in setSelectedNumber(s, n)
    PROVE  /\ r = [sel |-> r.sel, match |-> r.match, cache |-> r.cache]
           /\ \/ /\ phase \notin Idle \/ n = s.number
                 /\ r.sel = s /\ r.match = matchPhones /\ r.cache = perPhone
              \/ /\ phase \in Idle
                 /\ r.sel = select(s, n) /\ r.match \in Completions(n) /\ r.cache = Cache
BY DEF setSelectedNumber

\* Every outcome is well typed.
LEMMA OutcomeTypes ==
    ASSUME Laid, TypeInv, NEW s \in Selection, NEW n \in Text, NEW r \in setSelectedNumber(s, n)
    PROVE  /\ r.sel \in Selection /\ IsMatch(r.match)
           /\ r.cache \in {Nil} \cup {cachePopulate[b] : b \in Books}
           /\ phase \in Idle => r.sel.number = n
           /\ phase \notin Idle => r.sel = s
<1>1. book \in Books /\ CacheOfBook /\ IsMatch(matchPhones)
    BY DEF TypeInv, TypeOK, IsMatch
<1>2. CASE /\ phase \notin Idle \/ n = s.number
           /\ r.sel = s /\ r.match = matchPhones /\ r.cache = perPhone
    BY <1>1, <1>2 DEF CacheOfBook
<1>3. CASE /\ phase \in Idle
           /\ r.sel = select(s, n) /\ r.match \in Completions(n) /\ r.cache = Cache
    <2>1. r.cache \in {Nil} \cup {cachePopulate[b] : b \in Books}
        BY <1>1, <1>3 DEF Cache, CacheOfBook
    <2> QED BY <1>1, <1>3, <2>1, SelectTypes, CompletionTypes
<1> QED BY <1>2, <1>3, Outcomes

\* With the cache of the book, every outcome keeps it; it has fromAB right if it was, or
\* if the number is new, and so for the name.
LEMMA OutcomeFromBook ==
    ASSUME book \in Books, Fresh, NEW s \in Selection, NEW n \in Text,
           NEW r \in setSelectedNumber(s, n)
    PROVE  /\ r.cache \in {Nil, cachePopulate[book]}
           /\ r.sel = s \/ (r.sel.fromAB <=> Holders(n) # {})
           /\ Unnamed(s) => Unnamed(r.sel) /\ (r.sel = s \/ NameFor(r.sel.name, n))
<1>1. Cache = cachePopulate[book] /\ perPhone \in {Nil, cachePopulate[book]}
    BY DEF Cache, Fresh
<1> QED BY <1>1, Outcomes, SelectFromBook

-----------------------------------------------------------------------------
\* Types.

\* What the actions with Selects keep of the types.
LEMMA SelectsTypes ==
    ASSUME TypeInv, NEW o, Selects(o), o.sel \in Selection, IsMatch(o.match),
           o.cache \in {Nil} \cup {cachePopulate[b] : b \in Books}
    PROVE  /\ sel' \in Selection /\ IsMatch(matchPhones') /\ CacheOfBook'
           /\ book' \in Books /\ abChanged' \in BOOLEAN /\ callingName' \in Names
BY DEF Selects, TypeInv, TypeOK, CacheOfBook, cachePopulate

\* What is left of TypeOK once the selection, the list and the cache have their types.
LEMMA TypesFromParts ==
    ASSUME Laid, phase' \in Phases, sel' \in Selection, callingName' \in Names, book' \in Books,
           CacheOfBook', abChanged' \in BOOLEAN, IsMatch(matchPhones'), alerts' \in Seq(Text),
           ticket' = Nil \/ IsTicket(ticket'),
           \A n \in history' : n \in Text, happened' \subseteq Events, CallHasTicket'
    PROVE  TypeInv'
<1>1. IsText(sel'.number) /\ sel'.name \in Names /\ sel'.fromAB \in BOOLEAN
    BY DEF Selection, Text, IsText
<1>2. perPhone' = Nil \/ (\A k \in DOMAIN perPhone' : IsText(k) /\ perPhone'[k] \in ToSet(People))
    <2>1. CASE perPhone' # Nil
        <3>1. PICK b \in Books : perPhone' = cachePopulate[b]
            BY <2>1 DEF CacheOfBook, cachePopulate
        <3> QED BY <3>1, CacheTypes DEF Text, IsText
    <2> QED BY <2>1
<1>3. \A i \in DOMAIN alerts' : IsText(alerts'[i])
    BY DEF Text, IsText
<1>4. ticket' = Nil \/ (IsText(ticket'.number) /\ ticket'.name \in Names)
    BY DEF IsTicket, Text, IsText
<1>5. \A n \in history' : IsText(n)
    BY DEF Text, IsText
<1>6. TypeOK'
    BY <1>1, <1>2, <1>3, <1>4, <1>5, Zenon DEF TypeOK, IsMatch, IsText, Names, Phases
<1> QED BY <1>6 DEF TypeInv

\* The parts of the state an action leaves alone keep their types.
LEMMA PartsOfTypes ==
    ASSUME TypeInv
    PROVE  /\ phase \in Phases /\ sel \in Selection /\ callingName \in Names /\ book \in Books
           /\ CacheOfBook /\ abChanged \in BOOLEAN /\ IsMatch(matchPhones) /\ alerts \in Seq(Text)
           /\ ticket = Nil \/ IsTicket(ticket)
           /\ \A n \in history : n \in Text
           /\ happened \subseteq Events /\ CallHasTicket
BY DEF TypeInv, TypeOK, IsMatch, IsTicket, IsText, Text

\* The actions that edit the selected number.
LEMMA EditTypes ==
    ASSUME Laid, TypeInv, NEW o, Selects(o), o.sel \in Selection, IsMatch(o.match),
           o.cache \in {Nil} \cup {cachePopulate[b] : b \in Books},
           UNCHANGED <<phase, alerts, ticket, history>>, happened' \subseteq Events
    PROVE  TypeInv'
<1>1. CallHasTicket'
    BY PartsOfTypes DEF CallHasTicket
<1> QED BY <1>1, PartsOfTypes, SelectsTypes, TypesFromParts

\* What the dial pad makes of the selected number is a text.
LEMMA DialPadText ==
    ASSUME TypeInv, dialPad
    PROVE  \E n \in Text : \E r \in setSelectedNumber(sel, n) : Selects(r)
<1> USE PartsOfTypes
<1> DEFINE s == sel.number
<1> DEFINE typed == IF s = Nil THEN {<<k>> : k \in Keys}
                    ELSE IF Len(s) < MaxLen THEN {Append(s, k) : k \in Keys} ELSE {}
<1> DEFINE back == IF s = Nil \/ Len(s) <= 1 THEN Nil ELSE SubSeq(s, 1, Len(s) - 1)
<1>1. s = Nil \/ s \in Seq(Alphabet)
    BY DEF Selection, Text
<1>2. \E n \in typed \cup {back, Nil} : \E r \in setSelectedNumber(sel, n) : Selects(r)
    BY DEF dialPad
<1>3. Keys \subseteq Alphabet
    BY BookAssumption
<1> HIDE DEF s
<1>4. typed \subseteq Text
    <2>1. \A k \in Keys : <<k>> \in Seq(Alphabet)
        BY <1>3
    <2>2. s # Nil => \A k \in Keys : Append(s, k) \in Seq(Alphabet)
        BY <1>1, <1>3
    <2> QED BY <2>1, <2>2 DEF Text
<1>5. back \in Text
    <2>1. CASE s = Nil \/ Len(s) <= 1
        BY <2>1 DEF Text
    <2>2. CASE ~(s = Nil \/ Len(s) <= 1)
        <3>1. SubSeq(s, 1, Len(s) - 1) \in Seq(Alphabet)
            BY <1>1, <2>2
        <3> QED BY <2>2, <3>1 DEF Text
    <2> QED BY <2>1, <2>2
<1>6. Nil \in Text
    BY DEF Text
<1> HIDE DEF typed, back
<1> QED BY <1>2, <1>4, <1>5, <1>6

\* Type correctness is inductive.
LEMMA StepTypes ==
    ASSUME Laid, TypeInv, [Next]_vars
    PROVE  TypeInv'
<1> USE PartsOfTypes
<1>1. CASE Type
    <2>1. PICK n \in Texts \cup {Nil} : \E r \in setSelectedNumber(sel, n) : Selects(r)
        BY <1>1 DEF Type
    <2>r. PICK r \in setSelectedNumber(sel, n) : Selects(r)
        BY <2>1
    <2>2. n \in Text
        BY BookAssumption DEF Text
    <2>3. r.sel \in Selection /\ IsMatch(r.match)
          /\ r.cache \in {Nil} \cup {cachePopulate[b] : b \in Books}
        BY <2>2, OutcomeTypes
    <2> QED BY <1>1, <2>r, <2>3, EditTypes DEF Type
<1>2. CASE dialPad
    <2>1. PICK n \in Text : \E r \in setSelectedNumber(sel, n) : Selects(r)
        BY <1>2, DialPadText
    <2>r. PICK r \in setSelectedNumber(sel, n) : Selects(r)
        BY <2>1
    <2>2. r.sel \in Selection /\ IsMatch(r.match)
          /\ r.cache \in {Nil} \cup {cachePopulate[b] : b \in Books}
        BY OutcomeTypes
    <2> QED BY <1>2, <2>r, <2>2, EditTypes DEF dialPad
<1>3. CASE recordChange
    <2>p. PICK p \in ToSet(People) \cup {NoOne} :
              \E n \in (IF p = NoOne THEN {} ELSE book[p]) \cup {Nil} :
                \E r \in setSelectedNumber(sel, n) :
                  Selects([r EXCEPT !.sel = setFromAB([@ EXCEPT !.name = fullName(p)], TRUE)])
        BY <1>3 DEF recordChange
    <2>n. PICK n \in (IF p = NoOne THEN {} ELSE book[p]) \cup {Nil} :
              \E r \in setSelectedNumber(sel, n) :
                Selects([r EXCEPT !.sel = setFromAB([@ EXCEPT !.name = fullName(p)], TRUE)])
        BY <2>p
    <2>1. PICK r \in setSelectedNumber(sel, n) :
              Selects([r EXCEPT !.sel = setFromAB([@ EXCEPT !.name = fullName(p)], TRUE)])
        BY <2>n
    <2>2. n \in Text
        BY BookTexts DEF Text
    <2>3. /\ r.sel \in Selection /\ IsMatch(r.match)
          /\ r.cache \in {Nil} \cup {cachePopulate[b] : b \in Books}
        BY <2>2, OutcomeTypes
    <2> DEFINE named == [r.sel EXCEPT !.name = fullName(p)]
    <2> DEFINE o == [r EXCEPT !.sel = setFromAB(named, TRUE)]
    <2>4. named \in Selection
        BY <2>3, FullNameTypes DEF Selection
    <2> HIDE DEF named
    <2>5. setFromAB(named, TRUE) \in Selection
        BY <2>4, SetFromAB
    <2>6. o.sel = setFromAB(named, TRUE) /\ o.match = r.match /\ o.cache = r.cache
        BY Outcomes
    <2>7. Selects(o)
        BY <2>1 DEF named
    <2> HIDE DEF o
    <2>8. happened' \subseteq Events /\ UNCHANGED <<phase, alerts, ticket, history>>
        BY <1>3 DEF recordChange, Happens
    <2> QED BY <2>3, <2>5, <2>6, <2>7, <2>8, EditTypes
<1>4. CASE setMatchPhoneSelect
    <2>1. PICK e \in matchPhones : sel' = select(sel, e.phone)
        BY <1>4 DEF setMatchPhoneSelect
    <2>2. e.phone \in Text
        BY DEF IsMatch, IsText, Text
    <2>3. sel' \in Selection
        BY <2>1, <2>2, SelectTypes
    <2>4. CacheOfBook'
        BY <1>4 DEF setMatchPhoneSelect, Cache, CacheOfBook, cachePopulate
    <2>5. CallHasTicket'
        BY <1>4 DEF setMatchPhoneSelect, CallHasTicket
    <2> QED BY <1>4, <2>3, <2>4, <2>5, TypesFromParts DEF setMatchPhoneSelect
<1>5. CASE setSelectedEntries
    <2>1. PICK n \in history : \E r \in setSelectedNumber(sel, n) : Selects(r)
        BY <1>5 DEF setSelectedEntries
    <2>r. PICK r \in setSelectedNumber(sel, n) : Selects(r)
        BY <2>1
    <2>2. n \in Text
        OBVIOUS
    <2>3. r.sel \in Selection /\ IsMatch(r.match)
          /\ r.cache \in {Nil} \cup {cachePopulate[b] : b \in Books}
        BY <2>2, OutcomeTypes
    <2> QED BY <1>5, <2>r, <2>3, EditTypes DEF setSelectedEntries
<1>6. ASSUME makeOutCall(sel.number)
      PROVE  phase' \in {"call", "registered"} /\ IsTicket(ticket')
    <2>1. displayCallNumber(Conv, sel.number) \in Text /\ sel.name \in Names
        BY DisplayKeepsKey DEF Selection
    <2> QED BY <1>6, <2>1 DEF makeOutCall, IsTicket
<1>7. ASSUME dialOutCall
      PROVE  phase' \in Phases /\ (ticket' = Nil \/ IsTicket(ticket')) /\ CallHasTicket'
    <2>1. CASE phase = "registered" /\ makeOutCall(sel.number)
        BY <1>6, <2>1 DEF Phases, CallHasTicket
    <2>2. CASE phase = "ondemand" /\ phase' = "tocall" /\ UNCHANGED ticket
        BY <2>2 DEF Phases, CallHasTicket
    <2>3. CASE phase \notin Ready /\ UNCHANGED <<phase, ticket>>
        BY <2>3 DEF CallHasTicket
    <2> QED BY <1>7, <2>1, <2>2, <2>3 DEF dialOutCall
<1>8. CASE Dial
    <2>1. CacheOfBook'
        BY <1>8 DEF Dial, CacheOfBook, cachePopulate
    <2> QED BY <1>7, <1>8, <2>1, TypesFromParts DEF Dial
<1>9. CASE dialFromUrlEvent
    <2> DEFINE named(n) == IF fullName(findByPhone(n)) # Nil
                           THEN [sel EXCEPT !.name = fullName(findByPhone(n))] ELSE sel
    <2>1. PICK n \in Texts : /\ \E r \in setSelectedNumber(named(n), n) : Selects(r)
                             /\ alerts' = IF phase \in Ready THEN Append(alerts, n) ELSE alerts
        BY <1>9 DEF dialFromUrlEvent
    <2>2. n \in Text
        BY BookAssumption DEF Text
    <2>3. named(n) \in Selection
        BY FindTypes, FullNameTypes DEF Selection
    <2> HIDE DEF named
    <2>4. PICK r \in setSelectedNumber(named(n), n) : Selects(r)
        BY <2>1
    <2>5. r.sel \in Selection /\ IsMatch(r.match)
          /\ r.cache \in {Nil} \cup {cachePopulate[b] : b \in Books}
        BY <2>2, <2>3, OutcomeTypes
    <2>6. alerts' \in Seq(Text)
        BY <2>1, <2>2
    <2>7. happened' \subseteq Events
        BY <1>9 DEF dialFromUrlEvent, Happens
    <2>8. CallHasTicket'
        BY <1>9 DEF dialFromUrlEvent, CallHasTicket
    <2> QED BY <1>9, <2>4, <2>5, <2>6, <2>7, <2>8, SelectsTypes, TypesFromParts DEF dialFromUrlEvent
<1>10. CASE dialFromUrlResponse
    <2>1. CacheOfBook'
        BY <1>10 DEF dialFromUrlResponse, CacheOfBook, cachePopulate
    <2>2. alerts' \in Seq(Text)
        BY <1>10 DEF dialFromUrlResponse
    <2>3. phase' \in Phases /\ (ticket' = Nil \/ IsTicket(ticket')) /\ CallHasTicket'
        BY <1>7, <1>10 DEF dialFromUrlResponse, CallHasTicket
    <2> QED BY <1>10, <2>1, <2>2, <2>3, TypesFromParts DEF dialFromUrlResponse
<1>11. CASE setCallingNumber
    <2>1. PICK n \in Texts :
              /\ callingName' = fullName(findByPhone(n))
              /\ ticket' = [number |-> displayCallNumber(Conv, n), name |-> callingName']
        BY <1>11 DEF setCallingNumber
    <2>2. n \in Text
        BY BookAssumption DEF Text
    <2>3. callingName' \in Names
        BY <2>1, FindTypes, FullNameTypes
    <2>4. displayCallNumber(Conv, n) \in Text
        BY <2>2, DisplayKeepsKey
    <2>5. IsTicket(ticket')
        BY <2>1, <2>3, <2>4 DEF IsTicket
    <2>6. CacheOfBook'
        BY <1>11 DEF setCallingNumber, Cache, CacheOfBook, cachePopulate
    <2>7. phase' \in Phases /\ CallHasTicket'
        BY <1>11, <2>5 DEF setCallingNumber, Phases, CallHasTicket
    <2> QED BY <1>11, <2>3, <2>5, <2>6, <2>7, TypesFromParts DEF setCallingNumber
<1>12. CASE acceptCall
    <2>1. PICK r \in setSelectedNumber(sel, ticket.number) :
              Selects([r EXCEPT !.sel.name = callingName])
        BY <1>12 DEF acceptCall
    <2>2. phase \notin Idle /\ IsTicket(ticket)
        BY <1>12 DEF acceptCall, Idle, CallHasTicket
    <2>3. /\ r.sel = sel /\ IsMatch(r.match)
          /\ r.cache \in {Nil} \cup {cachePopulate[b] : b \in Books}
        BY <2>2, OutcomeTypes DEF IsTicket
    <2> DEFINE o == [r EXCEPT !.sel.name = callingName]
    <2>4. o.sel = [sel EXCEPT !.name = callingName] /\ o.match = r.match /\ o.cache = r.cache
        BY <2>3, Outcomes
    <2>5. o.sel \in Selection
        BY <2>4 DEF Selection
    <2>6. Selects(o)
        BY <2>1
    <2> HIDE DEF o
    <2>7. happened' \subseteq Events
        BY <1>12 DEF acceptCall, Happens
    <2>8. phase' \in Phases /\ CallHasTicket'
        BY <1>12, <2>2 DEF acceptCall, Phases, CallHasTicket
    <2> QED BY <1>12, <2>3, <2>4, <2>5, <2>6, <2>7, <2>8, SelectsTypes, TypesFromParts DEF acceptCall
<1>13. CASE EndCall
    <2>1. CacheOfBook'
        BY <1>13 DEF EndCall, CacheOfBook, cachePopulate
    <2>2. IsTicket(ticket)
        BY <1>13 DEF EndCall, CallHasTicket
    <2>3. \A n \in history' : n \in Text
        BY <1>13, <2>2 DEF EndCall, IsTicket
    <2>4. phase' \in Phases /\ CallHasTicket'
        BY <1>13 DEF EndCall, Phases, CallHasTicket
    <2> QED BY <1>13, <2>1, <2>3, <2>4, TypesFromParts DEF EndCall
<1>14. CASE Registration
    <2>1. CacheOfBook'
        BY <1>14 DEF Registration, CacheOfBook, cachePopulate
    <2>2. phase' \in Phases /\ (ticket' = Nil \/ IsTicket(ticket')) /\ CallHasTicket'
        <3>1. CASE phase = "tocall" /\ makeOutCall(sel.number)
            BY <1>6, <3>1 DEF Phases, CallHasTicket
        <3>2. CASE UNCHANGED ticket /\ phase' \in Idle \cup {"moving"}
            BY <3>2 DEF Phases, Idle, CallHasTicket
        <3> QED BY <1>14, <3>1, <3>2 DEF Registration, Idle
    <2> QED BY <1>14, <2>1, <2>2, TypesFromParts DEF Registration
<1>15. CASE EditBook
    <2>1. CacheOfBook' /\ CallHasTicket'
        BY <1>15 DEF EditBook, CacheOfBook, cachePopulate, CallHasTicket
    <2>2. happened' \subseteq Events
        BY <1>15 DEF EditBook, Happens
    <2> QED BY <1>15, <2>1, <2>2, TypesFromParts DEF EditBook
<1>16. CASE _abChanged
    <2>1. CacheOfBook' /\ CallHasTicket'
        BY <1>16 DEF _abChanged, CacheOfBook, CallHasTicket
    <2> QED BY <1>16, <2>1, TypesFromParts DEF _abChanged
<1>17. CASE UNCHANGED vars
    <2>1. CacheOfBook' /\ CallHasTicket'
        BY <1>17 DEF vars, CacheOfBook, cachePopulate, CallHasTicket
    <2> QED BY <1>17, <2>1, TypesFromParts DEF vars
<1> QED BY <1>1, <1>2, <1>3, <1>4, <1>5, <1>8, <1>9, <1>10, <1>11, <1>12, <1>13, <1>14, <1>15,
           <1>16, <1>17 DEF Next

\* And it holds at the start.
LEMMA InitTypes ==
    ASSUME Laid, Init
    PROVE  TypeInv
<1>1. sel \in Selection /\ IsText(sel.number) /\ sel.name \in Names /\ sel.fromAB \in BOOLEAN
    BY DEF Init, Selection, Text, Names, IsText
<1>2. book \in Books /\ CacheOfBook
      /\ \A k \in DOMAIN perPhone : IsText(k) /\ perPhone[k] \in ToSet(People)
    BY CacheTypes DEF Init, CacheOfBook, IsText, Text
<1>3. phase \in Phases /\ CallHasTicket /\ callingName \in Names
    BY DEF Init, Phases, CallHasTicket, Names
<1>4. alerts \in Seq(Text) /\ \A i \in DOMAIN alerts : IsText(alerts[i])
    BY EmptySeq DEF Init
<1>5. abChanged \in BOOLEAN /\ happened \subseteq Events
    BY DEF Init
<1>6. matchPhones = {} /\ ticket = Nil /\ history = {}
    BY DEF Init
<1>7. TypeOK
    BY <1>1, <1>2, <1>3, <1>4, <1>5, <1>6, Zenon DEF TypeOK
<1> QED BY <1>1, <1>2, <1>3, <1>4, <1>7 DEF TypeInv

\* Every part of the state keeps its type, whatever the address book and the texts.
THEOREM SelectionTypes ==
    ASSUME Laid
    PROVE  Spec => []TypeOK
<1>1. (TypeInv /\ [Next]_vars => TypeInv') /\ (Init => TypeInv)
    BY StepTypes, InitTypes
<1>2. Spec => []TypeInv
    BY <1>1, PTL DEF Spec
<1>3. TypeInv => TypeOK
    BY DEF TypeInv
<1> QED BY <1>2, <1>3, PTL

-----------------------------------------------------------------------------
\* The cache.

\* Only EditBook and _abChanged touch the book and the notification; the other actions
\* use the cache, which fills it when it was dropped.
LEMMA CacheUse ==
    ASSUME [Next]_vars
    PROVE  \/ EditBook \/ _abChanged
           \/ UNCHANGED <<book, abChanged>> /\ perPhone' \in {perPhone, Cache}
<1>1. ASSUME NEW s, NEW n, NEW r \in setSelectedNumber(s, n), NEW o, o.cache = r.cache, Selects(o)
      PROVE  UNCHANGED <<book, abChanged>> /\ perPhone' \in {perPhone, Cache}
    BY <1>1, Outcomes DEF Selects
<1>2. CASE Type
    BY <1>1, <1>2 DEF Type
<1>3. CASE dialPad
    BY <1>1, <1>3 DEF dialPad
<1>4. CASE recordChange
    <2>1. PICK p, n : \E r \in setSelectedNumber(sel, n) :
              Selects([r EXCEPT !.sel = setFromAB([@ EXCEPT !.name = fullName(p)], TRUE)])
        BY <1>4 DEF recordChange
    <2>2. PICK r \in setSelectedNumber(sel, n) :
              Selects([r EXCEPT !.sel = setFromAB([@ EXCEPT !.name = fullName(p)], TRUE)])
        BY <2>1
    <2> DEFINE o == [r EXCEPT !.sel = setFromAB([@ EXCEPT !.name = fullName(p)], TRUE)]
    <2>3. o.cache = r.cache
        BY Outcomes
    <2>4. Selects(o)
        BY <2>2
    <2> HIDE DEF o
    <2> QED BY <1>1, <2>3, <2>4
<1>5. CASE setMatchPhoneSelect
    BY <1>5 DEF setMatchPhoneSelect
<1>6. CASE setSelectedEntries
    BY <1>1, <1>6 DEF setSelectedEntries
<1>7. CASE Dial
    BY <1>7 DEF Dial
<1>8. CASE dialFromUrlEvent
    BY <1>1, <1>8 DEF dialFromUrlEvent
<1>9. CASE dialFromUrlResponse
    BY <1>9 DEF dialFromUrlResponse
<1>10. CASE setCallingNumber
    BY <1>10 DEF setCallingNumber
<1>11. CASE acceptCall
    <2>1. PICK r \in setSelectedNumber(sel, ticket.number) :
              Selects([r EXCEPT !.sel.name = callingName])
        BY <1>11 DEF acceptCall
    <2> DEFINE o == [r EXCEPT !.sel.name = callingName]
    <2>2. o.cache = r.cache
        BY Outcomes
    <2>3. Selects(o)
        BY <2>1
    <2> HIDE DEF o
    <2> QED BY <1>1, <2>2, <2>3
<1>12. CASE EndCall
    BY <1>12 DEF EndCall
<1>13. CASE Registration
    BY <1>13 DEF Registration
<1>14. CASE UNCHANGED vars
    BY <1>14 DEF vars
<1> QED BY <1>2, <1>3, <1>4, <1>5, <1>6, <1>7, <1>8, <1>9, <1>10, <1>11, <1>12, <1>13, <1>14 DEF Next

\* Events are not forgotten.
LEMMA EventsStay ==
    ASSUME [Next]_vars
    PROVE  happened \subseteq happened' /\ (EditBook => "book" \in happened')
BY DEF Next, vars, Type, dialPad, recordChange, setMatchPhoneSelect, setSelectedEntries, Dial,
       dialFromUrlEvent, dialFromUrlResponse, setCallingNumber, acceptCall, EndCall, Registration,
       EditBook, _abChanged, Happens

\* The cache stays the one of the book.
LEMMA CacheStep ==
    ASSUME CacheFresh, BookInv, [Next]_vars
    PROVE  /\ CacheFresh' /\ BookInv'
           /\ "book" \notin happened' => UNCHANGED book /\ "book" \notin happened /\ Fresh
<1>1. happened \subseteq happened' /\ (EditBook => "book" \in happened')
    BY EventsStay
<1>2. CASE EditBook
    BY <1>1, <1>2 DEF EditBook, CacheFresh, BookInv
<1>3. CASE _abChanged
    BY <1>1, <1>3 DEF _abChanged, CacheFresh, BookInv, Fresh, cachePopulate
<1>4. CASE UNCHANGED <<book, abChanged>> /\ perPhone' \in {perPhone, Cache}
    <2>1. cachePopulate[book'] = cachePopulate[book]
        BY <1>4
    <2>2. Fresh => perPhone' \in {Nil, cachePopulate[book]}
        BY <1>4 DEF Fresh, Cache
    <2>3. CacheFresh'
        BY <1>4, <2>1, <2>2 DEF CacheFresh, Fresh, cachePopulate
    <2>4. BookInv'
        BY <1>1, <1>4, <2>1, <2>2 DEF BookInv, Fresh, cachePopulate
    <2> QED BY <1>1, <1>4, <2>3, <2>4 DEF BookInv
<1> QED BY <1>2, <1>3, <1>4, CacheUse

\* A lookup with no change notification on its way sees the address book as it is.
THEOREM CacheIsFresh == Spec => []CacheFresh
<1>1. Init => CacheFresh /\ BookInv
    BY DEF Init, CacheFresh, BookInv, Fresh
<1>2. CacheFresh /\ BookInv /\ [Next]_vars => (CacheFresh /\ BookInv)'
    BY CacheStep
<1> QED BY <1>1, <1>2, PTL DEF Spec

-----------------------------------------------------------------------------
\* The selected number and its name.

\* An outcome of setSelectedNumber: is right when the selection was.
LEMMA OutcomeRight ==
    ASSUME Laid, TypeInv, Fresh, NEW s \in Selection, NEW n \in Text,
           NEW r \in setSelectedNumber(s, n)
    PROVE  /\ Right(book, s) => Right(book, r.sel)
           /\ Named(book, s) => Named(book, r.sel)
<1>1. book \in Books
    BY DEF TypeInv, TypeOK
<1>2. CASE r.sel = s
    BY <1>2
<1>3. CASE r.sel # s
    <2>1. r.sel.number = n
        BY <1>3, OutcomeTypes
    <2>2. /\ r.sel.fromAB <=> Holders(n) # {}
          /\ Unnamed(s) => Unnamed(r.sel) /\ NameFor(r.sel.name, n)
        BY <1>1, <1>3, OutcomeFromBook
    <2>3. Holders(n) = Holding(book, n)
        BY DEF Holders, Holding
    <2> QED BY <2>1, <2>2, <2>3 DEF Right, Named, NameFor, Fits
<1> QED BY <1>2, <1>3

\* What the book says of a selection does not change while the book does not.
LEMMA SelKept ==
    ASSUME SelInv, CacheFresh, BookInv, [Next]_vars, sel' = sel
    PROVE  SelInv'
<1>1. happened \subseteq happened' /\ ("book" \notin happened' => UNCHANGED book)
    BY EventsStay, CacheStep
<1>2. ASSUME Unpicked(happened') PROVE Right(book', sel')
    BY <1>1, <1>2 DEF SelInv, Unpicked
<1>3. ASSUME happened' \subseteq {"urls"} PROVE Named(book', sel')
    BY <1>1, <1>3 DEF SelInv, Unpicked
<1> QED BY <1>2, <1>3 DEF SelInv, Right, Named, Unnamed, Fits, Holding, KeysOf

\* Nor of the ticket.
LEMMA TicketKept ==
    ASSUME TicketInv, CacheFresh, BookInv, [Next]_vars, ticket' = ticket
    PROVE  TicketInv'
<1>1. happened \subseteq happened' /\ ("book" \notin happened' => UNCHANGED book)
    BY EventsStay, CacheStep
<1>2. ASSUME happened' \subseteq {"urls"} PROVE Calls(book', ticket')
    BY <1>1, <1>2 DEF TicketInv
<1> QED BY <1>2 DEF TicketInv, Calls, Fits, Holding, KeysOf

\* The actions that select a number.
LEMMA EditRight ==
    ASSUME Laid, TypeInv, SelInv, CacheFresh, BookInv, [Next]_vars, NEW n \in Text,
           NEW r \in setSelectedNumber(sel, n), sel' = r.sel
    PROVE  SelInv'
<1>1. happened \subseteq happened' /\ ("book" \notin happened' => UNCHANGED book /\ Fresh)
    BY EventsStay, CacheStep
<1>2. sel \in Selection
    BY PartsOfTypes
<1>3. ASSUME Unpicked(happened') PROVE Right(book', sel')
    <2>1. Right(book, sel)
        BY <1>1, <1>3 DEF SelInv, Unpicked
    <2> QED BY <1>1, <1>2, <1>3, <2>1, OutcomeRight DEF Unpicked
<1>4. ASSUME happened' \subseteq {"urls"} PROVE Named(book', sel')
    <2>1. Named(book, sel)
        BY <1>1, <1>4 DEF SelInv, Unpicked
    <2> QED BY <1>1, <1>2, <1>4, <2>1, OutcomeRight
<1> QED BY <1>3, <1>4 DEF SelInv, Right, Named, Unnamed, Fits, Holding, KeysOf

\* The address book picker while the phone is idle: the person it shows has the number.
LEMMA PickerRight ==
    ASSUME Laid, Keyed, TypeInv, recordChange, phase \in Idle
    PROVE  SelInv'
<1>p. PICK p \in ToSet(People) \cup {NoOne} :
          \E n \in (IF p = NoOne THEN {} ELSE book[p]) \cup {Nil} :
            \E r \in setSelectedNumber(sel, n) :
              Selects([r EXCEPT !.sel = setFromAB([@ EXCEPT !.name = fullName(p)], TRUE)])
    BY DEF recordChange
<1>n. PICK n \in (IF p = NoOne THEN {} ELSE book[p]) \cup {Nil} :
          \E r \in setSelectedNumber(sel, n) :
            Selects([r EXCEPT !.sel = setFromAB([@ EXCEPT !.name = fullName(p)], TRUE)])
    BY <1>p
<1>1. PICK r \in setSelectedNumber(sel, n) :
          Selects([r EXCEPT !.sel = setFromAB([@ EXCEPT !.name = fullName(p)], TRUE)])
    BY <1>n
<1>2. book \in Books /\ sel \in Selection
    BY PartsOfTypes
<1>3. n \in Text
    BY <1>2, BookTexts DEF Text
<1>5. r.sel \in Selection /\ r.sel.number = n
    BY <1>2, <1>3, OutcomeTypes
<1> DEFINE named == [r.sel EXCEPT !.name = fullName(p)]
<1>6. named \in Selection /\ named.number = n /\ named.name = fullName(p)
    BY <1>5, FullNameTypes DEF Selection
<1>7. sel' = setFromAB(named, TRUE)
    <2>1. r = [sel |-> r.sel, match |-> r.match, cache |-> r.cache]
        BY Outcomes
    <2> QED BY <1>1, <2>1 DEF Selects
<1> HIDE DEF named
<1>8. sel'.number = n /\ sel'.fromAB = TRUE /\ sel'.name = fullName(p)
    BY <1>6, <1>7, SetFromAB
<1>9. n # Nil => p \in Holding(book, n)
    <2>1. SUFFICES ASSUME n # Nil PROVE p \in Holding(book, n)
        OBVIOUS
    <2>2. p \in ToSet(People) /\ n \in book[p]
        BY <2>1
    <2>3. Key(n) # Nil /\ Key(n) # <<>>
        BY <1>2, <2>2 DEF Keyed
    <2>4. Key(n) \in KeysOf[book][p]
        BY <1>2, <2>2, <2>3 DEF KeysOf
    <2> QED BY <2>2, <2>3, <2>4 DEF Holding
<1>10. fullName(p) \in {p, Nil}
    BY FullNameTypes
<1>11. UNCHANGED book
    BY <1>1 DEF Selects
<1>12. Right(book', sel') /\ Named(book', sel')
    BY <1>8, <1>9, <1>10, <1>11 DEF Right, Named, Unnamed, Fits
<1> QED BY <1>12 DEF SelInv, Right, Named, Unnamed, Fits, Holding, KeysOf

\* A URL: the name that is taken before the number is that of the number.
LEMMA UrlRight ==
    ASSUME Laid, TypeInv, SelInv, CacheFresh, BookInv, [Next]_vars, dialFromUrlEvent
    PROVE  SelInv'
<1> DEFINE known(n) == fullName(findByPhone(n))
<1> DEFINE named(n) == IF known(n) # Nil THEN [sel EXCEPT !.name = known(n)] ELSE sel
<1>1. PICK n \in Texts : \E r \in setSelectedNumber(named(n), n) : Selects(r)
    BY DEF dialFromUrlEvent
<1>2. PICK r \in setSelectedNumber(named(n), n) : Selects(r)
    BY <1>1
<1>3. book \in Books /\ sel \in Selection /\ CacheOfBook
    BY PartsOfTypes
<1>4. n \in Text
    BY BookAssumption DEF Text
<1>5. known(n) \in Names
    BY <1>3, FindTypes, FullNameTypes
<1> HIDE DEF known
<1>6. /\ named(n) \in Selection
      /\ named(n).number = sel.number /\ named(n).fromAB = sel.fromAB
      /\ named(n).name = IF known(n) # Nil THEN known(n) ELSE sel.name
    BY <1>3, <1>5 DEF Selection
<1> HIDE DEF named
<1>7. sel' = r.sel /\ UNCHANGED book
    BY <1>2 DEF Selects
<1>8. happened \subseteq happened' /\ ("book" \notin happened' => Fresh)
    BY EventsStay, CacheStep
<1>9. ASSUME Unpicked(happened') PROVE Right(book', sel')
    <2>1. Right(book, sel)
        BY <1>8, <1>9 DEF SelInv, Unpicked
    <2>2. Right(book, named(n))
        BY <1>6, <2>1 DEF Right
    <2> QED BY <1>4, <1>6, <1>7, <1>8, <1>9, <2>2, OutcomeRight DEF Unpicked
<1>10. ASSUME happened' \subseteq {"urls"} PROVE Named(book', sel')
    <2>1. Named(book, sel) /\ Right(book, sel) /\ Fresh
        BY <1>8, <1>10 DEF SelInv, Unpicked
    <2>2. phase \in Idle
        BY <1>10 DEF dialFromUrlEvent, Happens
    <2>3. CASE known(n) = Nil
        <3>1. Named(book, named(n))
            BY <1>6, <2>1, <2>3 DEF Named, Unnamed
        <3> QED BY <1>4, <1>6, <1>7, <2>1, <3>1, OutcomeRight
    <2>4. CASE known(n) # Nil
        <3>1. findByPhone(n) \in Holders(n) /\ known(n) = findByPhone(n)
            <4>1. findByPhone(n) \in ToSet(People) \cup {NoOne}
                BY <1>3, FindTypes
            <4>2. known(n) \in {findByPhone(n), Nil} /\ findByPhone(n) # NoOne
                BY <2>4, <4>1, FullNameTypes DEF known
            <4> QED BY <1>3, <2>1, <2>4, <4>2, FindsHolder
        <3>2. known(n) \in Holding(book, n)
            BY <3>1 DEF Holders, Holding
        <3>3. CASE r.sel = named(n)
            <4>1. r.sel.number = n
                BY <1>4, <1>6, <2>2, OutcomeTypes
            <4>2. sel.number = n
                BY <1>6, <3>3, <4>1
            <4>3. n # Nil
                <5>1. Nil \notin {Key(n)}
                    BY <3>1, <1>3 DEF Holders, KeysOf
                <5> QED BY <5>1 DEF Key, internationalCallNumber, callNumber, HasPrefix
            <4>4. sel.fromAB
                BY <2>1, <3>2, <4>2, <4>3 DEF Right
            <4> QED BY <1>6, <1>7, <2>4, <3>2, <3>3, <4>1, <4>4 DEF Named, Unnamed, Fits
        <3>4. CASE r.sel # named(n)
            <4>1. r.sel = select(named(n), n)
                BY <3>4, Outcomes
            <4>2. r.sel.fromAB = TRUE /\ r.sel.name = known(n) /\ r.sel.number = n
                <5> DEFINE t == [named(n) EXCEPT !.number = n]
                <5> DEFINE u == [t EXCEPT !.name = known(n)]
                <5>1. findByPhone(n) # NoOne
                    BY <3>1, BookAssumption DEF Holders
                <5>2. r.sel = setFromAB(u, TRUE)
                    BY <4>1, <5>1 DEF select, known
                <5>3. u \in Selection /\ u.name = known(n) /\ u.number = n
                    BY <1>4, <1>5, <1>6 DEF Selection
                <5> HIDE DEF u
                <5> QED BY <5>2, <5>3, SetFromAB
            <4> QED BY <1>7, <3>2, <4>2 DEF Named, Unnamed, Fits
        <3> QED BY <3>3, <3>4
    <2> QED BY <2>3, <2>4
<1> QED BY <1>9, <1>10 DEF SelInv, Right, Named, Unnamed, Fits, Holding, KeysOf

\* Every step keeps fromAB and the name right.
LEMMA SelStep ==
    ASSUME Laid, Keyed, TypeInv, SelInv, CacheFresh, BookInv, [Next]_vars
    PROVE  SelInv'
<1>1. CASE Type
    <2>1. PICK n \in Texts \cup {Nil} : \E r \in setSelectedNumber(sel, n) : Selects(r)
        BY <1>1 DEF Type
    <2>2. n \in Text
        BY BookAssumption DEF Text
    <2> QED BY <2>1, <2>2, EditRight DEF Selects
<1>2. CASE dialPad
    BY <1>2, DialPadText, EditRight DEF Selects
<1>3. CASE recordChange
    <2>1. CASE phase \notin Idle
        BY <1>3, <2>1 DEF recordChange, Happens, SelInv, Unpicked
    <2> QED BY <1>3, <2>1, PickerRight
<1>4. CASE setMatchPhoneSelect
    <2>1. PICK e \in matchPhones : sel' = select(sel, e.phone)
        BY <1>4 DEF setMatchPhoneSelect
    <2>2. e.phone \in Text /\ book \in Books /\ sel \in Selection /\ CacheOfBook
        BY PartsOfTypes DEF IsMatch, IsText, Text
    <2>3. happened' = happened /\ UNCHANGED book
        BY <1>4 DEF setMatchPhoneSelect
    <2>4. sel'.number = e.phone
        BY <2>1, <2>2, SelectTypes
    <2>5. Holders(e.phone) = Holding(book, e.phone)
        BY DEF Holders, Holding
    <2>6. ASSUME Unpicked(happened') PROVE Right(book', sel')
        <3>1. Fresh
            BY <2>6, CacheStep DEF Unpicked
        <3>2. sel'.fromAB <=> Holders(e.phone) # {}
            BY <2>1, <2>2, <3>1, SelectFromBook
        <3> QED BY <2>3, <2>4, <2>5, <3>2 DEF Right
    <2>7. ASSUME happened' \subseteq {"urls"} PROVE Named(book', sel')
        <3>1. Fresh /\ Unnamed(sel)
            BY <2>3, <2>7, CacheStep DEF SelInv, Named, Unpicked
        <3>2. Unnamed(sel') /\ NameFor(select(sel, e.phone).name, e.phone)
            BY <2>1, <2>2, <3>1, SelectFromBook
        <3> QED BY <2>1, <2>3, <2>4, <2>5, <3>2 DEF Named, NameFor, Fits
    <2> QED BY <2>6, <2>7 DEF SelInv, Right, Named, Unnamed, Fits, Holding, KeysOf
<1>5. CASE setSelectedEntries
    <2>1. PICK n \in history : \E r \in setSelectedNumber(sel, n) : Selects(r)
        BY <1>5 DEF setSelectedEntries
    <2>2. n \in Text
        BY PartsOfTypes
    <2> QED BY <2>1, <2>2, EditRight DEF Selects
<1>6. CASE dialFromUrlEvent
    BY <1>6, UrlRight
<1>7. CASE acceptCall
    <2>1. PICK r \in setSelectedNumber(sel, ticket.number) :
              Selects([r EXCEPT !.sel.name = callingName])
        BY <1>7 DEF acceptCall
    <2>2. phase \notin Idle
        BY <1>7 DEF acceptCall, Idle
    <2>3. r.sel = sel /\ r = [sel |-> r.sel, match |-> r.match, cache |-> r.cache]
        BY <2>2, Outcomes
    <2>4. sel' = [sel EXCEPT !.name = callingName] /\ UNCHANGED book
        BY <2>1, <2>3 DEF Selects
    <2>5. sel'.number = sel.number /\ sel'.fromAB = sel.fromAB
        BY <2>4, PartsOfTypes DEF Selection
    <2>6. happened \subseteq happened' /\ "answer" \in happened'
        BY <1>7 DEF acceptCall, Happens
    <2>7. ASSUME Unpicked(happened') PROVE Right(book', sel')
        BY <2>4, <2>5, <2>6, <2>7 DEF SelInv, Right, Unpicked
    <2> QED BY <2>6, <2>7 DEF SelInv, Right, Holding, KeysOf
<1>8. CASE sel' = sel
    BY <1>8, SelKept
<1> QED BY <1>1, <1>2, <1>3, <1>4, <1>5, <1>6, <1>7, <1>8 DEF Next, vars, Dial,
           dialFromUrlResponse, setCallingNumber, EndCall, Registration, EditBook, _abChanged

-----------------------------------------------------------------------------
\* The name on the ticket.

\* makeOutCall gives the history the number that is dialled and the selected name.
LEMMA OutCallTicket ==
    ASSUME Laid, TypeInv, makeOutCall(sel.number)
    PROVE  /\ Key(ticket'.number) = Key(sel.number)
           /\ Named(book, sel) => Calls(book, ticket')
<1> DEFINE n == sel.number
<1> DEFINE d == displayCallNumber(Conv, n)
<1>1. n \in Text
    BY PartsOfTypes DEF Selection
<1>2. ticket'.number = d /\ ticket'.name = sel.name
    BY DEF makeOutCall
<1>3. Key(d) = Key(n)
    BY <1>1, DisplayKeepsKey
<1>4. d # Nil => n # Nil
    BY DisplayOfNil
<1> HIDE DEF d
<1>5. Holding(book, d) = Holding(book, n)
    BY <1>3 DEF Holding
<1> QED BY <1>2, <1>3, <1>4, <1>5 DEF Named, Calls, Fits

\* Every step names the right party on the ticket.
LEMMA TicketStep ==
    ASSUME Laid, TypeInv, SelInv, TicketInv, CacheFresh, BookInv, [Next]_vars
    PROVE  TicketInv'
<1>1. happened \subseteq happened' /\ ("book" \notin happened' => UNCHANGED book /\ Fresh)
    BY EventsStay, CacheStep
<1>2. CASE makeOutCall(sel.number)
    <2>1. ASSUME happened' \subseteq {"urls"} PROVE Calls(book', ticket')
        <3>1. Named(book, sel) /\ book' = book
            BY <1>1, <2>1 DEF SelInv
        <3> QED BY <1>2, <3>1, OutCallTicket
    <2> QED BY <2>1 DEF TicketInv, Calls, Fits, Holding, KeysOf
<1>3. CASE setCallingNumber
    <2>1. PICK n \in Texts :
              ticket' = [number |-> displayCallNumber(Conv, n), name |-> fullName(findByPhone(n))]
        BY <1>3 DEF setCallingNumber
    <2>2. n \in Text /\ book \in Books
        BY BookAssumption, PartsOfTypes DEF Text
    <2>3. ASSUME happened' \subseteq {"urls"} PROVE Calls(book', ticket')
        <3>1. Fresh /\ book' = book
            BY <1>1, <2>3
        <3>2. /\ findByPhone(n) # NoOne => findByPhone(n) \in Holders(n)
              /\ findByPhone(n) \in ToSet(People) \cup {NoOne}
            BY <2>2, <3>1, FindsHolder
        <3>3. /\ fullName(findByPhone(n)) \in {findByPhone(n), Nil}
              /\ findByPhone(n) = NoOne => fullName(findByPhone(n)) = Nil
            BY <3>2, FullNameTypes
        <3>4. Holding(book, displayCallNumber(Conv, n)) = Holders(n)
            BY <2>2, DisplayKeepsKey DEF Holding, Holders
        <3>5. ticket'.number = displayCallNumber(Conv, n) /\ ticket'.name = fullName(findByPhone(n))
            BY <2>1
        <3> QED BY <3>1, <3>2, <3>3, <3>4, <3>5 DEF Calls, Fits
    <2> QED BY <2>3 DEF TicketInv, Calls, Fits, Holding, KeysOf
<1>4. CASE ticket' = ticket
    BY <1>4, TicketKept
<1>5. CASE EndCall
    BY <1>5 DEF EndCall, TicketInv, Calls
<1> QED BY <1>2, <1>3, <1>4, <1>5 DEF Next, vars, Type, dialPad, recordChange, setMatchPhoneSelect,
           setSelectedEntries, Dial, dialOutCall, dialFromUrlEvent, dialFromUrlResponse, acceptCall,
           Registration, EditBook, _abChanged

-----------------------------------------------------------------------------
\* The number of a question.

\* A question covers the view, so the selected number stays the one it shows.
LEMMA AskedStep ==
    ASSUME Laid, TypeInv, AskedInv, [Next]_vars
    PROVE  AskedInv'
<1>1. alerts \in Seq(Text) /\ sel \in Selection /\ book \in Books /\ CacheOfBook
    BY PartsOfTypes
<1>2. CASE alerts' = <<>>
    BY <1>2 DEF AskedInv
<1>3. CASE alerts' = alerts /\ alerts # <<>> /\ sel'.number = sel.number
    <2>1. happened \subseteq happened'
        BY EventsStay
    <2> QED BY <1>3, <2>1 DEF AskedInv
<1>4. CASE Type \/ dialPad \/ recordChange \/ setMatchPhoneSelect \/ setSelectedEntries
    <2>1. alerts' = <<>>
        BY <1>4 DEF Type, dialPad, recordChange, setMatchPhoneSelect, setSelectedEntries, CanEdit
    <2> QED BY <1>2, <2>1
<1>5. CASE dialFromUrlEvent
    <2>1. CASE "urls" \in happened' \/ alerts' = <<>>
        BY <1>2, <2>1 DEF AskedInv
    <2>2. CASE "urls" \notin happened' /\ alerts' # <<>>
        <3> DEFINE named(n) == IF fullName(findByPhone(n)) # Nil
                               THEN [sel EXCEPT !.name = fullName(findByPhone(n))] ELSE sel
        <3>1. PICK n \in Texts : /\ \E r \in setSelectedNumber(named(n), n) : Selects(r)
                                 /\ alerts' = IF phase \in Ready THEN Append(alerts, n) ELSE alerts
            BY <1>5 DEF dialFromUrlEvent
        <3>2. n \in Text
            BY BookAssumption DEF Text
        <3>3. named(n) \in Selection
            BY <1>1, FindTypes, FullNameTypes DEF Selection
        <3> HIDE DEF named
        <3>4. PICK r \in setSelectedNumber(named(n), n) : Selects(r)
            BY <3>1
        <3>5. alerts = <<>>
            BY <1>5, <2>2 DEF dialFromUrlEvent, Happens
        <3>6. phase \in Ready /\ alerts' = Append(<<>>, n)
            BY <2>2, <3>1, <3>5
        <3>7. sel'.number = n
            <4>1. phase \in Idle
                BY <3>6 DEF Ready, Idle
            <4> QED BY <3>2, <3>3, <3>4, <4>1, OutcomeTypes DEF Selects
        <3>8. Len(alerts') = 1 /\ Head(alerts') = n
            BY <3>6
        <3> QED BY <3>7, <3>8 DEF AskedInv
    <2> QED BY <2>1, <2>2
<1>6. CASE dialFromUrlResponse
    <2>1. CASE "urls" \in happened
        BY <1>6, <2>1 DEF dialFromUrlResponse, AskedInv
    <2>2. CASE "urls" \notin happened
        <3>1. Len(alerts) = 1 /\ alerts' = Tail(alerts)
            BY <1>6, <2>2 DEF dialFromUrlResponse, AskedInv
        <3>2. alerts' = <<>>
            BY <1>1, <3>1
        <3> QED BY <1>2, <3>2
    <2> QED BY <2>1, <2>2
<1>7. CASE acceptCall
    <2>1. PICK r \in setSelectedNumber(sel, ticket.number) :
              Selects([r EXCEPT !.sel.name = callingName])
        BY <1>7 DEF acceptCall
    <2>2. phase \notin Idle
        BY <1>7 DEF acceptCall, Idle
    <2>3. r.sel = sel /\ r = [sel |-> r.sel, match |-> r.match, cache |-> r.cache]
        BY <2>2, Outcomes
    <2>4. sel' = [sel EXCEPT !.name = callingName] /\ UNCHANGED alerts
        BY <1>7, <2>1, <2>3 DEF Selects, acceptCall
    <2>5. sel'.number = sel.number
        BY <1>1, <2>4 DEF Selection
    <2> QED BY <1>2, <1>3, <2>4, <2>5
<1>8. CASE UNCHANGED <<alerts, sel>>
    BY <1>2, <1>3, <1>8
<1> QED BY <1>4, <1>5, <1>6, <1>7, <1>8 DEF Next, vars, Dial, setCallingNumber, EndCall,
           Registration, EditBook, _abChanged

-----------------------------------------------------------------------------
\* The theorems.

\* The inductive invariant.
LEMMA NumberInvariant ==
    ASSUME Laid, Keyed
    PROVE  Spec => []NumberInv
<1>1. Init => NumberInv
    <2> SUFFICES ASSUME Init PROVE NumberInv
        OBVIOUS
    <2>1. TypeInv
        BY InitTypes
    <2>2. CacheFresh /\ BookInv
        BY DEF Init, CacheFresh, BookInv, Fresh
    <2>3. SelInv /\ TicketInv /\ AskedInv
        BY DEF Init, SelInv, TicketInv, AskedInv, Right, Named, Unnamed, Calls
    <2> QED BY <2>1, <2>2, <2>3 DEF NumberInv
<1>2. NumberInv /\ [Next]_vars => NumberInv'
    BY StepTypes, CacheStep, SelStep, TicketStep, AskedStep DEF NumberInv
<1> QED BY <1>1, <1>2, PTL DEF Spec

\* fromAB is true of the numbers of the address book and of no others, whichever way the
\* number was selected, as long as the book is not edited, nobody is picked from it while
\* the phone is busy, and each of its numbers has a key.
THEOREM FromABIsTrue ==
    ASSUME Laid, Keyed
    PROVE  Spec => []FromABTrue
<1>1. NumberInv => FromABTrue
    BY DEF NumberInv, SelInv, Unpicked, Right, FromABTrue, Holders, Holding
<1> QED BY <1>1, NumberInvariant, PTL

\* The selected number is never shown under the name of someone who does not have it.
THEOREM NameIsOfNumber ==
    ASSUME Laid, Keyed
    PROVE  Spec => []NameOfNumber
<1>1. NumberInv => NameOfNumber
    BY DEF NumberInv, SelInv, Named, Fits, NameOfNumber, NameFor, Holders, Holding
<1> QED BY <1>1, NumberInvariant, PTL

\* The history names nobody as a party to a call with someone else's number.
THEOREM TicketIsNamed ==
    ASSUME Laid, Keyed
    PROVE  Spec => []TicketNamed
<1>1. NumberInv => TicketNamed
    BY DEF NumberInv, TicketInv, Calls, Fits, TicketNamed, NameFor, Holders, Holding
<1> QED BY <1>1, NumberInvariant, PTL

\* The number that is called after a question is the one the question showed.
THEOREM AskedNumberIsDialled ==
    ASSUME Laid
    PROVE  Spec => AskedIsDialled
<1> DEFINE Inv == TypeInv /\ AskedInv
<1>1. Init => Inv
    BY InitTypes DEF Init, AskedInv
<1>2. Inv /\ [Next]_vars => Inv'
    BY StepTypes, AskedStep
<1>3. ASSUME Inv, [Next]_vars, "urls" \notin happened, alerts # <<>>, alerts' = Tail(alerts),
             ticket' # ticket
      PROVE  Key(ticket'.number) = Key(Head(alerts))
    <2>1. Head(alerts) = sel.number /\ alerts \in Seq(Text)
        BY <1>3, PartsOfTypes DEF AskedInv
    <2>2. alerts' # alerts
        <3>1. Len(Tail(alerts)) # Len(alerts)
            BY <1>3, <2>1
        <3> QED BY <1>3, <3>1
    <2>3. dialFromUrlResponse
        BY <1>3, <2>2 DEF Next, vars, Type, dialPad, recordChange, setMatchPhoneSelect,
           setSelectedEntries, Dial, dialFromUrlEvent, setCallingNumber, acceptCall, EndCall,
           Registration, EditBook, _abChanged
    <2>4. makeOutCall(sel.number)
        BY <1>3, <2>3 DEF dialFromUrlResponse, dialOutCall
    <2> QED BY <1>3, <2>1, <2>4, OutCallTicket
<1>4. Inv /\ [Next]_vars
        => [("urls" \notin happened /\ alerts # <<>> /\ alerts' = Tail(alerts) /\ ticket' # ticket)
              => Key(ticket'.number) = Key(Head(alerts))]_vars
    BY <1>3
<1> HIDE DEF Inv
<1> QED BY <1>1, <1>2, <1>4, PTL DEF Spec, AskedIsDialled
=============================================================================
