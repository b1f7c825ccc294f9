--------------------------- MODULE SelectedNumber ---------------------------
(***************************************************************************)
(* The number to call and the name shown with it: sipPhone.m's selected    *)
(* number, name and fromAB, the address book cache behind them (ABCache.m),*)
(* the completion list and URL dialling of AppHelper.m, and what the call  *)
(* history is told.  The phone's state machine, the subject of SipPhone,   *)
(* is reduced to the classes of states these methods tell apart.           *)
(***************************************************************************)
EXTENDS StringCallNumber, FiniteSets

CONSTANTS
    People,         \* the address book's people, in its order
    Nameless,       \* those with neither a first nor a last name
    Books,          \* what the address book may hold: the numbers each of them has
    Conv,           \* the preferences
    Keys,           \* the keys of the dial pad in use
    Texts,          \* what is typed or pasted at once, opened as a URL, or calls
    MaxLen,         \* a bound on a number typed on the dial pad
    MaxAlerts,      \* a bound on the questions open at a time
    MaxHistory,     \* a bound on the numbers in the history
    Events,         \* what may happen besides
    MaxEvents       \* a bound on the kinds of Events in a behaviour

NoOne == "no one"
Empty == "empty"        \* the name @""

\* The characters of what is typed, pasted or kept in the address book.
Alphabet == Dialled \cup {" ", "a"}

ASSUME BookAssumption ==
    /\ People \in Seq(ToSet(People))
    /\ \A b \in Books : DOMAIN b = ToSet(People)
                        /\ \A p \in ToSet(People) : b[p] \subseteq Seq(Alphabet)
    /\ Texts \subseteq Seq(Alphabet) /\ Keys \subseteq Alphabet
    /\ NoOne \notin ToSet(People) /\ Empty \notin ToSet(People)
    /\ Nameless \subseteq ToSet(People)
    /\ MaxLen \in Nat /\ MaxAlerts \in Nat /\ MaxHistory \in Nat /\ MaxEvents \in Nat
    /\ Events \subseteq {"answer",      \* the user answers incoming calls
                         "urlbusy",     \* a URL is opened while the phone (un)registers
                         "urls",        \* a URL is opened while another one waits for the user
                         "pickbusy",    \* a person is picked while the phone (un)registers
                                        \* or is in a call
                         "book"}        \* the address book is edited

VARIABLES phase, sel, callingName, book, perPhone, abChanged, matchPhones, alerts, ticket, history,
          happened      \* which of Events have happened

vars == <<phase, sel, callingName, book, perPhone, abChanged, matchPhones, alerts, ticket, history,
          happened>>

\* moving: registering or unregistering.  tocall: registering for a call (on demand).
\* call: every state of a call but ringing.
Phases == {"off", "moving", "tocall", "ondemand", "registered", "ringing", "call"}
Idle == {"off", "ondemand", "registered"}
Ready == {"ondemand", "registered"}             \* the states whose view takes a number

Happens(events) == /\ happened' = happened \cup events
                   /\ Cardinality(happened') <= MaxEvents

IsText(x) == x = Nil \/ x \in Seq(Alphabet)
Names == ToSet(People) \cup {Nil, Empty}

-----------------------------------------------------------------------------
\* The address book cache.

Key(n) == internationalCallNumber(Conv, n)

\* The keys of the numbers each person has in a book; a number that is too long has none.
KeysOf == [b \in Books |-> [p \in ToSet(People) |-> {Key(n) : n \in b[p]} \ {Nil}]]

\* Every key of a book with its owner: a number two people share is the last one's.
Owners(keys) ==
    LET holders(k) == {i \in DOMAIN People : k \in keys[People[i]]}
    IN  [k \in UNION {keys[p] : p \in ToSet(People)} |-> People[Max(holders(k))]]

\* Mutant: the numbers are taken as they are written.
cachePopulateRaw == [b \in Books |-> Owners(b)]

\* _abCachePopulate, for each of the books.
cachePopulate == [b \in Books |-> Owners(KeysOf[b])]

\* The cache as a lookup finds it, filled when it was dropped.
Cache == IF perPhone = Nil THEN cachePopulate[book] ELSE perPhone

findByPhone(n) ==
    LET k == Key(n)
    IN  IF k \notin {Nil, <<>>} /\ k \in DOMAIN Cache THEN Cache[k] ELSE NoOne

\* Mutant: somebody who is not there has a name too.
fullNameNone(p) == IF p \in Nameless THEN Nil ELSE p

fullName(p) == IF p = NoOne \/ p \in Nameless THEN Nil ELSE p

\* Mutant: the change of the address book is noted and the cache stays.
abChangedIgnored ==
    /\ abChanged
    /\ abChanged' = FALSE
    /\ UNCHANGED <<phase, sel, callingName, book, perPhone, matchPhones, alerts, ticket, history, happened>>

\* _abChanged: the address book was edited.
_abChanged ==
    /\ abChanged
    /\ abChanged' = FALSE /\ perPhone' = Nil
    /\ UNCHANGED <<phase, sel, callingName, book, matchPhones, alerts, ticket, history, happened>>

\* Another application edits the address book.
EditBook ==
    /\ "book" \in Events
    /\ book' \in Books \ {book}
    /\ abChanged' = TRUE
    /\ Happens({"book"})
    /\ UNCHANGED <<phase, sel, callingName, perPhone, matchPhones, alerts, ticket, history>>

-----------------------------------------------------------------------------
\* The selected number.

\* Mutant: the name stays when the number is no longer one of the address book.
setFromABKeepingName(s, f) == [s EXCEPT !.fromAB = f]

\* The name is cleared only when fromAB changes.
setFromAB(s, f) ==
    IF s.fromAB = f THEN s
    ELSE [s EXCEPT !.fromAB = f, !.name = IF f THEN @ ELSE Empty]

\* setSelectedNumber:update: with a new string.
select(s, n) ==
    LET p == findByPhone(n)
        t == [s EXCEPT !.number = n]
    IN  IF p # NoOne THEN setFromAB([t EXCEPT !.name = fullName(p)], TRUE)
        ELSE setFromAB(t, FALSE)

Entries(ns) == {[phone |-> displayCallNumber(Conv, n), name |-> fullName(findByPhone(n))] : n \in ns}

\* updateCompletionList: the cached numbers that start like this one, or, of a text without
\* a number, the numbers of the people the address book finds by name.
Completions(n) ==
    IF n \in {Nil, <<>>} THEN {{}}
    ELSE IF Key(n) = <<>>
    THEN {UNION {{[phone |-> displayCallNumber(Conv, m), name |-> fullName(p)] : m \in book[p]} :
                     p \in found} : found \in SUBSET ToSet(People)}
    ELSE {Entries({k \in DOMAIN Cache : HasPrefix(k, Key(n))})}

\* setSelectedNumber: nothing while the phone is not idle, nor for the string it has.
setSelectedNumber(s, n) ==
    (IF phase \notin Idle \/ n = s.number
     THEN {[sel |-> s, match |-> matchPhones, cache |-> perPhone]} ELSE {})
    \cup
    (IF phase \in Idle /\ (n # Nil \/ s.number # Nil)
     THEN {[sel |-> select(s, n), match |-> m, cache |-> Cache] : m \in Completions(n)} ELSE {})

\* One of these outcomes becomes the state.
Selects(outcome) ==
    /\ sel' = outcome.sel /\ matchPhones' = outcome.match /\ perPhone' = outcome.cache
    /\ UNCHANGED <<book, abChanged, callingName>>

\* Mutant: the question does not cover the view.
CanEditUnderQuestion == phase \in Ready

\* The view to enter numbers is there, and no question covers it.
CanEdit == phase \in Ready /\ alerts = <<>>

\* The number field.
Type == /\ CanEdit
        /\ \E n \in Texts \cup {Nil} : \E r \in setSelectedNumber(sel, n) : Selects(r)
        /\ UNCHANGED <<phase, alerts, ticket, history, happened>>

\* A key, backspace (-1) and clear (-2).  DTMF, in a call, is not a matter of the number.
dialPad ==
    /\ CanEdit
    /\ LET s == sel.number
           typed == IF s = Nil THEN {<<k>> : k \in Keys}
                    ELSE IF Len(s) < MaxLen THEN {Append(s, k) : k \in Keys} ELSE {}
           back == IF s = Nil \/ Len(s) <= 1 THEN Nil ELSE SubSeq(s, 1, Len(s) - 1)
       IN  \E n \in typed \cup {back, Nil} : \E r \in setSelectedNumber(sel, n) : Selects(r)
    /\ UNCHANGED <<phase, alerts, ticket, history, happened>>

\* The address book picker, in a drawer that opens in every state; it need not have a
\* value, nor a person, selected.  While the phone is not idle the number is refused, the
\* name and fromAB are not.
recordChange ==
    /\ alerts = <<>>
    /\ phase \in Idle \/ "pickbusy" \in Events
    /\ \E p \in ToSet(People) \cup {NoOne} :
         \E n \in (IF p = NoOne THEN {} ELSE book[p]) \cup {Nil} :
           \E r \in setSelectedNumber(sel, n) :
             Selects([r EXCEPT !.sel = setFromAB([@ EXCEPT !.name = fullName(p)], TRUE)])
    /\ Happens(IF phase \in Idle THEN {} ELSE {"pickbusy"})
    /\ UNCHANGED <<phase, alerts, ticket, history>>

\* A row of the completion list: the list stays.
setMatchPhoneSelect ==
    /\ CanEdit
    /\ \E e \in matchPhones : sel' = select(sel, e.phone)
    /\ perPhone' = Cache
    /\ UNCHANGED <<phase, callingName, book, abChanged, matchPhones, alerts, ticket, history, happened>>

\* A row of the history.
setSelectedEntries ==
    /\ alerts = <<>>
    /\ \E n \in history : \E r \in setSelectedNumber(sel, n) : Selects(r)
    /\ UNCHANGED <<phase, alerts, ticket, history, happened>>

-----------------------------------------------------------------------------
\* Calls.

\* Mutant: the number is the one the dial pad shows, the name that of the last caller.
makeOutCallNamed(number) ==
    /\ ticket' = [number |-> displayCallNumber(Conv, number), name |-> callingName]
    /\ phase' \in {"call", "registered"}

\* The history is told before the INVITE is built, which may fail.
makeOutCall(number) ==
    /\ ticket' = [number |-> displayCallNumber(Conv, number), name |-> sel.name]
    /\ phase' \in {"call", "registered"}

\* dialOutCall: on demand, the phone registers first.
dialOutCall == \/ phase = "registered" /\ makeOutCall(sel.number)
               \/ phase = "ondemand" /\ phase' = "tocall" /\ UNCHANGED ticket
               \/ phase \notin Ready /\ UNCHANGED <<phase, ticket>>

Dial == /\ CanEdit
        /\ dialOutCall
        /\ UNCHANGED <<sel, callingName, book, perPhone, abChanged, matchPhones, alerts, history, happened>>

\* A tel: or sipphone: URL.  A name the address book knows is taken before the number.
dialFromUrlEvent ==
    /\ phase \notin {"ringing", "call"}
    /\ phase \in Idle \/ "urlbusy" \in Events
    /\ alerts = <<>> \/ ("urls" \in Events /\ Len(alerts) < MaxAlerts)
    /\ \E n \in Texts :
         LET known == fullName(findByPhone(n))
             named == IF known # Nil THEN [sel EXCEPT !.name = known] ELSE sel
         IN  /\ \E r \in setSelectedNumber(named, n) : Selects(r)
             /\ alerts' = IF phase \in Ready THEN Append(alerts, n) ELSE alerts
    /\ Happens((IF phase \in Idle THEN {} ELSE {"urlbusy"})
                 \cup (IF alerts = <<>> THEN {} ELSE {"urls"}))
    /\ UNCHANGED <<phase, ticket, history>>

\* The answer to the oldest question, the only one on the screen.
dialFromUrlResponse ==
    /\ alerts # <<>>
    /\ alerts' = Tail(alerts)
    /\ dialOutCall \/ UNCHANGED <<phase, ticket>>
    /\ UNCHANGED <<sel, callingName, book, perPhone, abChanged, matchPhones, history, happened>>

\* An INVITE: the caller's number is the From header's display name.
setCallingNumber ==
    /\ phase = "registered"
    /\ \E n \in Texts :
         /\ callingName' = fullName(findByPhone(n))
         /\ ticket' = [number |-> displayCallNumber(Conv, n), name |-> callingName']
    /\ phase' = "ringing" /\ perPhone' = Cache
    /\ UNCHANGED <<sel, book, abChanged, matchPhones, alerts, history, happened>>

\* The caller's number, which the ticket has, is refused in this state; the name is not.
acceptCall ==
    /\ "answer" \in Events
    /\ phase = "ringing"
    /\ \E r \in setSelectedNumber(sel, ticket.number) :
         Selects([r EXCEPT !.sel.name = callingName])
    /\ phase' = "call"
    /\ Happens({"answer"})
    /\ UNCHANGED <<alerts, ticket, history>>

\* tickHangupCause: the ticket becomes an entry of the history.
EndCall ==
    /\ phase \in {"ringing", "call"}
    /\ phase' \in {"registered", "moving"}
    /\ history' = IF ticket.number # Nil /\ Cardinality(history) < MaxHistory
                  THEN history \cup {ticket.number} ELSE history
    /\ ticket' = Nil
    /\ UNCHANGED <<sel, callingName, book, perPhone, abChanged, matchPhones, alerts, happened>>

\* Registrations, and the call an on-demand registration was for.
Registration ==
    /\ \/ phase \in {"off", "ondemand", "registered"} /\ phase' = "moving" /\ UNCHANGED ticket
       \/ phase = "moving" /\ phase' \in Idle /\ UNCHANGED ticket
       \/ phase = "tocall" /\ phase' = "ondemand" /\ UNCHANGED ticket
       \/ phase = "tocall" /\ makeOutCall(sel.number)
    /\ UNCHANGED <<sel, callingName, book, perPhone, abChanged, matchPhones, alerts, history, happened>>

-----------------------------------------------------------------------------
Init == /\ phase \in {"off", "ondemand"}
        /\ sel = [number |-> Nil, name |-> Nil, fromAB |-> FALSE]
        /\ callingName = Nil
        /\ book \in Books /\ perPhone = cachePopulate[book] /\ abChanged = FALSE
        /\ matchPhones = {} /\ alerts = <<>> /\ ticket = Nil /\ history = {}
        /\ happened = {}

Next == \/ Type \/ dialPad \/ recordChange \/ setMatchPhoneSelect \/ setSelectedEntries
        \/ Dial \/ dialFromUrlEvent \/ dialFromUrlResponse
        \/ setCallingNumber \/ acceptCall \/ EndCall \/ Registration
        \/ EditBook \/ _abChanged

Spec == Init /\ [][Next]_vars

-----------------------------------------------------------------------------
\* The state is well-typed.
TypeOK ==
    /\ phase \in Phases
    /\ IsText(sel.number) /\ sel.name \in Names /\ sel.fromAB \in BOOLEAN
    /\ callingName \in Names
    /\ book \in Books
    /\ perPhone = Nil \/ (\A k \in DOMAIN perPhone : IsText(k) /\ perPhone[k] \in ToSet(People))
    /\ abChanged \in BOOLEAN
    /\ \A e \in matchPhones : IsText(e.phone) /\ e.name \in Names
    /\ \A i \in DOMAIN alerts : IsText(alerts[i])
    /\ ticket = Nil \/ (IsText(ticket.number) /\ ticket.name \in Names)
    /\ \A n \in history : IsText(n)
    /\ happened \subseteq Events

\* The people who have the number, however it is written.
Holders(n) == LET k == Key(n) IN {p \in ToSet(People) : k # <<>> /\ k \in KeysOf[book][p]}

\* A name that can go with the number: its holder's, or none.
NameFor(name, n) == name \in Holders(n) \cup {Nil, Empty}

\* What the theorems about names suppose: the display rules lay numbers out so that they
\* convert back, and every number of the address book has a key.
Laid == Converter(Conv, Alphabet) /\ Conv.ip \in Seq(Dialled)
Keyed == \A b \in Books : \A p \in ToSet(People) : \A n \in b[p] : Key(n) \notin {Nil, <<>>}

\* "true if selectedNumber comes from AddressBook (and has not been changed)" (sipPhone.h),
\* of fromAB, in both directions, whichever of the number field, the dial pad, the picker,
\* the completion list, the history and a URL selected the number, as long as the address
\* book is not edited and nobody is picked from it while the phone is in a call, registers
\* or unregisters: the number is then refused and the rest taken (sipPhone.m:232).
FromABTrue == happened \cap {"book", "pickbusy"} = {} /\ sel.number # Nil =>
                  (sel.fromAB <=> Holders(sel.number) # {})

\* The selected number is never shown under the name of someone who does not have it, as
\* long as no call is answered, nobody is picked and no URL opened while the phone is
\* busy, and the address book is not edited: each of these changes the name and not the
\* number.
NameOfNumber == happened \subseteq {"urls"} /\ sel.number # Nil => NameFor(sel.name, sel.number)

\* The call history names nobody as a party to a call with someone else's number, under
\* the same conditions.
TicketNamed == happened \subseteq {"urls"} /\ ticket # Nil /\ ticket.number # Nil =>
                   NameFor(ticket.name, ticket.number)

\* A lookup with no change notification on its way sees the address book as it is: what
\* ABCache kept is what _abCachePopulate would build.
CacheFresh == ~abChanged => perPhone \in {Nil, cachePopulate[book]}

\* "invoke a popup, and dial (in dialFromUrlResponse, the popup callback) the number if user
\* is ok" (AppHelper.m): the number that is called is the one the popup showed, as long as
\* one popup is open at a time.
AskedIsDialled ==
    [][("urls" \notin happened /\ alerts # <<>> /\ alerts' = Tail(alerts) /\ ticket' # ticket)
         => Key(ticket'.number) = Key(Head(alerts))]_vars
=============================================================================
