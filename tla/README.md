# A TLA+ model of symPhonie

symPhonie is a SIP softphone for Mac OS X.  This directory models the program's own
code: the phone's finite state machine, the SIP stack under it as the phone observes
it, the media, the call history, the application controller that registers,
unregisters, sleeps, wakes and quits, the network watcher, the error messages, the
sound device with its audio test, and the numbers and names a call is made with.  TLC
checks the models on small instances; TLAPS proves 32 theorems about them for every
value of their constants.

## Inventory of the system

| Component | Source | State | Operations | Status |
|---|---|---|---|---|
| Phone state machine | `sipPhone.m` | `state` (15 values), `_cid`, `_did`, `_rid`, `localSdp` | dial, accept, hang up, register, unregister, `pollExosip:` (one case per event) | `SipPhone` |
| SIP user agent | `libeXosip2-2.2.3` | calls with their INVITE transaction and dialog, registrations with period and retry counter, the event FIFO | API calls; arrival of messages, timers | `EXosip` |
| Media | `UserPlane.m` | RTP transport, session, ring tone | set up, negotiate, end, ring | `UserPlane` |
| Call history | `CallTicketHandler.m` | the current ticket, the history | start, online, hang up | `CallTicketHandler` |
| Application controller | `AppHelper.m` | registration mode, account, network, sleep and quit requests | notifications, preferences, menus | `AppHelper`, `SymPhonie` |
| Network watcher | `NetworkState.m` | a descriptor per interface with a cached validity, `changed`, `reachability` | copy and subscription, store callbacks, coalesced report | `NetworkState`, `NetworkWatch` |
| Error messages | `AppHelper.m` | two messages and two timers | set, reset, expire | `ErrorMessages` |
| Sound device, audio test | `UserPlane.m` | the sound port, capture and playback ports, saved volumes | start, buffer callbacks, stop; set up and end of a call's media | `AudioDevice` |
| Number conversion | `StringCallNumber.m`, `PrefPhoneNumberConverter.m` | none | dialled, international and displayed form | `StringCallNumber` |
| Selected number, completion, URLs, address book cache | `sipPhone.m`, `AppHelper.m`, `ABCache.m` | selected number, name and `fromAB`, the cache, the completion list, open questions | type, dial pad, picker, completion, history, URL, call, answer | `SelectedNumber` |
| Plug-in, update checker, scripts, popup | `sipPhoneAbPlugin.m`, `UpdateChecker.m`, `BundledScript.m`, `InCallPopup.m` | little | I/O and display | not modelled |
| libosip2, oRTP, pjproject | vendored | | | not modelled |

### How the parts interact

* eXosip runs in a thread of its own.  It changes its tables under its lock and
  appends events to a FIFO.  The phone calls its API from the main thread.
* `pollExosip:` runs on the main thread ten times a second.  It reads events until
  the FIFO is empty; with each it first lets `eXosip_automatic_action` answer
  challenges, then handles the event.  A handler calls into eXosip, the media and
  the tickets, and changes the state with `setState:`, whose hooks start and stop
  the ring and tell `AppHelper` when the phone is off.
* User commands, preferences and system notifications run on the main thread too,
  hence never during a poll.  After a quit request only a modal run loop turns:
  the poll timer and the sources registered in the common modes (power, network)
  still run, the user's commands do not.
* configd tells the watcher which keys changed; the watcher asks for one report, later
  in the run loop, and the report calls `networkAvailable:`.
* The audio thread calls back at the end of a buffer and only queues a message for the
  main thread.  Calls and the audio test share one sound port and one memory pool.
* The clearing timers of the messages fire only in the default mode of the run loop,
  like `pollExosip:`; the user's actions come in other modes as well.

### What is hard

The phone keeps registration and call in one variable, while the stack reports both
independently.  An event may be read long after what it reports: after a hang-up,
after an un-REGISTER, after a second REGISTER.  Registration events are not matched
with the request they answer.  A hang-up may have nothing to cancel.  `NSAssert`
leaves a handler half way.  Network changes register in the middle of a call.  Sleep
and quit wait for an un-registration to finish.  The store changes between a copy and
a subscription; a validity is cached; two messages share timers that may not fire; two
users share a sound port; the name shown with a number is kept up by a dozen paths.
`PROJECT.json` lists each of these
at its line.

### What makes the parts correct

* Phone: one conversation at a time; a hang-up comes to an end; a registration comes
  to an end; a phone that stays registered is bound at the registrar.
* Media: the session belongs to the phone's call and does not outlive it; the phone
  rings only for somebody.
* History: each conversation is logged once.
* Controller: a request to sleep or quit is answered.
* Watcher: the client is told what is so, once per change, and in the end.
* Messages: each has its own timer, is shown for its time, and goes away.
* Sound device: a test ends, its button is enabled only when nothing is left of it, its
  callbacks are its own, and the volumes are given back.
* Numbers: the number shown is the number dialled and the key it is looked up with.
* Names: a number is never shown or logged under the name of somebody else, `fromAB`
  is true of the number, and what the user agreed to dial is dialled.

## Modules

`SymPhonie` extends `SipPhone`, which extends `EXosip`, `UserPlane`,
`CallTicketHandler` and `AppHelper`; `EXosip`, `UserPlane` and `CallTicketHandler`
extend `CallIds`.  `SelectedNumber` extends `StringCallNumber`.  The other modules
stand alone: what the core needs of them is an input it takes in any order
(`networkAvailable:` with any value at any time), or nothing.

* **`CallIds`**: the set of call ids and "no call".  eXosip numbers calls up to
  100000; the model reuses an id once the stack has freed the call and neither the
  phone, its media, its ticket nor a queued event refers to it (`Unused`).
* **`CallTicketHandler`**: `ticket` is the pair of dates (set or not); `history[c]`
  counts the entries written for call `c` since its ticket was started.  The code
  does not know which call a ticket is for; the field `call` only records it.
* **`UserPlane`**: one record, and one operator per method from the record before to
  the record after, so that a handler can chain methods.  `lost` counts ports that
  stay bound because a transport was overwritten.
* **`AppHelper`**: the pending requests and `phoneIsOff:`, which answers them.
* **`EXosip`**: `calls[c]` is the state of the INVITE transaction, of the dialog and
  of the retry counter; `reg[r]` the last transaction, the period and the retry
  counter of a registration; `fifo` the unread events; `bound[r]` what the registrar
  holds.  The API is a set of operators on the tables; the stack's thread is a set
  of actions, one per message or timer.
* **`SipPhone`**: one action per user command and one per event read, each from its
  first to its last statement, with `setState:` and the methods it calls.  The code
  compares states by rank; the model uses the corresponding sets.
* **`SymPhonie`**: system callbacks, preferences and menus; `Next`, fairness, and
  the properties.
* **`MCSymPhonie`**: the instances for TLC.
* **`PhoneLine`**: the abstract specification of the phone: a single line that a call
  takes and gives back.  `ImplementsLine` in `SymPhonie` maps `state`, `_cid` and the
  media session to it.
* **`SymPhonieSafety`**, **`SymPhonieCalls`**: theorems and proofs; the second builds on
  the first.
* **`NetworkState`**: the store (external: configd) with what may go wrong with it
  (`Faults`), one record per interface, and the watcher's actions.  `registerWithSc` is
  two actions, since the store may change between its copy and its subscription; the
  run loop waits for the second.  `isValid` has a side effect, hence `Asked`.
* **`NetworkWatch`**: what the client is promised; `NetworkState` implements it with
  `valid` the interfaces whose data are good.
* **`ErrorMessages`**: what is shown, the timers AppHelper holds and those in the run
  loop, as separate facts; `age` is history.  Texts are model values, one per text of
  `sipError`.
* **`AudioDevice`**: one record and one operator per method, as in `UserPlane`.  Tests
  carry a number so that a callback can be told from one of an earlier test.
* **`StringCallNumber`**: the conversions as operators on sequences of characters; here
  the characters are what the properties are about.
* **`SelectedNumber`**: the phone's states are reduced to the classes its methods tell
  apart (`phase`).  `setSelectedNumber` is the set of its outcomes: given the string it
  already has, the code compares pointers and may or may not select anew.
* **`MCNetworkState`**, **`MCErrorMessages`**, **`MCStringCallNumber`**,
  **`MCSelectedNumber`**: instances; **`NetworkStateProofs`**, **`ErrorMessagesProofs`**,
  **`AudioDeviceProofs`**: theorems and proofs.
* **`StringCallNumberProofs`**: what the conversions compute, for all texts;
  **`NumberTextsProofs`**: the properties of `MCStringCallNumber` from it;
  **`SelectedNumberProofs`**: those of `SelectedNumber`, which use it too.

Three modules carry a history variable that the program does not have: `missed` in
`NetworkState` (a change, or a removal, that the watcher was never given), `happened` in
`AudioDevice` and in `SelectedNumber` (which of the disturbing `Events` have occurred).
Their runs explore every disturbance at once, and a property that some disturbance
defeats names it: `AssertionsHold`, for example, is claimed as long as "call" has not
happened, `TestEnds` of behaviours in which it never does.  No guard reads these variables
except for the bound `MaxEvents`.

Definitions preceded by a comment "Mutant" are plausible mistakes in the code; replacing the
definition that follows by one of them makes the property it is paired with fail.

### Abstractions

* SIP messages are reduced to what the phone looks at: the status class, whether
  there is an SDP, whether the caller has a display name.
* `pollExosip:` is one action per event; `polling` keeps the rest of the main thread
  out until the FIFO is empty.  eXosip's own actions interleave with it.
* `eXosip_automatic_action` is split: answering challenges happens with each event
  read and on a poll that read nothing (`EmptyPoll`), the timed refresh is an action of
  its own (`RefreshRegister`).
* The answer to a REGISTER that a newer one replaced is dropped, as in the stack;
  the registrar is taken to ignore the replaced request too.
* Timers of 30 seconds and more never beat the 10 Hz poll: what they guard waits
  until the events of that call or registration have been read (`Unread`).
* Left out because the phone only logs or ignores them: PROCEEDING, in-dialog
  messages, CANCELLED, redirections.  Left out although the phone acts on it: a
  re-INVITE, which it answers with 200 and no change of its media, replacing `_tid`
  (`sipPhone.m:1050`).  Also left out: forked dialogs,
  challenges after a 18x, an incomplete account, the preference that silences the
  ring, running out of memory.
* In `AudioDevice` the ring's use of the device, which ends before a call's media begin,
  DTMF, hog mode and the choice of the device are left out.
* In `SelectedNumber` the address book finds any people for a text without a number;
  the list is not cut at 32 entries.

## Runs

There are twelve.  Those of the core use module `MCSymPhonie` and a configuration
`SymPhonie_<run>.cfg`.

| Run | Specification | Instance | Checks |
|---|---|---|---|
| `calls` | `Spec` | 2 calls, 1 account, both registration modes; registrations accepted or refused, calls refused and challenged | `TypeOK`, `SingleCall`, `MediaFollowsCall`, `RingsForCaller`, `ConversationLogged`, `ImplementsLine` |
| `power` | `Spec` | 1 call, both modes, bodies without SDP, every system event, preference and menu except a change of account | `PowerRequestHeard`, `RingsForCaller`, `MediaFollowsCall` |
| `ending` | `FairSpec` | 1 call, both modes, quit at any time; REGISTER answered with 200, 407, 404, 500 or not at all | `ClearingEnds`, `RegistrationSettles`, `IdleQuitCompletes` |
| `accounts` | `FairSpec` | 2 accounts, network and account changes | `RegisteredIsReachable` |
| `singlecall` | `Spec` | 2 calls, with network changes | violates `SingleCall` |
| `quitcompletes` | `FairSpec` | quit at any time | violates `QuitCompletes` |

The other modules:

| Run | Specification | Instance | Checks |
|---|---|---|---|
| `network_watch` | `FairSpec` | a wired and a wireless interface, every fault | `TypeOK`, `CacheSound`, `ReportPending`, `GainReported`, `LossReported`, `ImplementsWatch`, `GainNotified` |
| `network_removed` | `Spec` | keys are removed | violates `RemovalReported` |
| `errors_timers` | `FairSpec` | 3 timers, delays of 5 and 2 | `TypeOK`, `OwnTimer`, `NotCutShort`, `GoesAway` |
| `audio_device` | `FairSpec` | tests and calls, every failure, a slow main thread | `TypeOK`, `ButtonSafe`, `AssertionsHold`, `VolumeRestored`, `OwnCallback`, `TestEnds` |
| `numbers_texts` | `Spec` | all texts of 5 chunks, 4 preferences | `DisplayDials`, `KeyStable` |
| `selected_names` | `Spec` | 2 people who share a number, one of them nameless, an address book with two contents | `TypeOK`, `NameOfNumber`, `TicketNamed`, `FromABTrue`, `CacheFresh`, `AskedIsDialled` |

The largest (`selected_names`, `audio_device`, `network_watch`) have two to four hundred
thousand states; each run takes between a quarter of a minute and two and a half minutes.

What the properties say:

* `SingleCall`: never two calls that are both established.  It takes an INVITE or an
  answer at the wrong moment, several events late, to break it.
* `MediaFollowsCall`: the session serves `_cid`, is there while online, and once the
  stack has freed the call the event that ends the session is queued.
* `RingsForCaller`: ringing implies the ringing state and a caller who waits or whose
  end is queued.
* `ConversationLogged`: a step that leaves a conversation finds exactly one entry,
  although hang-up, CLOSED, RELEASED and failures all try to write it.
* `PowerRequestHeard`: no pending request once the phone is off, since only *entering*
  an off state answers it.
* `ImplementsLine`: the phone refines `PhoneLine`: a call that has the line keeps it
  until it is idle again, nobody else is heard meanwhile, and nobody is talked to who
  was not called or did not call.  The refinement also shows what a user has to expect
  of a hang-up (`Cross`): a 180 or a 200 that crosses it brings the call back.
* `ClearingEnds`, `RegistrationSettles`, `IdleQuitCompletes`, `RegisteredIsReachable`:
  the liveness counterparts.
* `CacheSound`, `ReportPending`: the two optimisations of the watcher, a cached validity
  and a coalesced report, lose nothing.  `ImplementsWatch` says what that is for.
  `GainReported`, `LossReported`, `GainNotified` compare what the client was told with
  the store itself, hence hold as far as the watcher was given the changes (`missed`).
  `RemovalReported` claims the same of removals and fails.
* `OwnTimer`, `NotCutShort`, `GoesAway`: message and timer come and go together.
* `ButtonSafe`, `OwnCallback`, `TestEnds`, `VolumeRestored`: the audio test and the
  device, each until the first event that defeats it; what goes wrong then is in the
  list of hazards.
* `DisplayDials`, `KeyStable`: conversions are applied again to what they produced, and
  change nothing then.
* `NameOfNumber`, `TicketNamed`, `FromABTrue`, `AskedIsDialled`, `CacheFresh`: number,
  name and address book agree, whichever path set each of them.

### Bounds

* Calls: two are needed for calls to overlap; a third adds only another refused
  INVITE.  With one call the registration side is explored with all system events.
* `MaxFifo` bounds only what a peer may repeat at will (18x, INVITE, ACK, answers to
  repeated registrations); what the stack reports once is always queued.  With 1 or 2
  a late event still meets a state two handlers away from the one it was sent in.
  In `accounts` it is 0: no calls come in, registration answers still queue.
* `MaxRetry` is 1 (3 in the code): the limit is reached after one challenge.
* `Ports` is 2 (50 in the code), 1 in `accounts`, so that ports run out.
* Two interfaces: the watcher looks at each alone and only counts the valid ones.
* Three timers: one per domain, and one for a message that replaces another.  The delays
  keep the order and the ratio of the code's 10 and 4 seconds.
* `MaxQueue` (3) callbacks: two tests' worth; the audio thread fills the queue, the main
  thread's own messages are always queued.  `TestIds` (3) is more than the queue and the
  running test need.
* `MaxChunks` (5): texts of up to 15 characters, longer than the longest default rule's
  number; the run stops there, so it does not check for deadlock.
* In `SelectedNumber` numbers have two or three characters: enough for a national and
  an international form of the same number and for a number nobody has.  `MaxAlerts` is 2,
  for a question on the screen and one behind it; `MaxHistory` is 1.  `Books` are the two
  contents between which the address book is edited.  `MaxEvents` is 1: a behaviour has
  any number of edits, answered calls, or URLs at a bad moment, but not two of these
  kinds; the properties do not speak of behaviours with two of them, except `CacheFresh`,
  which only edits concern.
* In `calls` and `singlecall` call ids are symmetric; the liveness runs use no symmetry.

### Fairness

`Fairness` states what timers guarantee: the poll timer reads the FIFO; a refusal
handed to a transaction is sent; a call without a dialog is released after 180
seconds; a REGISTER is answered or times out; a failed REGISTER is repeated after 120
seconds.  The user, the peer and the system owe nothing; in particular a peer need
never answer, hang up or acknowledge.  The runs `ending` and `quitcompletes` do not
check for deadlock: an idle phone may wait for the user for ever.

`NetworkState`: the main thread starts the watcher, and its run loop serves what waits
in it (weak fairness of each source).  `ErrorMessages`: time passes, the user lets a
control go, and a timer that is due again and again in the default mode fires; strong
fairness, since the user may take a control again each time.  `AudioDevice`: a running
device reaches the end of its buffer, and the main thread serves its queue.

### Disagreements found

* `singlecall`: `sipPhone.h` says "We target only single call phone, though it is safe
  for now to keep a single fsm".  `registerPhone:` overwrites the call state when the
  network changes, the 200 makes the phone idle, and it takes a second call.
* `quitcompletes`: the reply that `NSTerminateLater` promises never comes when a 180
  arrives after the quit request.
* `network_removed`: "network no more usable" is never said when the key of the last
  interface is removed, because a key without a value is not in what was read.

Met while modelling, and visible in the conditions of the properties and in the list of
hazards rather than in a run of their own:

* `AppHelper.m` says "unregister before quiting", but the 200 of a REGISTER still in the
  FIFO is taken for that of the un-REGISTER (`sipPhone.m:917`): the application may leave
  while it is bound.
* A change that falls between the copy of the store and the subscription is not reported
  (`NetworkState.m:336`); `missed` has "change" then.
* The texts for busy, call canceled, incorrect password and user not found are never
  shown: the cause is overwritten before it is looked at (`AppHelper.m:1082`).
* A call that ends during an audio test takes the sound port the test disconnects next,
  against pjmedia's assertion (`UserPlane.m:609`).
* `acceptCall:` changes the selected name and not the number (`sipPhone.m:1383`): a number
  chosen before is then shown, and logged, under the caller's name.
* Agreeing to call one number dials another when a second URL came meanwhile
  (`AppHelper.m:448`).

And met while proving, as hypotheses that could not be left out:

* A number whose international form no longer fits the 128 characters of `_callNumber`
  has a key that itself has none (`StringCallNumber.m:114`).
* A display rule with a star adds the star to the number that is dialled from the displayed
  form (`StringCallNumber.m:212`); the default rules have none.
* The picker calls a number "from the address book" that has not one digit, although a
  lookup of it finds nobody (`sipPhone.m:233`).
* With two calls, a change of the network in mid-call defeats `MediaFollowsCall` as well
  as `SingleCall`.

`ClearingEnds` is checked for bodies with an SDP and `RegistrationSettles` without
401: an answer without an SDP leaves an established call that only the peer can end,
and a 401 with a used-up retry counter leaves an un-registration in
`sip_unregister_retry`.  Both are in the list of hazards.

## Proofs

The assumptions are those named in the modules: `NoCall` is not a call id, there is
an account, bounds are natural numbers (`Ports` positive), and the sets of answers,
failures, bodies and events are subsets of those the code tells apart.  `Cid` and
`Rid` may be of any size, infinite ones included.

* **`TypeCorrect`** (`SymPhonieSafety`): `Spec => []TypeOK`.  `TypeOK` is inductive; the
  proof has a lemma for each group of operators and one for each group of actions.
  The interesting part is that every retry counter stays within `MaxRetry`, although
  two functions of eXosip increment it.
* **`PowerRequestsAreHeard`** (`SymPhonieSafety`): `PowerRequestHeard` is inductive on
  top of `TypeOK`: a command leaves the phone out of the off states or leaves no
  request pending, and `setState:` answers every request on entering one.
* **`RingsOnlyForCaller`** (`SymPhonieSafety`): `RingsForCaller` is not inductive.  The
  invariant `RingInv` adds: the ring sounds only in the ringing state; in that
  state the phone's call waits or its end is queued (`RingingCallerWaits`, whether or
  not the ring sounds); and a queued INVITE is the first news of its call, which still
  waits or whose end is queued behind it (`InviteIsNews`), so that the phone can pick
  it up.  Each action is first shown to have one of a few effects on calls, FIFO and
  state (`StackEffect`, `CommandEffect`, `EventEffect`), and the invariant is shown to
  survive each effect.

`SymPhonieCalls` is about calls: **`OneCallAtATime`**, **`MediaServeTheCall`**,
**`ConversationsAreLogged`** and **`PhoneIsALine`**, the refinement of `PhoneLine`, for any
number of calls, peers and retries.

* They have one hypothesis, `CallKept`: the phone leaves the states of a call only when it
  reads an event of a call.  It cannot be left out: the run `singlecall` shows what
  happens when a command to register overwrites the state of a call.  It is a property
  of behaviours and not of constants, so the theorems hold of every behaviour up to the
  first such command.  **`UndisturbedPhone`** discharges it from the constants: it
  holds when `Events` has at most "mode", whose control is disabled in a call, and the
  registrar does not answer 403.  The run `calls` is an instance of it.
* The inductive invariant is `CallInv`, in three parts.  `QueueInv` ties the FIFO to the
  calls: what is queued tells the truth about its call, the events of a call are queued in
  the order of its life, a release the phone must hear of is queued, and a call that is
  not the phone's is over or unanswered.  `PlaneInv` ties the media session to
  the phone's call, `TicketInv` the ticket and the history.  None of the properties is
  inductive without the queue: an event read late is harmless only because of what is
  queued behind it.
* Each action is reduced to one of a few effects, as in `SymPhonieSafety`; TLC checked
  `CallInv` over more than ten million states before it was proved.

The other components:

* **`CacheIsSound`**, **`WatcherTypes`**, **`NoReportLost`** (`NetworkStateProofs`), for any
  set of interfaces and all faults.  `ReportPending` is inductive only with `CacheSound`
  (the report counts cached answers), and both with types.
* **`ImplementsWatchSafety`**: the watcher implements the safety part of `NetworkWatch`:
  a step either changes the valid interfaces, or tells the client what is so, or is a
  stutter.  From `CacheSound` and `ReportPending`.
* **`GainIsReported`**, **`LossIsReported`**: `GainReported` and `LossReported`, under all
  faults.  The invariant `Synced` says that, unless a change was missed, a key that is not
  waiting to be notified is known to the descriptor as the store has it, if the store has
  it at all.  `Absent` adds that, unless a key was removed, an interface without one has
  no addresses in its descriptor either, and that a wireless one is known to be wireless.
* **`MessagesOwnTimers`**, **`NoMessageCutShort`** (`ErrorMessagesProofs`), for any delays
  and timers.  The invariant adds that a running timer is held by its domain (`Owned`) and
  by no other (`Distinct`).
* **`MessageTypes`**: from the same invariant.
* **`TestButtonSafe`** (`AudioDeviceProofs`): the invariant is that status, helper, buffer
  and ports agree, and that every operator on the record keeps them so.
* **`TestAssertionsHold`**: on top of that, as long as no call touched the device, it is
  open whenever a capture port is there and the memory of the ports was not given back
  (`Undisturbed`).
* **`VolumesGivenBack`**: `VolumeRestored` is not inductive.  `Levels` says what an open
  device remembers: with `setVolume` both saved levels are the user's, without it the
  device still has the user's; so that any of the places that close it may do so, however
  a test and a call took turns.
* **`CallbacksAreOwn`**: the action property `OwnCallback`.  As long as callbacks are served
  in time (`Timely`), only callbacks of the test that runs wait, in the order of its two
  halves (`InOrder`).
* **`AudioTypes`**: `TypeOK` is inductive.

The numbers and the names:

* **`DisplayIsDialled`**, **`KeyIsStable`** (`StringCallNumberProofs`) are statements about
  the operators, for every text, all prefixes and all display rules that satisfy
  `Converter`: no rule has a star, and a laid out number fits the buffer of `_match`.
  `KeyIsStable` needs also that the international prefix starts with + or 00 (or is
  empty), and that the text leaves room for it.  The conversions are recursive functions
  over the text and over the rule, so the proofs are inductions.  The library states
  induction with an operator as parameter, which the provers cannot instantiate; here it
  is stated for sets (`Induction`, `SeqInduction`) and derived from the theorem that < is
  well-founded on the naturals.  The invariant of the inner loop of `_match` is
  `MatchRuleKeeps`: what was taken of the number, less the layout, followed by what is
  left of it, is the number.
* **`DisplayedIsDialled`**, **`KeysAreStable`** (`NumberTextsProofs`): the properties of
  the run `numbers_texts`, for any `MaxChunks` (`KeysAreStable`: up to the buffer).
* **`CacheIsFresh`**, **`SelectionTypes`**, **`FromABIsTrue`**, **`NameIsOfNumber`**,
  **`TicketIsNamed`**, **`AskedNumberIsDialled`** (`SelectedNumberProofs`): every property of
  the run `selected_names`, for any people, books, texts, preferences and events.  The
  hypotheses are `Laid` (the preferences satisfy `Converter`) and, for names and `fromAB`,
  `Keyed` (every number in the address book has a key); `CacheIsFresh` has none.  TLC
  evaluates both on the instance of the run.
* `FromABTrue` is inductive once the cache is known to be the book's (`BookInv`).
  `NameOfNumber` is not: an unknown number leaves the name alone when `fromAB` is down
  already, so the invariant adds that without `fromAB` there is no name (`Unnamed`), which
  in turn rests on `FromABTrue` when a URL brings its name before its number.
  `TicketNamed` follows because the displayed form has the key of the number.
  `AskedIsDialled` needs that the only open question shows the selected number
  (`AskedInv`), which holds because a question covers the view.

Every invariant and every action property of a passing run is thus a theorem.  Only
model-checked are the liveness properties (`ClearingEnds`, `RegistrationSettles`,
`IdleQuitCompletes`, `RegisteredIsReachable`, `GainNotified`, `GoesAway`, `TestEnds` and the
fairness part of `ImplementsWatch`): fairness and `ENABLED` are beyond the prover.

## Not modelled

* The vendored libraries.  libeXosip2 is modelled as far as the phone uses it; libosip2,
  oRTP and pjproject, nine tenths of the repository's lines, are codecs, filters, parsers,
  drivers of other platforms and other applications, most of them not linked into
  symPhonie.  What the phone relies on in them appears in `EXosip`, `UserPlane` and
  `AudioDevice`.  The share of the repository that the models cover is small for that
  reason; of the program's own files about half of the lines are covered, and the rest
  is accessors, bindings, layout and logging.
* `UpdateChecker.m`, `BundledScript.m`, `InCallPopup.m`, the plug-in: I/O and display
  without control of their own; pausing other applications (`_pauseApps`) and the
  keychain belong here.
* `nationalCallNumberFor:` is never called.
* DTMF tones: played over a running session, they change nothing that is kept.

## Plan

1. Done: the core, its runs, and its first theorems.
2. Done: the network watcher with its abstract specification, the error messages, the
   sound device, the numbers, the names; `PhoneLine` and the refinement;
   `eXosip_automatic_action` on a poll that reads nothing.
3. Done: calls (`SymPhonieCalls`), `OwnCallback` and the types of the remaining
   components, the conversions by induction, the names.
4. Next: the safety facts behind the liveness properties, as invariants of their own (that
   a phone in `sip_initiated_clearing` has a call or an event to come, that a registering
   phone has a transaction or an answer queued); what of `CallInv` survives a command to
   register in mid-call.
