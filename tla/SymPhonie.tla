------------------------------ MODULE SymPhonie ------------------------------
(***************************************************************************)
(* The whole application: the phone, its SIP stack, its media and its call *)
(* history, with the user, Mac OS X and the network acting on them.        *)
(***************************************************************************)
EXTENDS SipPhone

CONSTANTS Modes,       \* values onDemandRegister may have at launch
          Accounts,    \* what the preferences may describe
          Events       \* what the user and the system may do besides calls

ASSUME EventsAssumption ==
    /\ Modes \subseteq BOOLEAN
    /\ Accounts \subseteq Rid \cup {NoAccount}
    /\ Events \subseteq {"network", "wake", "sleep", "session", "quit", "mode", "account",
                         "password", "menu", "test", "debug"}

phoneVars == <<media, ticketVars, fsmVars, helperVars, polling>>
vars == <<sipVars, phoneVars>>

Init == /\ EXosipInit /\ MediaInit /\ TicketInit /\ PowerInit
        /\ onDemand \in Modes
        /\ account \in Accounts
        /\ network = FALSE
        /\ state = "sip_off"
        /\ cid = NoCall
        /\ did = FALSE
        /\ rid \in Rid /\ (account # NoAccount => rid = account)
        /\ polling = FALSE

\* After a quit request only the modal run loop turns: polling and system callbacks.
Interactive == ~power.exitRequested

-----------------------------------------------------------------------------
\* System callbacks.

\* NetworkState calls this on every change, and the phone registers whether the
\* network came or went.  Without "network" it is only called before the phone is on.
networkAvailable(available) ==
    /\ "network" \in Events \/ (state = "sip_off" /\ available)
    /\ network' = available
    /\ registerPhone
    /\ power' = PowerOn(power, state')
    /\ UNCHANGED <<onDemand, account>>

\* End of sleep, and the user's session becoming active.
_wakeUp ==
    /\ "wake" \in Events
    /\ registerPhone
    /\ power' = [PowerOn(power, state') EXCEPT !.unanswered = FALSE]
    /\ UNCHANGED <<onDemand, account, network>>

\* sleepRequested is set after the phone has been told to unregister, even if that has
\* switched it off at once.
_goSleep ==
    /\ "sleep" \in Events /\ ~power.unanswered
    /\ IF state \in Off
       THEN power' = sleepOk(power) /\ UNCHANGED <<sipVars, media, ticketVars, fsmVars>>
       ELSE /\ unregisterPhone
            /\ power' = [PowerOn(power, state') EXCEPT !.sleepRequested = TRUE,
                                                        !.unanswered = TRUE]
    /\ UNCHANGED <<onDemand, account, network>>

\* The user's session resigning (fast user switching).
_sessionOut ==
    /\ "session" \in Events /\ state \notin Off
    /\ unregisterPhone
    /\ power' = PowerOn(power, state')
    /\ UNCHANGED <<onDemand, account, network>>

\* Mutant: the request is noted when the phone has been told to unregister, as for sleep.
applicationShouldTerminateLate ==
    /\ "quit" \in Events /\ Interactive
    /\ IF state \in Off
       THEN /\ power' = [power EXCEPT !.terminated = TRUE]
            /\ UNCHANGED <<sipVars, media, ticketVars, fsmVars>>
       ELSE /\ unregisterPhone
            /\ power' = [PowerOn(power, state') EXCEPT !.exitRequested = TRUE]
    /\ UNCHANGED <<onDemand, account, network>>

\* exitRequested is set before the phone is told to unregister.
applicationShouldTerminate ==
    /\ "quit" \in Events /\ Interactive
    /\ IF state \in Off
       THEN /\ power' = [power EXCEPT !.terminated = TRUE]
            /\ UNCHANGED <<sipVars, media, ticketVars, fsmVars>>
       ELSE /\ unregisterPhone
            /\ power' = PowerOn([power EXCEPT !.exitRequested = TRUE], state')
    /\ UNCHANGED <<onDemand, account, network>>

-----------------------------------------------------------------------------
\* Preferences and menus.

\* The control is enabled by canChangeRegistrationScheme.
setOnDemandRegister ==
    /\ "mode" \in Events /\ Interactive /\ state \in {"sip_ondemand", "sip_registered"}
    /\ onDemand' = ~onDemand
    /\ IF ~network THEN UNCHANGED <<sipVars, media, ticketVars, fsmVars>>
       ELSE IF onDemand THEN registerPhoneOnDemand(FALSE, Expires)
       ELSE unregisterPhone
    /\ power' = PowerOn(power, state')
    /\ UNCHANGED <<account, network>>

\* setPassword: authInfoChangedWithNetwork: registers first, which the second
\* registration or un-registration repeats.
setPassword ==
    /\ "password" \in Events /\ Interactive
    /\ IF onDemand THEN unregisterPhone ELSE registerPhone
    /\ power' = PowerOn(power, state')
    /\ UNCHANGED <<onDemand, account, network>>

\* authInfoChangedWithNetwork: for account a, after a method that left the
\* registrations rs, _rid r and the state s.
authInfoChanged(a, rs, r, s) ==
    LET registers == network /\ (~onDemand \/ s \in BelowRegistered)
    IN IF registers /\ a # NoAccount
       THEN /\ reg' = InitialRegister(rs, a, IF onDemand THEN 0 ELSE Expires)
            /\ rid' = a
            /\ setState(IF onDemand THEN "sip_unregister_in_progress"
                        ELSE "sip_register_in_progress", media)
       ELSE /\ reg' = rs /\ rid' = r
            /\ setState(IF registers THEN "sip_off" ELSE s, media)

\* The account changes without a word to the registrar about the previous one.
setPhoneNumber(a) ==
    /\ "account" \in Events /\ Interactive
    /\ account' = a
    /\ authInfoChanged(a, reg, rid, state)
    /\ power' = PowerOn(power, state')
    /\ UNCHANGED <<calls, fifo, bound, cid, did, ticketVars, onDemand, network>>

\* The state setProvider: passes through when the previous account is unregistered.
Unregistered == IF state \in BelowRegistered /\ account = NoAccount
                THEN "sip_off" ELSE "sip_unregister_in_progress"

\* The previous account is unregistered, and the new one registered at once.
setProvider(a) ==
    /\ "account" \in Events /\ Interactive
    /\ account' = a
    /\ IF state \in BelowRegistered
       THEN /\ IF account = NoAccount
               THEN authInfoChanged(a, reg, rid, Unregistered)
               ELSE authInfoChanged(a, InitialRegister(reg, account, 0), account, Unregistered)
            /\ UNCHANGED <<calls, ticketVars>>
       ELSE /\ CanUnregister(reg)
            /\ HangUp
            /\ authInfoChanged(a, Unregister(reg), UnregisterRid(reg), Unregistered)
    /\ power' = IF \/ Unregistered \in Off /\ Unregistered # state
                   \/ state' \in Off /\ state' # Unregistered
                THEN phoneIsOff(power) ELSE power
    /\ UNCHANGED <<fifo, bound, cid, did, onDemand, network>>

\* Menu items that call the phone directly.
RegisterMenu == /\ "menu" \in Events /\ Interactive
                /\ registerPhone
                /\ power' = PowerOn(power, state')
                /\ UNCHANGED <<onDemand, account, network>>

UnregisterMenu == /\ "menu" \in Events /\ Interactive
                  /\ unregisterPhone
                  /\ power' = PowerOn(power, state')
                  /\ UNCHANGED <<onDemand, account, network>>

pretendRegistered ==
    /\ "menu" \in Events /\ Interactive /\ state \in BelowRegistered
    /\ setState("sip_registered", media)
    /\ UNCHANGED <<sipVars, ticketVars, cid, did, rid, helperVars>>

-----------------------------------------------------------------------------
\* The sound device, which calls share with the audio test and the debug window.

MediaOnly == UNCHANGED <<sipVars, ticketVars, fsmVars, helperVars>>

\* However it ends, the audio test ends the media of a call as well.
stopAudioTest ==
    /\ "test" \in Events
    /\ media' = [endUserPlane(media) EXCEPT !.faulty = (state \in AboveRegistered)]
    /\ MediaOnly

\* test2:, a test of the debug window, does the same at once.
test2 ==
    /\ "test" \in Events /\ Interactive
    /\ media' = [endUserPlane(media) EXCEPT !.faulty = (state \in AboveRegistered)]
    /\ MediaOnly

ring == /\ "debug" \in Events /\ Interactive
        /\ media' = startRing(media, "debug")
        /\ MediaOnly

\* The debug window, or a test that opens the device, stops the ring whoever started it.
endRing == /\ Events \cap {"test", "debug"} # {} /\ Interactive
           /\ media' = stopRing(media)
           /\ MediaOnly

Sound == stopAudioTest \/ test2 \/ ring \/ endRing

\* Commands that need the address of an incomplete account: dialling, and un-registering
\* a registration that has none or waits for an answer.
CrashOnCommand ==
    /\ account = NoAccount
    /\ \/ Interactive /\ state = "sip_registered"
       \/ /\ state \notin BelowRegistered /\ ~CanUnregister(reg)
          /\ \/ "sleep" \in Events /\ ~power.unanswered
             \/ "session" \in Events
             \/ Interactive /\ Events \cap {"quit", "account", "menu"} # {}
             \/ Interactive /\ "password" \in Events /\ onDemand
    /\ Crash

-----------------------------------------------------------------------------
NewInvite == \E c \in Cid, body \in Bodies :
                Unused(c) /\ RcvInvite(c, body) /\ UNCHANGED phoneVars

Stack == (EXosipThread /\ UNCHANGED phoneVars) \/ NewInvite

User == Interactive /\ (dialOutCall \/ hangUpCall \/ acceptCall)

System == \/ \E available \in BOOLEAN : networkAvailable(available)
          \/ _wakeUp \/ _goSleep \/ _sessionOut \/ applicationShouldTerminate

Preferences == \/ setOnDemandRegister \/ setPassword
               \/ \E a \in Accounts : setPhoneNumber(a) \/ setProvider(a)
               \/ RegisterMenu \/ UnregisterMenu \/ pretendRegistered

\* A poll that read nothing still runs eXosip_automatic_action: a challenge queued since
\* the read is answered before its event is handled.
EmptyPoll == /\ AutomaticCalls # calls \/ AutomaticRegs # reg
             /\ calls' = AutomaticCalls /\ reg' = AutomaticRegs
             /\ UNCHANGED <<fifo, bound, phoneVars>>

\* The stack has its own thread; everything else shares the main thread.
MainThread == \/ pollExosip
              \/ ~polling /\ EmptyPoll
              \/ ~polling /\ (User \/ System \/ Preferences \/ Sound) /\ UNCHANGED polling
              \/ ~polling /\ CrashOnCommand

Running == ~power.terminated /\ (MainThread \/ Stack)

\* An application that has left takes no step.
Terminated == power.terminated /\ UNCHANGED vars

Next == Running \/ Terminated

Spec == Init /\ [][Next]_vars

\* What the code's timers guarantee: the poll timer (10 Hz), the transaction timers,
\* the 180 seconds a call without a dialog may stay, the 120 seconds after which a
\* failed REGISTER is repeated.  The user and the peer owe nothing.
StackProgress(A) == ~power.terminated /\ A /\ UNCHANGED phoneVars

Fairness ==
    /\ WF_vars(~power.terminated /\ pollExosip)
    /\ \A c \in Cid : /\ WF_vars(StackProgress(ReleaseCall(c)))
                      /\ WF_vars(StackProgress(SndRefusal(c)))
    /\ \A r \in Rid : /\ WF_vars(StackProgress(\E code \in RegCodes : RcvRegisterAnswer(r, code)))
                      /\ WF_vars(StackProgress(RefreshRegister(r)))

FairSpec == Spec /\ Fairness

-----------------------------------------------------------------------------
StackTypes == /\ calls \in [Cid -> Call]
              /\ reg \in [Rid -> Reg]
              /\ fifo \in Seq(CallEvent \cup RegEvent)
              /\ bound \in [Rid -> BOOLEAN]

PhoneTypes == /\ media \in Media
              /\ ticket \in Ticket /\ history \in [Cid -> Nat]
              /\ state \in SipState
              /\ cid \in Cid \cup {NoCall} /\ did \in BOOLEAN
              /\ rid \in Rid

HelperTypes == /\ onDemand \in BOOLEAN /\ network \in BOOLEAN
               /\ account \in Rid \cup {NoAccount}
               /\ power \in Power

\* Type correctness of the state every component keeps; the retry counters of eXosip
\* stay within their limit, which no type of the code guarantees.
TypeOK == StackTypes /\ PhoneTypes /\ HelperTypes /\ polling \in BOOLEAN

Established(c) == calls[c].tr \in {"answered", "accepted"} /\ calls[c].dlg = "live"

Queued(type, c) == \E i \in 1..Len(fifo) : fifo[i].type = type /\ fifo[i].id = c

\* The phone never has two established calls (sipPhone.h: "We target only single call
\* phone"), whatever overlaps: an INVITE during a call, an answer after a hang-up.
SingleCall == \A a, b \in Cid : Established(a) /\ Established(b) => a = b

\* The media session serves the call the phone is busy with, is there while the phone is
\* online, and does not outlive the call: when the stack has released the call the event
\* that ends the session is already queued.  Two things defeat it, and only until the
\* media end next: a device that fails under an incoming call (UserPlane.m:511), and an
\* audio test that ends in a call (UserPlane.m:688).
MediaFollowsCall ==
    ~media.faulty =>
        /\ media.session # NoCall => media.session = cid /\ media.transport
        /\ state = "sip_online" => media.session = cid
        /\ media.session # NoCall /\ calls[cid].tr = "free" => Queued("CALL_RELEASED", cid)

\* The phone rings of itself only for a caller who still waits, or whose end is already
\* queued, whatever the debug window does with the ring.
RingsForCaller ==
    media.ring = "caller" =>
                  /\ state = "sip_incoming_call_ringing"
                  /\ \/ calls[cid].tr \in {"invited", "refusing"}
                     \/ Queued("CALL_CLOSED", cid) \/ Queued("CALL_RELEASED", cid)

\* A conversation the phone leaves, however it ends, is in the history exactly once.
ConversationLogged ==
    [][(state \in {"sip_online", "sip_initiated_clearing"} /\ state' \notin AboveRegistered)
       => history'[cid] = 1]_vars

\* The phone's states as the single line a user sees.
LineOf(s) == CASE s \in {"sip_outgoing_call_sent", "sip_outgoing_call_ringing"} -> "dialling"
               [] s = "sip_incoming_call_ringing" -> "alerting"
               [] s = "sip_incoming_call_acccepted" -> "accepted"
               [] s = "sip_online" -> "talking"
               [] s = "sip_initiated_clearing" -> "clearing"
               [] OTHER -> "idle"

Line == INSTANCE PhoneLine WITH line <- LineOf(state),
                                party <- IF state \in AboveRegistered THEN cid ELSE NoCall,
                                heard <- media.session,
                                faulty <- media.faulty

\* The phone is a single line to its user, although its stack has several calls and
\* reports on them late: no call takes over a line in use, is heard on another's line
\* or goes on being heard on an idle one, and none is talked to that was not answered.
\* What is heard is not promised from a device's failure or an ended test to the next end
\* of the media; what the line does, and for whom, is promised all the time.
ImplementsLine == Line!LineSpec

\* A request to quit never waits for a phone that is already off, even if the phone goes
\* off in the very step that asks it to (AppHelper.m:428).
QuitRequestHeard == power.exitRequested /\ ~power.terminated => state \notin Off

\* A request to sleep comes to wait for a phone that is off in one way only: the account
\* is incomplete, so that the phone goes off while it is told to unregister, before the
\* request is noted (AppHelper.m:259).  No later event of the phone, the network or the
\* user's ever leaves it so.
SleepRequestHeard ==
    [][power'.sleepRequested /\ ~power'.terminated /\ state' \in Off
       => \/ power.sleepRequested /\ state \in Off
          \/ account = NoAccount /\ power'.unanswered /\ ~power.unanswered]_vars

\* A hang-up is not the end of the matter: the phone waits in sip_initiated_clearing for
\* the stack, and must not stay there.
ClearingEnds == state = "sip_initiated_clearing" ~> state # "sip_initiated_clearing"

\* An un-REGISTER is challenged and the stack has no retry left: the phone goes to
\* sip_unregister_retry all the same (sipPhone.m:891), and nothing is ever sent again.
GivesUp == /\ state = "sip_unregister_in_progress" /\ fifo # << >>
           /\ Head(fifo).type = "REGISTRATION_FAILURE" /\ Head(fifo).info = "401"
           /\ AutomaticRegs[Head(fifo).id].tr # "sent" /\ ~CanResend(AutomaticRegs, Head(fifo).id)

\* A registration or un-registration under way comes to an end, whatever the registrar
\* answers and whichever event is taken for its answer, unless an un-registration is
\* given up.
RegistrationSettles == [](~GivesUp) => (state \in Registering ~> state \notin Registering)

\* A phone that stays registered can be called: the registrar ends up with a binding for
\* the account in the preferences, however often that and the network changed meanwhile.
RegisteredIsReachable ==
    \A a \in Rid : <>[](network /\ state = "sip_registered" /\ account = a) => <>[]bound[a]

\* Once asked to quit, the application leaves.
QuitCompletes == power.exitRequested ~> power.terminated

\* No outgoing call is under way and no event of one is queued.
NoOutgoingCall ==
    /\ \A c \in Cid : calls[c].tr \notin {"calling", "proceeding", "challenged", "answered"}
    /\ \A c \in Cid : ~Queued("CALL_RINGING", c) /\ ~Queued("CALL_ANSWERED", c)

\* The same when the request finds no outgoing call that a late answer could revive, and
\* the un-registration is not given up.
IdleQuitCompletes ==
    [](~GivesUp) =>
        (power.exitRequested /\ state \in Registering /\ NoOutgoingCall ~> power.terminated)
=============================================================================
