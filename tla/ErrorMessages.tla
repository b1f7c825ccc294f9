--------------------------- MODULE ErrorMessages ---------------------------
(***************************************************************************)
(* AppHelper.m, "causes handling": the messages shown about a failed       *)
(* registration (domain 0) and a failed call (domain 1), and the timers    *)
(* that take them away.                                                    *)
(*                                                                         *)
(* The timers are in the default mode of the main run loop.  While a modal *)
(* panel is up, a quit waits for its answer, or the user holds a menu or a *)
(* control, it is in another mode: time passes and no timer fires.         *)
(* pollExosip: is in the default mode and in that of modal panels, so      *)
(* messages still come behind a panel and none while a control is held.    *)
(***************************************************************************)
EXTENDS Integers

CONSTANTS Timers,       \* the NSTimer objects
          ErrorDelay,   \* how long an error is shown (10 s)
          DiagDelay     \* how long a diagnostic without an error is shown (4 s)

ASSUME DelayAssumption == /\ DiagDelay \in Nat \ {0}
                          /\ ErrorDelay \in Nat \ {0}

VARIABLES err, diag,    \* what is shown, by domain
          clrMsgTimer,  \* the timer AppHelper holds for each domain
          runs,         \* the domain a timer of the run loop will clear
          left,         \* time before it fires
          age,          \* how long the message has been shown (history)
          prefPanel,    \* the account preferences were opened by a message
          runLoop       \* the mode of the run loop

messages == <<err, diag, age>>
timers == <<clrMsgTimer, runs, left>>
errorVars == <<messages, timers, prefPanel, runLoop>>

Domain == {0, 1}

Modes == {"default", "modal", "tracking"}

\* No timer; a timer that is not in the run loop; no message.
NoTimer == "no timer"
Stopped == -1
nil == "nil"

ASSUME TimerAssumption == NoTimer \notin Timers

\* The status codes sipError tells apart, -2 for a REGISTER that could not be built, and
\* 500 for the others.
Status == {-2, 0, 200, 401, 403, 404, 407, 486, 487, 500, 600, 603}

\* The Q.850 causes it tells apart; 0 for a reply without one.
Cause == {0, 17, 21, 51}

Init == /\ err = [d \in Domain |-> nil] /\ diag = [d \in Domain |-> nil]
        /\ clrMsgTimer = [d \in Domain |-> NoTimer]
        /\ runs = [t \in Timers |-> Stopped] /\ left = [t \in Timers |-> 0]
        /\ age = [d \in Domain |-> 0]
        /\ prefPanel = FALSE /\ runLoop = "default"

-----------------------------------------------------------------------------
\* What a failure is called.

\* The text a status code and its phrase make.
StatusText(code) == "code and phrase"

\* A text for a failure that has none yet.
Unless(cause, text) == IF cause = nil THEN text ELSE cause

\* Mutant: the text of a Q.850 cause is kept.
DiagnosisOfCause(code, cse, d) == IF cse # 0 THEN "Q.850 cause" ELSE StatusText(code)

\* The diagnostic.  The text q850 has for the cause is overwritten by that of the status
\* before the switch looks for a failure without one.
Diagnosis(code, cse, d) ==
    LET cause == StatusText(code)
    IN  CASE code = -2 -> "error in config"
          [] code \in {401, 407} -> "unauthorized"
          [] code = 603 /\ d = 1 -> "incoming call refuses"
          [] code = 487 /\ d = 1 -> Unless(cause, "call canceled")
          [] code \in {486, 600} -> Unless(cause, "busy")
          [] code = 403 /\ cse # 21 -> Unless(cause, "incorrect password")
          [] code = 404 /\ d = 1 -> Unless(cause, "user not found")
          [] OTHER -> cause

\* 403 with cause 21: the phrase decides, and every phrase but "Too many" has a name.
Diagnoses(code, cse, d) ==
    {Diagnosis(code, cse, d)} \cup
    (IF code = 403 /\ cse = 21 THEN {"already on line"} ELSE {})

Abnormal(code, d) == ~ (code = 200 \/ (code \in {603, 487} /\ d = 1))

\* The account preferences are for a 403 that has no text.
AuthErr(code, cse) == code = 403 /\ cse # 21 /\ StatusText(code) = nil

-----------------------------------------------------------------------------
\* Showing and clearing.

Shown(d) == err[d] # nil \/ diag[d] # nil

Delay(e) == IF e # nil THEN ErrorDelay ELSE DiagDelay

\* A timer neither the run loop nor AppHelper retains.
Unused == {t \in Timers : runs[t] = Stopped /\ \A d \in Domain : clrMsgTimer[d] # t}

\* Mutant: a message is taken away and its timer stays.
resetErrorForDomainOnly(d) ==
    /\ err' = [err EXCEPT ![d] = nil] /\ diag' = [diag EXCEPT ![d] = nil]
    /\ age' = [age EXCEPT ![d] = 0]
    /\ UNCHANGED <<runs, clrMsgTimer, left>>

\* The run loop without the timer a domain holds.
Invalidated(d) == [t \in Timers |-> IF t = clrMsgTimer[d] THEN Stopped ELSE runs[t]]

resetErrorForDomain(d) ==
    /\ runs' = Invalidated(d)
    /\ left' = [t \in Timers |-> IF t = clrMsgTimer[d] THEN 0 ELSE left[t]]
    /\ err' = [err EXCEPT ![d] = nil] /\ diag' = [diag EXCEPT ![d] = nil]
    /\ age' = [age EXCEPT ![d] = 0]
    /\ UNCHANGED clrMsgTimer

\* Mutant: the timer of the message that is replaced stays in the run loop.
setErrorKeepsTimer(error, text, d) ==
    /\ err' = [err EXCEPT ![d] = error] /\ diag' = [diag EXCEPT ![d] = text]
    /\ age' = [age EXCEPT ![d] = 0]
    /\ \E t \in Timers :
         /\ t \in Unused
         /\ clrMsgTimer' = [clrMsgTimer EXCEPT ![d] = t]
         /\ runs' = [runs EXCEPT ![t] = d]
         /\ left' = [left EXCEPT ![t] = Delay(error)]

setError(error, text, d) ==
    /\ err' = [err EXCEPT ![d] = error] /\ diag' = [diag EXCEPT ![d] = text]
    /\ age' = [age EXCEPT ![d] = 0]
    /\ \E t \in Timers :
         /\ t \in Unused
         /\ clrMsgTimer' = [clrMsgTimer EXCEPT ![d] = t]
         /\ runs' = [Invalidated(d) EXCEPT ![t] = d]
         /\ left' = [s \in Timers |-> IF s = t THEN Delay(error)
                                     ELSE IF s = clrMsgTimer[d] THEN 0 ELSE left[s]]

sipError(code, cse, d) ==
    IF code = 0 THEN UNCHANGED <<messages, timers, prefPanel>>
    ELSE /\ \E text \in Diagnoses(code, cse, d) :
              setError(IF ~Abnormal(code, d) THEN nil
                       ELSE IF d = 1 THEN "call failed" ELSE "registration failed",
                       text, d)
         /\ prefPanel' = (prefPanel \/ AuthErr(code, cse))

-----------------------------------------------------------------------------
\* Who shows and clears them.

\* Mutant: the timer of the call message takes the registration message.
clrTimerOther(d) ==
    /\ runLoop = "default"
    /\ \E t \in Timers : runs[t] = d /\ left[t] = 0
    /\ resetErrorForDomain(1 - d)
    /\ UNCHANGED <<prefPanel, runLoop>>

\* clrTimer0: and clrTimer1:.
clrTimer(d) ==
    /\ runLoop = "default"
    /\ \E t \in Timers : runs[t] = d /\ left[t] = 0
    /\ resetErrorForDomain(d)
    /\ UNCHANGED <<prefPanel, runLoop>>

\* A register or unregister clears, and shows why none could be built.  Then the message
\* is the one setError leaves, whatever was cleared before it.
registerPhone ==
    /\ \/ resetErrorForDomain(0) /\ UNCHANGED prefPanel
       \/ sipError(-2, 0, 0)
    /\ UNCHANGED runLoop

\* A number is typed or chosen, or a call is made.
setSelectedNumber == resetErrorForDomain(1) /\ UNCHANGED <<prefPanel, runLoop>>

\* The run loop is in a mode pollExosip: is in.
Polled == runLoop # "tracking"

\* A registration ends.  A first challenge and a 404 are not shown; neither is a lost
\* reply, whose status is 0, by sipError.
RegistrationFailure(code, cse) ==
    /\ Polled
    /\ \/ code # 404 /\ sipError(code, cse, 0)
       \/ code \in {401, 404, 407} /\ UNCHANGED <<messages, timers, prefPanel>>
       \/ code = 0 /\ setError("registration failed", "no reply", 0) /\ UNCHANGED prefPanel
    /\ UNCHANGED runLoop

RegistrationSuccess == Polled /\ resetErrorForDomain(0) /\ UNCHANGED <<prefPanel, runLoop>>

\* A call is refused, fails or is closed.  A challenge is not shown.
CallFailure(code, cse) ==
    /\ Polled
    /\ code \notin {401, 407}
    /\ sipError(code, cse, 1)
    /\ UNCHANGED runLoop

\* A call nobody answered is released.
CallReleased ==
    /\ Polled
    /\ setError("call failed", "SIP service not responding", 1)
    /\ UNCHANGED <<prefPanel, runLoop>>

\* A call is answered, or a second one is refused.
CallAnswered == Polled /\ resetErrorForDomain(1) /\ UNCHANGED <<prefPanel, runLoop>>

\* A panel comes up, or the user holds a control, in the panel or out of it.
Hold == /\ runLoop' \in {"modal", "tracking"} \ {runLoop}
        /\ UNCHANGED <<messages, timers, prefPanel>>

\* The user has answered the panel and lets the control go.
Return == /\ runLoop # "default"
          /\ runLoop' = "default"
          /\ UNCHANGED <<messages, timers, prefPanel>>

\* A run loop in its default mode does not wait past a timer that is due.
Tick ==
    /\ runLoop = "default" => \A t \in Timers : runs[t] # Stopped => left[t] > 0
    /\ \E t \in Timers : runs[t] # Stopped
    /\ left' = [t \in Timers |-> IF runs[t] # Stopped /\ left[t] > 0 THEN left[t] - 1 ELSE left[t]]
    /\ age' = [d \in Domain |-> IF Shown(d) /\ age[d] < Delay(err[d]) THEN age[d] + 1 ELSE age[d]]
    /\ UNCHANGED <<err, diag, clrMsgTimer, runs, prefPanel, runLoop>>

-----------------------------------------------------------------------------
Poll == \/ \E code \in Status \ {-2}, cse \in Cause :
             RegistrationFailure(code, cse) \/ CallFailure(code, cse)
        \/ RegistrationSuccess \/ CallReleased \/ CallAnswered

Next == \/ Poll \/ registerPhone \/ setSelectedNumber
        \/ Hold \/ Return \/ Tick \/ \E d \in Domain : clrTimer(d)

Spec == Init /\ [][Next]_errorVars

\* Time passes, the user comes back from panels and controls, and a run loop that comes back to its default
\* mode with a timer due fires it.
Fairness == /\ WF_errorVars(Tick)
            /\ WF_errorVars(Return)
            /\ \A d \in Domain : SF_errorVars(clrTimer(d))

FairSpec == Spec /\ Fairness

-----------------------------------------------------------------------------
Text == {nil, "call failed", "registration failed", "code and phrase", "error in config",
         "unauthorized", "incoming call refuses", "already on line", "no reply",
         "SIP service not responding", "call canceled", "busy", "incorrect password",
         "user not found"}

\* Type correctness of the messages and the timers.
TypeOK == /\ err \in [Domain -> Text] /\ diag \in [Domain -> Text]
          /\ clrMsgTimer \in [Domain -> Timers \cup {NoTimer}]
          /\ runs \in [Timers -> Domain \cup {Stopped}]
          /\ left \in [Timers -> Nat] /\ age \in [Domain -> Nat]
          /\ prefPanel \in BOOLEAN /\ runLoop \in Modes

\* A message and the timer that takes it away come and go together: a message has exactly
\* one timer in the run loop, the one AppHelper holds, which fires when the message has
\* been shown for its time; a domain that shows nothing has none.
OwnTimer == \A d \in Domain :
    LET mine == {t \in Timers : runs[t] = d}
    IN  IF Shown(d) THEN /\ mine = {clrMsgTimer[d]}
                         /\ left[clrMsgTimer[d]] + age[d] = Delay(err[d])
        ELSE mine = {}

\* The timer of an earlier message, or of the other domain, never cuts a message short.
NotCutShort == [][\A d \in Domain : clrTimer(d) /\ Shown(d) => age[d] = Delay(err[d])]_errorVars

\* A message goes away unless the same domain is given new ones for ever.
GoesAway == \A d \in Domain :
    \/ []<>~Shown(d)
    \/ []<><<\E e, g \in Text : setError(e, g, d)>>_errorVars
=============================================================================
