------------------------ MODULE ErrorMessagesProofs ------------------------
(***************************************************************************)
(* A message and its timer come and go together, and no timer cuts a       *)
(* message short, whatever the delays and the number of timer objects.     *)
(*                                                                         *)
(* OwnTimer is not inductive: a timer AppHelper still holds for a domain   *)
(* that shows nothing must not be given to the other domain, or a reset of *)
(* the first would take the timer of the second.                           *)
(***************************************************************************)
EXTENDS ErrorMessages, TLAPS

\* The run loop has the timer of each message and no other.
Owned == \A d \in Domain :
    /\ \A t \in Timers : runs[t] = d <=> (Shown(d) /\ t = clrMsgTimer[d])
    /\ Shown(d) => /\ clrMsgTimer[d] \in Timers
                   /\ left[clrMsgTimer[d]] + age[d] = Delay(err[d])

\* AppHelper holds two timers, not one twice.
Distinct == clrMsgTimer[0] = clrMsgTimer[1] => clrMsgTimer[0] = NoTimer

Inv == TypeOK /\ Owned /\ Distinct

\* A timer that is held is held for one domain.
LEMMA HeldOnce ==
    ASSUME Distinct, NEW d \in Domain, NEW e \in Domain, d # e, clrMsgTimer[e] \in Timers
    PROVE  clrMsgTimer[d] # clrMsgTimer[e]
BY TimerAssumption DEF Distinct, Domain

\* The modes of the run loop and the preference panel are no concern of the messages.
Flags == prefPanel' \in BOOLEAN /\ runLoop' \in Modes

\* Clearing a domain takes its timer and leaves the other domain's.
LEMMA ResetStep ==
    ASSUME Inv, NEW d \in Domain, resetErrorForDomain(d), Flags
    PROVE  Inv'
<1> USE DEF Domain, Stopped
<1>1. TypeOK'
  BY DEF Inv, TypeOK, resetErrorForDomain, Invalidated, Flags, Text, nil
<1>2. ~Shown(d)'
  BY DEF Inv, TypeOK, resetErrorForDomain, Shown
<1>3. \A e \in Domain \ {d} : /\ Shown(e)' <=> Shown(e)
                              /\ age'[e] = age[e] /\ err'[e] = err[e]
  BY DEF Inv, TypeOK, resetErrorForDomain, Shown
<1>4. Owned'
  <2> SUFFICES ASSUME NEW e \in Domain
               PROVE  /\ \A t \in Timers : runs'[t] = e <=> (Shown(e)' /\ t = clrMsgTimer'[e])
                      /\ Shown(e)' => /\ clrMsgTimer'[e] \in Timers
                                      /\ left'[clrMsgTimer'[e]] + age'[e] = Delay(err[e])'
    BY DEF Owned
  <2>1. CASE e = d
    <3>1. ASSUME NEW t \in Timers PROVE runs'[t] # d
      <4>1. runs[t] = d => t = clrMsgTimer[d]
        BY DEF Inv, Owned
      <4>q. QED BY <4>1 DEF resetErrorForDomain, Invalidated
    <3>q. QED BY <1>2, <2>1, <3>1
  <2>2. CASE e # d
    <3>1. \A t \in Timers : runs'[t] = e <=> (Shown(e)' /\ t = clrMsgTimer'[e])
      <4> SUFFICES ASSUME NEW t \in Timers
                   PROVE  runs'[t] = e <=> (Shown(e)' /\ t = clrMsgTimer'[e])
        OBVIOUS
      <4>1. runs[t] = e <=> (Shown(e) /\ t = clrMsgTimer[e])
        BY DEF Inv, Owned
      <4>2. t = clrMsgTimer[e] => t # clrMsgTimer[d]
        BY <2>2, HeldOnce DEF Inv
      <4>3. runs'[t] = IF t = clrMsgTimer[d] THEN Stopped ELSE runs[t]
        BY DEF resetErrorForDomain, Invalidated
      <4>q. QED BY <1>3, <2>2, <4>1, <4>2, <4>3 DEF resetErrorForDomain
    <3>2. ASSUME Shown(e)'
          PROVE  /\ clrMsgTimer'[e] \in Timers
                 /\ left'[clrMsgTimer'[e]] + age'[e] = Delay(err[e])'
      <4>1. clrMsgTimer[e] \in Timers /\ left[clrMsgTimer[e]] + age[e] = Delay(err[e])
        BY <1>3, <2>2, <3>2 DEF Inv, Owned
      <4>2. clrMsgTimer[e] # clrMsgTimer[d]
        BY <4>1, <2>2, HeldOnce DEF Inv
      <4>q. QED BY <1>3, <2>2, <4>1, <4>2 DEF Inv, TypeOK, resetErrorForDomain, Delay
    <3>q. QED BY <3>1, <3>2
  <2>q. QED BY <2>1, <2>2
<1>5. Distinct'
  BY DEF Inv, Distinct, resetErrorForDomain
<1>q. QED BY <1>1, <1>4, <1>5 DEF Inv

\* Showing a message replaces the timer of its domain and leaves the other domain's.
LEMMA SetStep ==
    ASSUME Inv, NEW d \in Domain, NEW error \in Text, NEW text \in Text \ {nil},
           setError(error, text, d), Flags
    PROVE  Inv'
<1> USE DEF Domain, Stopped
<1>d. Delay(error) \in Nat
  BY DelayAssumption DEF Delay
<1>1. PICK t \in Timers : /\ t \in Unused
                          /\ clrMsgTimer' = [clrMsgTimer EXCEPT ![d] = t]
                          /\ runs' = [Invalidated(d) EXCEPT ![t] = d]
                          /\ left' = [s \in Timers |-> IF s = t THEN Delay(error)
                                       ELSE IF s = clrMsgTimer[d] THEN 0 ELSE left[s]]
  BY DEF setError
<1>2. runs' = [s \in Timers |-> IF s = t THEN d ELSE IF s = clrMsgTimer[d] THEN Stopped ELSE runs[s]]
  BY <1>1 DEF Invalidated
<1>3. TypeOK'
  <2>1. err' \in [Domain -> Text] /\ diag' \in [Domain -> Text]
    BY DEF Inv, TypeOK, setError
  <2>2. clrMsgTimer' \in [Domain -> Timers \cup {NoTimer}]
    BY <1>1 DEF Inv, TypeOK
  <2>3. runs' \in [Timers -> Domain \cup {Stopped}]
    BY <1>2 DEF Inv, TypeOK
  <2>4. left' \in [Timers -> Nat] /\ age' \in [Domain -> Nat]
    BY <1>1, <1>d DEF Inv, TypeOK, setError
  <2>q. QED BY <2>1, <2>2, <2>3, <2>4 DEF TypeOK, Flags
<1>4. Shown(d)' /\ err'[d] = error /\ age'[d] = 0
  BY DEF Inv, TypeOK, setError, Shown
<1>5. \A e \in Domain \ {d} : /\ Shown(e)' <=> Shown(e)
                              /\ age'[e] = age[e] /\ err'[e] = err[e]
                              /\ clrMsgTimer'[e] = clrMsgTimer[e]
  BY <1>1 DEF Inv, TypeOK, setError, Shown
<1>6. \A e \in Domain : clrMsgTimer[e] # t
  BY <1>1 DEF Unused
<1>7. clrMsgTimer'[d] = t
  BY <1>1 DEF Inv, TypeOK
<1>8. Owned'
  <2> SUFFICES ASSUME NEW e \in Domain
               PROVE  /\ \A s \in Timers : runs'[s] = e <=> (Shown(e)' /\ s = clrMsgTimer'[e])
                      /\ Shown(e)' => /\ clrMsgTimer'[e] \in Timers
                                      /\ left'[clrMsgTimer'[e]] + age'[e] = Delay(err[e])'
    BY DEF Owned
  <2>1. CASE e = d
    <3>1. \A s \in Timers : runs'[s] = d <=> s = t
      BY <1>2 DEF Inv, Owned
    <3>2. left'[t] + age'[d] = Delay(err[d])'
      BY <1>1, <1>4, <1>d DEF Delay
    <3>q. QED BY <2>1, <3>1, <3>2, <1>4, <1>7
  <2>2. CASE e # d
    <3>1. \A s \in Timers : runs'[s] = e <=> (Shown(e)' /\ s = clrMsgTimer'[e])
      <4> SUFFICES ASSUME NEW s \in Timers
                   PROVE  runs'[s] = e <=> (Shown(e)' /\ s = clrMsgTimer'[e])
        OBVIOUS
      <4>1. runs[s] = e <=> (Shown(e) /\ s = clrMsgTimer[e])
        BY DEF Inv, Owned
      <4>2. runs[s] = d => s = clrMsgTimer[d]
        BY DEF Inv, Owned
      <4>3. s = clrMsgTimer[d] => s # clrMsgTimer[e]
        BY <2>2, HeldOnce DEF Inv
      <4>q. QED BY <1>2, <1>5, <1>6, <2>2, <4>1, <4>2, <4>3
    <3>2. ASSUME Shown(e)'
          PROVE  /\ clrMsgTimer'[e] \in Timers
                 /\ left'[clrMsgTimer'[e]] + age'[e] = Delay(err[e])'
      <4>1. clrMsgTimer[e] \in Timers /\ left[clrMsgTimer[e]] + age[e] = Delay(err[e])
        BY <1>5, <2>2, <3>2 DEF Inv, Owned
      <4>2. clrMsgTimer[e] # clrMsgTimer[d]
        BY <4>1, <2>2, HeldOnce DEF Inv
      <4>q. QED BY <1>1, <1>5, <1>6, <2>2, <4>1, <4>2 DEF Delay
    <3>q. QED BY <3>1, <3>2
  <2>q. QED BY <2>1, <2>2
<1>9. Distinct'
  <2>1. \A e \in Domain \ {d} : clrMsgTimer'[e] # clrMsgTimer'[d]
    BY <1>5, <1>6, <1>7
  <2>q. QED BY <2>1 DEF Distinct
<1>q. QED BY <1>3, <1>8, <1>9 DEF Inv

\* sipError shows one of the texts, or nothing for a status of 0.
LEMMA SipErrorStep ==
    ASSUME Inv, NEW d \in Domain, NEW code \in Status, NEW cse \in Cause,
           sipError(code, cse, d), runLoop' \in Modes
    PROVE  Inv'
<1>1. CASE code = 0
  BY <1>1 DEF sipError, Inv, TypeOK, Owned, Distinct, messages, timers, Shown, Delay
<1>2. CASE code # 0
  <2> DEFINE e == IF ~Abnormal(code, d) THEN nil
                  ELSE IF d = 1 THEN "call failed" ELSE "registration failed"
  <2>1. PICK text \in Diagnoses(code, cse, d) : setError(e, text, d)
    BY <1>2 DEF sipError
  <2>2. e \in Text
    BY DEF Text
  <2>3. Diagnoses(code, cse, d) \subseteq Text \ {nil}
    <3>1. Diagnosis(code, cse, d) \in {"error in config", "unauthorized",
                                       "incoming call refuses", "code and phrase"}
      BY DEF Diagnosis, Unless, StatusText, nil
    <3>q. QED BY <3>1 DEF Diagnoses, Text, nil
  <2>4. Flags
    BY <1>2 DEF sipError, Flags, Inv, TypeOK, AuthErr
  <2> HIDE DEF e
  <2>q. QED BY <2>1, <2>2, <2>3, <2>4, SetStep
<1>q. QED BY <1>1, <1>2

\* The messages, once nothing is shown, have no timers.
LEMMA InitInv == Init => Inv
<1> SUFFICES ASSUME Init PROVE Inv
  OBVIOUS
<1>1. TypeOK
  BY DEF Init, TypeOK, Domain, Modes, Text, Stopped
<1>2. \A d \in Domain : ~Shown(d)
  BY DEF Init, Shown
<1>3. Owned
  BY <1>2 DEF Init, Owned, Domain, Stopped
<1>q. QED BY <1>1, <1>3 DEF Init, Inv, Distinct, Domain

\* Time takes from a timer what it adds to the age of its message.
LEMMA TickStep == ASSUME Inv, Tick PROVE Inv'
<1>1. TypeOK'
  <2>1. left' \in [Timers -> Nat]
    BY DEF Inv, TypeOK, Tick
  <2>2. age' \in [Domain -> Nat]
    BY DEF Inv, TypeOK, Tick
  <2>q. QED BY <2>1, <2>2 DEF Inv, TypeOK, Tick
<1>2. \A d \in Domain : (Shown(d)' <=> Shown(d)) /\ Delay(err[d])' = Delay(err[d])
  BY DEF Tick, Shown, Delay
<1>3. \A d \in Domain : Delay(err[d]) \in Nat
  BY DelayAssumption DEF Delay
<1>4. ASSUME NEW d \in Domain, Shown(d)
      PROVE  /\ clrMsgTimer'[d] \in Timers
             /\ left'[clrMsgTimer'[d]] + age'[d] = Delay(err[d])
  <2> DEFINE t == clrMsgTimer[d]
  <2>1. t \in Timers /\ runs[t] = d /\ left[t] + age[d] = Delay(err[d])
    BY <1>4 DEF Inv, Owned
  <2>2. left'[t] = IF left[t] > 0 THEN left[t] - 1 ELSE left[t]
    BY <2>1 DEF Tick, Domain, Stopped
  <2>3. age'[d] = IF age[d] < Delay(err[d]) THEN age[d] + 1 ELSE age[d]
    BY <1>4 DEF Tick
  <2>4. left[t] \in Nat /\ age[d] \in Nat
    BY <2>1 DEF Inv, TypeOK
  <2>5. left'[t] + age'[d] = Delay(err[d])
    BY <1>3, <2>1, <2>2, <2>3, <2>4
  <2>q. QED BY <2>1, <2>5 DEF Tick
<1>5. Owned'
  BY <1>2, <1>4 DEF Owned, Inv, Tick
<1>q. QED BY <1>1, <1>5 DEF Inv, Distinct, Tick

\* Every caller of sipError, setError and resetErrorForDomain keeps Inv.
LEMMA StepInv == Inv /\ [Next]_errorVars => Inv'
<1> SUFFICES ASSUME Inv, [Next]_errorVars PROVE Inv'
  OBVIOUS
<1> USE DEF Domain
<1>f. prefPanel \in BOOLEAN /\ runLoop \in Modes
  BY DEF Inv, TypeOK
<1>s. UNCHANGED <<messages, timers>> /\ Flags => Inv'
  BY DEF Inv, TypeOK, Owned, Distinct, messages, timers, Shown, Delay, Flags
<1>1. ASSUME NEW code \in Status \ {-2}, NEW cse \in Cause, RegistrationFailure(code, cse)
      PROVE  Inv'
  <2>1. CASE code # 404 /\ sipError(code, cse, 0)
    BY <1>1, <1>f, <2>1, SipErrorStep DEF RegistrationFailure
  <2>2. CASE UNCHANGED <<messages, timers, prefPanel>>
    BY <1>1, <1>f, <1>s, <2>2 DEF RegistrationFailure, Flags
  <2>3. CASE setError("registration failed", "no reply", 0) /\ UNCHANGED prefPanel
    BY <1>1, <1>f, <2>3, SetStep DEF RegistrationFailure, Flags, Text, nil
  <2>q. QED BY <1>1, <2>1, <2>2, <2>3 DEF RegistrationFailure
<1>2. ASSUME NEW code \in Status \ {-2}, NEW cse \in Cause, CallFailure(code, cse)
      PROVE  Inv'
  BY <1>2, <1>f, SipErrorStep DEF CallFailure
<1>3. CASE RegistrationSuccess
  BY <1>3, <1>f, ResetStep DEF RegistrationSuccess, Flags
<1>4. CASE CallReleased
  BY <1>4, <1>f, SetStep DEF CallReleased, Flags, Text, nil
<1>5. CASE CallAnswered
  BY <1>5, <1>f, ResetStep DEF CallAnswered, Flags
<1>6. CASE registerPhone
  <2>1. CASE resetErrorForDomain(0) /\ UNCHANGED prefPanel
    BY <1>6, <1>f, <2>1, ResetStep DEF registerPhone, Flags
  <2>2. CASE sipError(-2, 0, 0)
    BY <1>6, <1>f, <2>2, SipErrorStep DEF registerPhone, Status, Cause
  <2>q. QED BY <1>6, <2>1, <2>2 DEF registerPhone
<1>7. CASE setSelectedNumber
  BY <1>7, <1>f, ResetStep DEF setSelectedNumber, Flags
<1>8. CASE Hold \/ Return
  BY <1>8, <1>f, <1>s DEF Hold, Return, Modes, Flags
<1>9. CASE Tick
  BY <1>9, TickStep
<1>10. ASSUME NEW d \in Domain, clrTimer(d) PROVE Inv'
  BY <1>10, <1>f, ResetStep DEF clrTimer, Flags
<1>11. CASE UNCHANGED errorVars
  BY <1>11, <1>f, <1>s DEF errorVars, Flags
<1>q. QED BY <1>1, <1>2, <1>3, <1>4, <1>5, <1>6, <1>7, <1>8, <1>9, <1>10, <1>11
         DEF Next, Poll

\* Inv is an invariant.
LEMMA AlwaysInv == Spec => []Inv
BY InitInv, StepInv, PTL DEF Spec

\* The messages of AppHelper.m and their timers keep their types.
THEOREM MessageTypes == Spec => []TypeOK
<1>1. Inv => TypeOK
  BY DEF Inv
<1>q. QED BY <1>1, AlwaysInv, PTL

\* Every message has its own timer and the run loop no other, however failures, resets,
\* time and the modes of the run loop interleave.
THEOREM MessagesOwnTimers == Spec => []OwnTimer
<1>1. Inv => OwnTimer
  BY DEF Inv, Owned, OwnTimer
<1>q. QED BY <1>1, AlwaysInv, PTL

\* A timer that clears a message has waited for exactly that message's time.
THEOREM NoMessageCutShort == Spec => NotCutShort
<1>1. Inv /\ [Next]_errorVars =>
        [\A d \in Domain : clrTimer(d) /\ Shown(d) => age[d] = Delay(err[d])]_errorVars
  <2> SUFFICES ASSUME Inv, NEW d \in Domain, clrTimer(d), Shown(d)
               PROVE  age[d] = Delay(err[d])
    OBVIOUS
  <2>1. PICK t \in Timers : runs[t] = d /\ left[t] = 0
    BY DEF clrTimer
  <2>2. t = clrMsgTimer[d] /\ left[t] + age[d] = Delay(err[d])
    BY <2>1 DEF Inv, Owned
  <2>q. QED BY <2>1, <2>2 DEF Inv, TypeOK
<1>q. QED BY <1>1, AlwaysInv, PTL DEF Spec, NotCutShort
=============================================================================
