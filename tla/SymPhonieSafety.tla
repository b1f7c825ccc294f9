---------------------------- MODULE SymPhonieSafety ---------------------------
(***************************************************************************)
(* Safety of the whole specification, for every value of its constants.    *)
(* First type correctness: what each operator returns, then what each      *)
(* action of each component preserves, then the theorem.  Then that a      *)
(* request to quit, and one to sleep of a phone with a complete account,   *)
(* is heard, and that the phone rings only for a caller.                   *)
(***************************************************************************)
EXTENDS SymPhonie, TLAPS

-----------------------------------------------------------------------------
\* UserPlane: every method returns a media record.

\* setupAndGetLocalSdp returns a media record, whether or not a port is left.
LEMMA setupTypes ==
    ASSUME NEW m \in Media
    PROVE  setupAndGetLocalSdp(m) \in Media
<1> DEFINE held == m.lost + (IF m.transport THEN 1 ELSE 0)
<1>1. held \in Nat
  BY DEF Media
<1> HIDE DEF held
<1>2. /\ [m EXCEPT !.localSdp = FALSE] \in Media
      /\ [m EXCEPT !.transport = TRUE, !.localSdp = TRUE, !.lost = held] \in Media
  BY <1>1 DEF Media
<1> QED BY <1>2 DEF setupAndGetLocalSdp, held

\* The ring and the end of the media keep a media record one.
LEMMA SoundTypes ==
    ASSUME NEW m \in Media, NEW who \in {"caller", "debug"}, NEW b \in BOOLEAN
    PROVE  /\ startRing(m, who) \in Media /\ stopRing(m) \in Media /\ endUserPlane(m) \in Media
           /\ [endUserPlane(m) EXCEPT !.faulty = b] \in Media
<1>1. startRing(m, who) \in Media /\ stopRing(m) \in Media /\ endUserPlane(m) \in Media
    BY DEF Media, startRing, stopRing, endUserPlane
<1> QED BY <1>1 DEF Media

\* The methods that set a session up keep a media record one.
LEMMA MediaTypes ==
    ASSUME NEW m \in Media, NEW c \in Cid
    PROVE  /\ setupAndGetLocalSdp(m) \in Media
           /\ setupWithLocalSdp(m, c) \in Media /\ setupIncoming(m, c) \in Media
           /\ [setupWithLocalSdp(m, c) EXCEPT !.faulty = TRUE] \in Media
<1>2. setupAndGetLocalSdp(m) \in Media
    BY setupTypes
<1>3. setupWithLocalSdp(m, c) \in Media
    BY DEF Media, setupWithLocalSdp
<1>4. setupIncoming(m, c) \in Media
    BY <1>3 DEF Media, setupIncoming
<1>5. [setupWithLocalSdp(m, c) EXCEPT !.faulty = TRUE] \in Media
    BY <1>3 DEF Media
<1> QED BY <1>2, <1>3, <1>4, <1>5

\* setState: leaves a legal state and a media record, whatever hook it runs.
LEMMA setStateTypes ==
    ASSUME NEW s \in SipState, NEW m \in Media, setState(s, m)
    PROVE  state' \in SipState /\ media' \in Media
<1>1. startRing(m, "caller") \in Media /\ stopRing(m) \in Media
    BY DEF Media, startRing, stopRing
<1> QED BY <1>1 DEF setState

-----------------------------------------------------------------------------
\* CallTicketHandler.

\* The ticket methods keep the ticket and the history well typed.
LEMMA TicketTypes ==
    ASSUME ticket \in Ticket, history \in [Cid -> Nat]
    PROVE  /\ \A c \in Cid \cup {NoCall} :
                 tickStart(c) => ticket' \in Ticket /\ history' \in [Cid -> Nat]
           /\ tickOnline => ticket' \in Ticket /\ history' \in [Cid -> Nat]
           /\ tickHangupCause => ticket' \in Ticket /\ history' \in [Cid -> Nat]
<1>1. ASSUME NEW c \in Cid \cup {NoCall}, tickStart(c)
      PROVE  ticket' \in Ticket /\ history' \in [Cid -> Nat]
    BY <1>1 DEF tickStart, Ticket, clearInfo
<1>2. ASSUME tickOnline PROVE ticket' \in Ticket /\ history' \in [Cid -> Nat]
    BY <1>2 DEF tickOnline, Ticket
<1>3. ASSUME tickHangupCause PROVE ticket' \in Ticket /\ history' \in [Cid -> Nat]
  <2>1. ticket.call \in Cid \cup {NoCall} /\ clearInfo \in Ticket
    BY DEF Ticket, clearInfo
  <2>2. ASSUME ticket.call # NoCall
        PROVE  [history EXCEPT ![ticket.call] = @ + 1] \in [Cid -> Nat]
    <3>1. history[ticket.call] + 1 \in Nat
      BY <2>1, <2>2
    <3> QED BY <3>1
  <2> QED BY <1>3, <2>1, <2>2 DEF tickHangupCause
<1> QED BY <1>1, <1>2, <1>3

-----------------------------------------------------------------------------
\* EXosip's API.

\* A registration that was sent again with another retry counter is a registration.
LEMMA RegResent ==
    ASSUME NEW x \in Reg, NEW n \in 0..MaxRetry
    PROVE  [x EXCEPT !.tr = "sent", !.retry = n] \in Reg
BY DEF Reg

\* The registration functions of eXosip map registration tables to registration tables.
LEMMA RegTypes ==
    ASSUME NEW rs \in [Rid -> Reg], NEW r \in Rid
    PROVE  /\ \A expires \in Period : InitialRegister(rs, r, expires) \in [Rid -> Reg]
           /\ BuildUnregister(rs, r) \in [Rid -> Reg]
           /\ SendRegister(rs, r) \in [Rid -> Reg]
           /\ DefaultAction(rs, r) \in [Rid -> Reg]
<1> USE EXosipAssumption DEF Reg
<1>1. \A expires \in Period : InitialRegister(rs, r, expires) \in [Rid -> Reg]
    BY DEF InitialRegister
<1>2. BuildUnregister(rs, r) \in [Rid -> Reg]
  <2>1. 0 \in Period
    BY DEF Period
  <2> QED BY <2>1 DEF BuildUnregister
<1>3. SendRegister(rs, r) \in [Rid -> Reg]
    BY DEF SendRegister
<1>4. DefaultAction(rs, r) \in [Rid -> Reg]
  <2>1. ASSUME rs[r].retry # MaxRetry
        PROVE  [rs[r] EXCEPT !.tr = "sent", !.retry = rs[r].retry + 1] \in Reg
    <3>1. rs[r].retry + 1 \in 0..MaxRetry
      BY <2>1
    <3>2. rs[r] \in Reg
      OBVIOUS
    <3> HIDE DEF Reg
    <3> QED BY <3>1, <3>2, RegResent
  <2> HIDE DEF Reg
  <2> QED BY <2>1 DEF DefaultAction
<1> QED BY <1>1, <1>2, <1>3, <1>4

\* The entries eXosip creates for a new INVITE, in either direction, are calls.
LEMMA NewCallTypes ==
    /\ FreeCall \in Call
    /\ [FreeCall EXCEPT !.tr = "invited", !.dlg = "live"] \in Call
    /\ [FreeCall EXCEPT !.tr = "calling"] \in Call
<1>1. FreeCall \in Call
    BY EXosipAssumption DEF FreeCall, Call, TransactionState
<1>2. ASSUME NEW x \in Call
      PROVE  [x EXCEPT !.tr = "invited", !.dlg = "live"] \in Call /\ [x EXCEPT !.tr = "calling"] \in Call
    BY DEF Call, TransactionState
<1> QED BY <1>1, <1>2

\* The call functions of eXosip map call tables to call tables.
LEMMA CallTypes ==
    ASSUME NEW cs \in [Cid -> Call], NEW c \in Cid \cup {NoCall}, NEW d \in BOOLEAN
    PROVE  /\ Terminate(cs, c, d) \in [Cid -> Call]
           /\ \A tr \in {"accepted", "refusing"} : SendFinal(cs, c, tr) \in [Cid -> Call]
<1>1. Terminate(cs, c, d) \in [Cid -> Call]
    BY DEF Terminate, Call, TransactionState
<1>2. \A tr \in {"accepted", "refusing"} : SendFinal(cs, c, tr) \in [Cid -> Call]
    BY DEF SendFinal, Call, TransactionState
<1> QED BY <1>1, <1>2

\* eXosip_automatic_action keeps both tables well typed: its counters stop at MaxRetry.
LEMMA AutomaticTypes ==
    ASSUME calls \in [Cid -> Call], reg \in [Rid -> Reg]
    PROVE  AutomaticCalls \in [Cid -> Call] /\ AutomaticRegs \in [Rid -> Reg]
<1>1. \A n \in 0..MaxRetry : n < MaxRetry => n + 1 \in 0..MaxRetry
    BY EXosipAssumption
<1>2. AutomaticCalls \in [Cid -> Call]
  <2>1. ASSUME NEW c \in Cid, calls[c].retry < MaxRetry
        PROVE  [calls[c] EXCEPT !.tr = "calling", !.retry = @ + 1] \in Call
    <3>1. calls[c].retry + 1 \in 0..MaxRetry
      BY <1>1, <2>1 DEF Call
    <3> QED BY <3>1 DEF Call, TransactionState
  <2> QED BY <2>1 DEF AutomaticCalls
<1>3. AutomaticRegs \in [Rid -> Reg]
  <2>1. ASSUME NEW r \in Rid, reg[r].retry < MaxRetry
        PROVE  [reg[r] EXCEPT !.tr = "sent", !.retry = @ + 1] \in Reg
    <3>1. reg[r].retry + 1 \in 0..MaxRetry
      BY <1>1, <2>1 DEF Reg
    <3>2. reg[r] \in Reg
      OBVIOUS
    <3> QED BY <3>1, <3>2, RegResent
  <2> QED BY <2>1 DEF AutomaticRegs
<1> QED BY <1>2, <1>3

-----------------------------------------------------------------------------
\* EXosip's thread.

\* Appending an element of S to a sequence over S gives a sequence over S.
LEMMA AppendTypes ==
    ASSUME NEW S, NEW q \in Seq(S), NEW e \in S
    PROVE  Append(q, e) \in Seq(S)
OBVIOUS

\* The types and contents of the events the stack reports.
LEMMA EventNames ==
    /\ "CALL_INVITE" \in CallEventType /\ "CALL_RINGING" \in CallEventType
    /\ "CALL_ANSWERED" \in CallEventType /\ "CALL_REQUESTFAILURE" \in CallEventType
    /\ "CALL_SERVERFAILURE" \in CallEventType /\ "CALL_GLOBALFAILURE" \in CallEventType
    /\ "CALL_ACK" \in CallEventType /\ "CALL_CLOSED" \in CallEventType
    /\ "CALL_RELEASED" \in CallEventType
    /\ "challenge" \in CallInfo /\ "failure" \in CallInfo /\ "" \in CallInfo
BY DEF CallEventType, CallInfo

\* jevents.c: an event of a call is a well-typed event.
LEMMA ReportCallTypes ==
    ASSUME fifo \in Seq(CallEvent \cup RegEvent), NEW c \in Cid, NEW d \in BOOLEAN,
           NEW type \in CallEventType,
           NEW info \in CallInfo,
           Report(type, c, d, info)
    PROVE  fifo' \in Seq(CallEvent \cup RegEvent)
<1>1. [type |-> type, id |-> c, did |-> d, info |-> info] \in CallEvent \cup RegEvent
    BY DEF CallEvent
<1> QED BY <1>1, AppendTypes DEF Report

\* jevents.c: an event of a registration is a well-typed event.
LEMMA ReportRegTypes ==
    ASSUME fifo \in Seq(CallEvent \cup RegEvent), NEW r \in Rid,
           NEW type \in {"REGISTRATION_SUCCESS", "REGISTRATION_FAILURE"},
           NEW info \in {"200", "401", "407", "403", "404", "500", "noreply"},
           Report(type, r, FALSE, info)
    PROVE  fifo' \in Seq(CallEvent \cup RegEvent)
<1>1. [type |-> type, id |-> r, did |-> FALSE, info |-> info] \in CallEvent \cup RegEvent
    BY DEF RegEvent
<1> QED BY <1>1, AppendTypes DEF Report

\* A new INVITE keeps the stack well typed.
LEMMA RcvInviteTypes ==
    ASSUME StackTypes, NEW c \in Cid, NEW body \in Bodies, RcvInvite(c, body)
    PROVE  StackTypes'
<1>1. body \in CallInfo
    BY EXosipAssumption DEF CallInfo
<1>2. fifo' \in Seq(CallEvent \cup RegEvent)
    BY <1>1, ReportCallTypes, EventNames DEF RcvInvite, StackTypes
<1>3. [FreeCall EXCEPT !.tr = "invited", !.dlg = "live"] \in Call
    BY NewCallTypes
<1> QED BY <1>2, <1>3 DEF RcvInvite, StackTypes

\* Every message and timer of a call keeps the stack well typed.
LEMMA CallStepTypes ==
    ASSUME StackTypes, NEW c \in Cid,
           \/ Rcv100(c) \/ RcvChallenge(c) \/ RcvCancel(c) \/ SndRefusal(c)
           \/ RcvBye(c) \/ RcvAck(c) \/ ReleaseCall(c)
           \/ \E body \in Bodies \ {"anonymous"} : Rcv18x(c, body) \/ Rcv200(c, body)
           \/ \E type \in FailTypes \ {"challenge"} : RcvFailure(c, type)
    PROVE  StackTypes'
<1>1. CASE Rcv100(c)
    BY <1>1 DEF Rcv100, StackTypes, Call, TransactionState
<1>2. CASE RcvChallenge(c)
  <2>1. fifo' \in Seq(CallEvent \cup RegEvent)
    BY <1>2, ReportCallTypes, EventNames DEF RcvChallenge, StackTypes
  <2> QED BY <1>2, <2>1 DEF RcvChallenge, StackTypes, Call, TransactionState
<1>3. CASE RcvCancel(c)
    BY <1>3 DEF RcvCancel, StackTypes, Call, TransactionState
<1>4. CASE SndRefusal(c)
  <2>1. fifo' \in Seq(CallEvent \cup RegEvent)
    BY <1>4, ReportCallTypes, EventNames DEF SndRefusal, StackTypes
  <2> QED BY <1>4, <2>1 DEF SndRefusal, StackTypes, Call, TransactionState
<1>5. CASE RcvBye(c)
  <2>1. fifo' \in Seq(CallEvent \cup RegEvent)
    BY <1>5, ReportCallTypes, EventNames DEF RcvBye, StackTypes
  <2> QED BY <1>5, <2>1 DEF RcvBye, StackTypes, Call
<1>6. CASE RcvAck(c)
  <2>1. fifo' \in Seq(CallEvent \cup RegEvent)
    BY <1>6, ReportCallTypes, EventNames DEF RcvAck, StackTypes
  <2> QED BY <1>6, <2>1 DEF RcvAck, StackTypes
<1>7. CASE ReleaseCall(c)
  <2>1. fifo' \in Seq(CallEvent \cup RegEvent)
    BY <1>7, ReportCallTypes, EventNames DEF ReleaseCall, StackTypes
  <2> QED BY <1>7, <2>1, NewCallTypes DEF ReleaseCall, StackTypes
<1>8. ASSUME NEW body \in Bodies \ {"anonymous"}, Rcv18x(c, body) \/ Rcv200(c, body)
      PROVE  StackTypes'
  <2> DEFINE dlg == IF calls[c].dlg = "none" THEN "live" ELSE calls[c].dlg
  <2>1. body \in CallInfo
    BY EXosipAssumption DEF CallInfo
  <2>2. dlg \in {"live", "dead"} /\ (dlg = "live") \in BOOLEAN
    BY DEF StackTypes, Call
  <2>3. CASE Rcv18x(c, body)
    <3>1. Report("CALL_RINGING", c, dlg = "live", body)
      BY <2>3 DEF Rcv18x
    <3>2. calls' = [calls EXCEPT ![c].tr = "proceeding", ![c].dlg = dlg]
          /\ UNCHANGED <<reg, bound>>
      BY <2>3 DEF Rcv18x
    <3> HIDE DEF dlg
    <3>3. fifo' \in Seq(CallEvent \cup RegEvent)
      BY <3>1, <2>1, <2>2, ReportCallTypes, EventNames DEF StackTypes
    <3> QED BY <3>2, <3>3, <2>2 DEF StackTypes, Call, TransactionState
  <2>4. CASE Rcv200(c, body)
    <3>1. fifo' \in Seq(CallEvent \cup RegEvent)
      BY <2>4, <2>1, ReportCallTypes, EventNames DEF Rcv200, StackTypes
    <3>2. [tr |-> "answered", dlg |-> "live", retry |-> 0] \in Call
      BY EXosipAssumption DEF Call, TransactionState
    <3>3. [calls EXCEPT ![c].tr = "answered", ![c].retry = 0] \in [Cid -> Call]
      <4>1. PICK n \in 0..MaxRetry : n = 0
        BY EXosipAssumption
      <4> QED BY <4>1 DEF StackTypes, Call, TransactionState
    <3>4. calls' \in [Cid -> Call] /\ UNCHANGED <<reg, bound>>
      BY <2>4, <3>2, <3>3 DEF Rcv200, StackTypes
    <3> QED BY <3>1, <3>4 DEF StackTypes
  <2> QED BY <1>8, <2>3, <2>4
<1>9. ASSUME NEW type \in FailTypes \ {"challenge"}, RcvFailure(c, type)
      PROVE  StackTypes'
  <2>1. type \in CallEventType
    BY EXosipAssumption DEF CallEventType
  <2> DEFINE live == calls[c].dlg = "live"
  <2>2. live \in BOOLEAN /\ Report(type, c, live, "failure")
    BY <1>9 DEF RcvFailure
  <2> HIDE DEF live
  <2>3. fifo' \in Seq(CallEvent \cup RegEvent)
    BY <2>1, <2>2, ReportCallTypes, EventNames DEF StackTypes
  <2> DEFINE dlg == IF calls[c].dlg = "none" THEN "none" ELSE "dead"
  <2>4. dlg \in {"none", "dead"} /\ UNCHANGED <<reg, bound>>
        /\ calls' = [calls EXCEPT ![c].tr = "failed", ![c].dlg = dlg]
    BY <1>9 DEF RcvFailure
  <2> HIDE DEF dlg
  <2> QED BY <2>3, <2>4 DEF StackTypes, Call, TransactionState
<1> QED BY <1>1, <1>2, <1>3, <1>4, <1>5, <1>6, <1>7, <1>8, <1>9

\* Every answer and timer of a registration keeps the stack well typed.
LEMMA RegStepTypes ==
    ASSUME StackTypes, NEW r \in Rid,
           \/ RefreshRegister(r) \/ ReleaseRegister(r)
           \/ \E code \in RegCodes : RcvRegisterAnswer(r, code)
    PROVE  StackTypes'
<1>1. CASE RefreshRegister(r)
    BY <1>1, RegTypes DEF RefreshRegister, StackTypes
<1>2. CASE ReleaseRegister(r)
  <2>1. NoReg \in Reg
    BY EXosipAssumption DEF NoReg, Reg, Period
  <2> QED BY <1>2, <2>1 DEF ReleaseRegister, StackTypes
<1>3. ASSUME NEW code \in RegCodes, RcvRegisterAnswer(r, code)
      PROVE  StackTypes'
  <2>1. code \in {"200", "401", "407", "403", "404", "500", "noreply"}
    BY EXosipAssumption
  <2>2. fifo' \in Seq(CallEvent \cup RegEvent)
    BY <1>3, <2>1, ReportRegTypes DEF RcvRegisterAnswer, StackTypes
  <2>3. bound' \in [Rid -> BOOLEAN]
    BY <1>3 DEF RcvRegisterAnswer, Bind, StackTypes
  <2>4. 0 \in 0..MaxRetry
    BY EXosipAssumption
  <2>5. reg' \in [Rid -> Reg]
    <3>1. /\ [reg EXCEPT ![r].tr = "ok", ![r].retry = 0] \in [Rid -> Reg]
          /\ \A tr \in {"challenged", "failed"} : [reg EXCEPT ![r].tr = tr] \in [Rid -> Reg]
      BY <2>4 DEF StackTypes, Reg
    <3> QED BY <1>3, <3>1 DEF RcvRegisterAnswer
  <2> QED BY <1>3, <2>2, <2>3, <2>5 DEF RcvRegisterAnswer, StackTypes
<1> QED BY <1>1, <1>2, <1>3

-----------------------------------------------------------------------------
\* The phone's commands.

\* registerPhoneOnDemand:dur: keeps the stack and the phone well typed.
LEMMA registerPhoneOnDemandTypes ==
    ASSUME TypeOK, NEW forCall \in BOOLEAN, NEW dur \in Period,
           registerPhoneOnDemand(forCall, dur)
    PROVE  StackTypes' /\ PhoneTypes'
<1> DEFINE s == IF account = NoAccount THEN "sip_off"
                ELSE IF dur = 0 THEN "sip_unregister_in_progress"
                ELSE IF forCall THEN "sip_register2call_in_progress"
                ELSE "sip_register_in_progress"
<1>1. s \in SipState /\ setState(s, media)
    BY DEF registerPhoneOnDemand, SipState, BelowRegistered, Registering, Off
<1>2. reg' \in [Rid -> Reg] /\ rid' \in Rid
    BY RegTypes DEF registerPhoneOnDemand, TypeOK, StackTypes, PhoneTypes, HelperTypes
<1> HIDE DEF s
<1>3. state' \in SipState /\ media' \in Media
    BY <1>1, setStateTypes DEF TypeOK, PhoneTypes
<1> QED BY <1>2, <1>3
        DEF registerPhoneOnDemand, TypeOK, StackTypes, PhoneTypes, ticketVars

\* registerPhone keeps the stack and the phone well typed.
LEMMA registerPhoneTypes ==
    ASSUME TypeOK, registerPhone
    PROVE  StackTypes' /\ PhoneTypes'
<1>1. 0 \in Period /\ Expires \in Period
    BY DEF Period
<1>2. CASE UNCHANGED <<sipVars, fsmVars, ticketVars, media>>
    BY <1>2 DEF TypeOK, StackTypes, PhoneTypes, sipVars, fsmVars, ticketVars
<1>3. CASE registerPhoneOnDemand(FALSE, 0)
    BY <1>1, <1>3, registerPhoneOnDemandTypes
<1>4. CASE registerPhoneOnDemand(FALSE, Expires)
    BY <1>1, <1>4, registerPhoneOnDemandTypes
<1>5. \/ registerPhoneOnDemand(FALSE, 0) \/ registerPhoneOnDemand(FALSE, Expires)
      \/ UNCHANGED <<sipVars, fsmVars, ticketVars, media>>
    BY DEF registerPhone
<1> QED BY <1>2, <1>3, <1>4, <1>5

\* The un-REGISTER of unregisterPhone is for a known account and leaves a table of them.
LEMMA UnregisterTypes ==
    ASSUME NEW rs \in [Rid -> Reg], rid \in Rid, account \in Rid \cup {NoAccount},
           CanUnregister(rs)
    PROVE  Unregister(rs) \in [Rid -> Reg] /\ UnregisterRid(rs) \in Rid
<1>1. BuildUnregister(rs, rid) \in [Rid -> Reg] /\ 0 \in Period
    BY RegTypes DEF Period
<1>2. CannotBuildRegister(rs, rid) => account \in Rid
    BY DEF CanUnregister
<1> QED BY <1>1, <1>2, RegTypes DEF Unregister, UnregisterRid

\* HangUp keeps calls and ticket well typed.
LEMMA HangUpTypes ==
    ASSUME TypeOK, HangUp
    PROVE  calls' \in [Cid -> Call] /\ ticket' \in Ticket /\ history' \in [Cid -> Nat]
<1>1. Terminate(calls, cid, did) \in [Cid -> Call]
    BY CallTypes DEF TypeOK, StackTypes, PhoneTypes
<1> QED BY <1>1, TicketTypes DEF HangUp, TypeOK, StackTypes, PhoneTypes, ticketVars

\* unregisterPhone keeps the stack and the phone well typed.
LEMMA unregisterPhoneTypes ==
    ASSUME TypeOK, unregisterPhone
    PROVE  StackTypes' /\ PhoneTypes'
<1>1. CASE state \in BelowRegistered
  <2>1. 0 \in Period
    BY DEF Period
  <2> QED BY <1>1, <2>1, registerPhoneOnDemandTypes DEF unregisterPhone
<1>2. CASE state \notin BelowRegistered
  <2>1. calls' \in [Cid -> Call] /\ ticket' \in Ticket /\ history' \in [Cid -> Nat]
    BY <1>2, HangUpTypes DEF unregisterPhone
  <2>2. reg' \in [Rid -> Reg] /\ rid' \in Rid
    BY <1>2, UnregisterTypes DEF unregisterPhone, TypeOK, StackTypes, PhoneTypes, HelperTypes
  <2>3. "sip_unregister_in_progress" \in SipState
    BY DEF SipState, BelowRegistered, Registering
  <2>4. state' \in SipState /\ media' \in Media
    BY <1>2, <2>3, setStateTypes DEF unregisterPhone, TypeOK, PhoneTypes
  <2> QED BY <1>2, <2>1, <2>2, <2>4 DEF unregisterPhone, TypeOK, StackTypes, PhoneTypes
<1> QED BY <1>1, <1>2

\* makeOutCall keeps the calls and the phone well typed, whether or not it gets through.
LEMMA makeOutCallTypes ==
    ASSUME TypeOK, NEW cs \in [Cid -> Call], makeOutCall(cs)
    PROVE  /\ calls' \in [Cid -> Call] /\ cid' \in Cid \cup {NoCall} /\ did' \in BOOLEAN
           /\ ticket' \in Ticket /\ history' \in [Cid -> Nat]
           /\ state' \in SipState /\ media' \in Media
<1> DEFINE m == setupAndGetLocalSdp(endUserPlane(media))
<1>1. media \in Media /\ endUserPlane(media) \in Media
    BY DEF TypeOK, PhoneTypes, Media, endUserPlane
<1>2. m \in Media
    BY <1>1, setupTypes
<1>3. "sip_registered" \in SipState /\ "sip_outgoing_call_sent" \in SipState
    BY DEF SipState, AboveRegistered, HangUpStates
<1>4. ticket \in Ticket /\ history \in [Cid -> Nat] /\ cid \in Cid \cup {NoCall} /\ did \in BOOLEAN
    BY DEF TypeOK, PhoneTypes
<1>5. PICK c \in Cid \cup {NoCall}, s \in {"sip_registered", "sip_outgoing_call_sent"},
           x \in {media, m} : tickStart(c) /\ setState(s, x)
    BY DEF makeOutCall
<1> HIDE DEF m
<1>6. ticket' \in Ticket /\ history' \in [Cid -> Nat]
    BY <1>4, <1>5, TicketTypes
<1>7. state' \in SipState /\ media' \in Media
    BY <1>1, <1>2, <1>3, <1>5, setStateTypes
<1>8. calls' \in [Cid -> Call] /\ cid' \in Cid \cup {NoCall} /\ did' \in BOOLEAN
    BY <1>4, NewCallTypes DEF makeOutCall
<1> QED BY <1>6, <1>7, <1>8

\* phoneIsOff: answers requests and keeps their record well typed.
LEMMA PowerTypes ==
    ASSUME NEW p \in Power
    PROVE  /\ sleepOk(p) \in Power /\ phoneIsOff(p) \in Power
           /\ \A s : PowerOn(p, s) \in Power
<1>1. sleepOk(p) \in Power
    BY DEF Power, sleepOk
<1>2. phoneIsOff(p) \in Power
  <2>1. \A q \in Power, b \in BOOLEAN : [q EXCEPT !.terminated = b] \in Power
    BY DEF Power
  <2>2. p.exitRequested \in BOOLEAN
    BY DEF Power
  <2> QED BY <1>1, <2>1, <2>2 DEF phoneIsOff
<1> QED BY <1>1, <1>2 DEF PowerOn

\* The user's commands keep the stack, the phone and its requests well typed.
LEMMA UserTypes ==
    ASSUME TypeOK, dialOutCall \/ hangUpCall \/ acceptCall
    PROVE  StackTypes' /\ PhoneTypes' /\ HelperTypes'
<1> USE DEF TypeOK, StackTypes, PhoneTypes
<1>h. UNCHANGED helperVars => HelperTypes'
    BY DEF HelperTypes, helperVars
<1>1. CASE dialOutCall
  <2>1. CASE registerPhoneOnDemand(TRUE, Expires) /\ power' = PowerOn(power, state')
             /\ UNCHANGED <<onDemand, account, network>>
    <3>1. Expires \in Period
      BY DEF Period
    <3>2. HelperTypes'
      BY <2>1, PowerTypes DEF HelperTypes
    <3> QED BY <2>1, <3>1, <3>2, registerPhoneOnDemandTypes
  <2>2. CASE makeOutCall(calls) /\ UNCHANGED <<reg, fifo, bound, rid, helperVars>>
    BY <1>h, <2>2, makeOutCallTypes
  <2> QED BY <1>1, <2>1, <2>2 DEF dialOutCall
<1>2. CASE hangUpCall
  <2>1. calls' \in [Cid -> Call] /\ ticket' \in Ticket /\ history' \in [Cid -> Nat]
    BY <1>2, HangUpTypes DEF hangUpCall
  <2>2. "sip_initiated_clearing" \in SipState
    BY DEF SipState, AboveRegistered
  <2>3. state' \in SipState /\ media' \in Media
    BY <1>2, <2>2, setStateTypes DEF hangUpCall
  <2> QED BY <1>h, <1>2, <2>1, <2>3 DEF hangUpCall
<1>3. CASE acceptCall
  <2>1. calls' \in [Cid -> Call]
    BY <1>3, CallTypes DEF acceptCall
  <2>2. "sip_incoming_call_acccepted" \in SipState
    BY DEF SipState, AboveRegistered
  <2>3. state' \in SipState /\ media' \in Media
    BY <1>3, <2>2, setStateTypes DEF acceptCall
  <2> QED BY <1>h, <1>3, <2>1, <2>3 DEF acceptCall, ticketVars
<1> QED BY <1>1, <1>2, <1>3

-----------------------------------------------------------------------------
\* The event loop.

\* The event pollExosip reads is a call's or a registration's, as its type says.
LEMMA HeadTypes ==
    ASSUME TypeOK, fifo # << >>
    PROVE  /\ Tail(fifo) \in Seq(CallEvent \cup RegEvent)
           /\ Head(fifo).did \in BOOLEAN
           /\ Head(fifo).type \in {"REGISTRATION_SUCCESS", "REGISTRATION_FAILURE"}
                => Head(fifo) \in RegEvent
           /\ Head(fifo).type \notin {"REGISTRATION_SUCCESS", "REGISTRATION_FAILURE"}
                => Head(fifo) \in CallEvent
<1>1. fifo \in Seq(CallEvent \cup RegEvent)
    BY DEF TypeOK, StackTypes
<1>2. Head(fifo) \in CallEvent \cup RegEvent /\ Tail(fifo) \in Seq(CallEvent \cup RegEvent)
    BY <1>1
<1> QED BY <1>2 DEF CallEvent, CallEventType, RegEvent

\* terminateCall leaves well-typed tables, media and state.
LEMMA terminateCallTypes ==
    ASSUME TypeOK, NEW cs \in [Cid -> Call], NEW rs \in [Rid -> Reg], terminateCall(cs, rs),
           onDemand => CanUnregister(rs)
    PROVE  /\ calls' \in [Cid -> Call] /\ reg' \in [Rid -> Reg] /\ rid' \in Rid
           /\ state' \in SipState /\ media' \in Media
<1> USE DEF TypeOK, StackTypes, PhoneTypes, HelperTypes
<1>1. calls' \in [Cid -> Call]
    BY CallTypes DEF terminateCall
<1>2. reg' \in [Rid -> Reg] /\ rid' \in Rid
    BY UnregisterTypes DEF terminateCall
<1> DEFINE s == IF onDemand THEN "sip_unregister_in_progress" ELSE "sip_registered"
           m == endUserPlane(media)
<1>3. s \in SipState /\ setState(s, m)
    BY DEF terminateCall, SipState, BelowRegistered, Registering
<1>4. m \in Media
    BY DEF Media, endUserPlane
<1> HIDE DEF s, m
<1>5. state' \in SipState /\ media' \in Media
    BY <1>3, <1>4, setStateTypes
<1> QED BY <1>1, <1>2, <1>5

\* EndCall leaves well-typed tables, media and state.
LEMMA EndCallTypes ==
    ASSUME TypeOK, EndCall
    PROVE  /\ calls' \in [Cid -> Call] /\ reg' \in [Rid -> Reg] /\ rid' \in Rid
           /\ state' \in SipState /\ media' \in Media
<1>1. AutomaticCalls \in [Cid -> Call] /\ AutomaticRegs \in [Rid -> Reg]
    BY AutomaticTypes DEF TypeOK, StackTypes
<1>2. CASE state \in AboveRegistered
    BY <1>1, <1>2, terminateCallTypes DEF EndCall
<1>3. CASE state \notin AboveRegistered
  <2>1. endUserPlane(media) \in Media
    BY DEF TypeOK, PhoneTypes, Media, endUserPlane
  <2> QED BY <1>1, <1>3, <2>1 DEF EndCall, TypeOK, PhoneTypes
<1> QED BY <1>2, <1>3

\* The loop goes on or not.
LEMMA ContinueTypes == Continue \/ Leave => polling' \in BOOLEAN
<1>1. ASSUME Continue PROVE polling' \in BOOLEAN
    BY <1>1 DEF Continue
<1>2. ASSUME Leave PROVE polling' \in BOOLEAN
    BY <1>2 DEF Leave
<1> QED BY <1>1, <1>2

\* A registration event keeps everything well typed.
LEMMA RegistrationTypes ==
    ASSUME TypeOK, RegistrationFailure \/ RegistrationSuccess
    PROVE  TypeOK'
<1> USE DEF TypeOK, StackTypes, PhoneTypes, HelperTypes
<1>1. AutomaticCalls \in [Cid -> Call] /\ AutomaticRegs \in [Rid -> Reg]
    BY AutomaticTypes
<1>2. fifo # << >> /\ fifo' = Tail(fifo) /\ Head(fifo) \in RegEvent
    BY HeadTypes DEF RegistrationFailure, RegistrationSuccess, Reads
<1>3. fifo' \in Seq(CallEvent \cup RegEvent)
    BY <1>2, HeadTypes
<1>4. polling' \in BOOLEAN
    BY ContinueTypes DEF RegistrationFailure, RegistrationSuccess
<1>5. CASE RegistrationFailure
  <2> DEFINE code == Head(fifo).info
             r == Head(fifo).id
             challenge == state \in FirstTry /\ code \in {"401", "407"}
             next == AfterRegistrationFailure(code, challenge /\ CanResend(AutomaticRegs, r))
  <2>1. r \in Rid
    BY <1>2 DEF RegEvent
  <2>2. next \in SipState
    BY DEF AfterRegistrationFailure, SipState, BelowRegistered, Off, Registering
  <2>3. setState(next, media) /\ power' = PowerOn(power, next)
    BY <1>5 DEF RegistrationFailure
  <2>4. reg' = IF challenge THEN DefaultAction(AutomaticRegs, r) ELSE AutomaticRegs
    BY <1>5 DEF RegistrationFailure
  <2> HIDE DEF r, next, challenge
  <2>5. reg' \in [Rid -> Reg]
    BY <1>1, <2>1, <2>4, RegTypes
  <2>6. state' \in SipState /\ media' \in Media
    BY <2>2, <2>3, setStateTypes
  <2>7. power' \in Power
    BY <2>2, <2>3, PowerTypes
  <2> QED BY <1>1, <1>3, <1>4, <1>5, <2>5, <2>6, <2>7 DEF RegistrationFailure, ticketVars
<1>6. CASE RegistrationSuccess
  <2>1. reg' \in [Rid -> Reg]
    BY <1>1, <1>6 DEF RegistrationSuccess
  <2>2. CASE makeOutCall(AutomaticCalls) /\ UNCHANGED power
    BY <1>1, <1>3, <1>4, <1>6, <2>1, <2>2, makeOutCallTypes DEF RegistrationSuccess
  <2>3. CASE ~(makeOutCall(AutomaticCalls) /\ UNCHANGED power)
    <3>1. /\ setState(AfterRegistrationSuccess, media) /\ power' = PowerOn(power, AfterRegistrationSuccess)
          /\ calls' = AutomaticCalls /\ UNCHANGED <<cid, did, ticketVars>>
      BY <1>6, <2>3 DEF RegistrationSuccess
    <3>2. AfterRegistrationSuccess \in SipState
      BY DEF AfterRegistrationSuccess, SipState, BelowRegistered, Off
    <3>3. state' \in SipState /\ media' \in Media /\ power' \in Power
      BY <3>1, <3>2, setStateTypes, PowerTypes
    <3> QED BY <1>1, <1>3, <1>4, <1>6, <2>1, <3>1, <3>3 DEF RegistrationSuccess, ticketVars
  <2> QED BY <2>2, <2>3
<1> QED BY <1>5, <1>6

\* An INVITE or an event of another call keeps everything well typed.
LEMMA OtherCallTypes ==
    ASSUME TypeOK, RefuseInvite \/ AcceptInvite \/ OtherCallEvent
    PROVE  TypeOK'
<1> USE DEF TypeOK, StackTypes, PhoneTypes, HelperTypes
<1>1. AutomaticCalls \in [Cid -> Call] /\ AutomaticRegs \in [Rid -> Reg]
    BY AutomaticTypes
<1>2. fifo # << >> /\ fifo' = Tail(fifo)
    BY DEF RefuseInvite, AcceptInvite, OtherCallEvent, Reads
<1>3. fifo' \in Seq(CallEvent \cup RegEvent)
    BY <1>2, HeadTypes
<1>4. polling' \in BOOLEAN
    BY ContinueTypes DEF RefuseInvite, AcceptInvite, OtherCallEvent
<1>5. CASE RefuseInvite
  <2>1. Head(fifo).id \in Cid
    BY <1>2, <1>5, HeadTypes DEF RefuseInvite, Reads, CallEvent
  <2>2. calls' \in [Cid -> Call]
    BY <1>1, <1>5, <2>1, CallTypes DEF RefuseInvite
  <2> QED BY <1>1, <1>3, <1>4, <1>5, <2>2 DEF RefuseInvite, fsmVars, ticketVars, helperVars
<1>6. CASE AcceptInvite
  <2> DEFINE c == Head(fifo).id
             m == setupAndGetLocalSdp(media)
  <2>1. c \in Cid /\ Head(fifo).did \in BOOLEAN
    BY <1>2, <1>6, HeadTypes DEF AcceptInvite, Reads, CallEvent
  <2>2. m \in Media
    BY setupTypes
  <2>3. setupIncoming(m, c) \in Media /\ [setupWithLocalSdp(m, c) EXCEPT !.faulty = TRUE] \in Media
    BY <2>1, <2>2, MediaTypes
  <2>4. "sip_incoming_call_ringing" \in SipState
    BY DEF SipState, AboveRegistered, HangUpStates
  <2>5. \/ media' \in {m, [setupWithLocalSdp(m, c) EXCEPT !.faulty = TRUE]}
           /\ UNCHANGED <<state, ticketVars>>
        \/ setState("sip_incoming_call_ringing", setupIncoming(m, c)) /\ tickStart(c)
    BY <1>6 DEF AcceptInvite
  <2>6. cid' = c /\ did' = Head(fifo).did /\ calls' = AutomaticCalls /\ reg' = AutomaticRegs
        /\ UNCHANGED <<bound, rid, helperVars>>
    BY <1>6 DEF AcceptInvite
  <2> HIDE DEF c, m
  <2>7. media' \in Media /\ state' \in SipState
    BY <2>2, <2>3, <2>4, <2>5, setStateTypes
  <2>8. ticket' \in Ticket /\ history' \in [Cid -> Nat]
    BY <2>1, <2>5, TicketTypes DEF ticketVars
  <2> QED BY <1>1, <1>3, <1>4, <2>1, <2>6, <2>7, <2>8 DEF helperVars
<1>7. CASE OtherCallEvent
    BY <1>1, <1>3, <1>4, <1>7 DEF OtherCallEvent, fsmVars, ticketVars, helperVars
<1> QED BY <1>5, <1>6, <1>7

\* An event of the current call keeps everything well typed.
LEMMA CurrentCallTypes ==
    ASSUME TypeOK,
           \/ CallRinging \/ CallRequestFailure \/ CallServerOrGlobalFailure
           \/ CallAnswered \/ CallReleased \/ CallClosed \/ CallAck
    PROVE  TypeOK'
<1> USE DEF TypeOK, StackTypes, PhoneTypes, HelperTypes
<1>1. AutomaticCalls \in [Cid -> Call] /\ AutomaticRegs \in [Rid -> Reg]
    BY AutomaticTypes
<1>2. /\ fifo # << >> /\ fifo' = Tail(fifo) /\ Head(fifo).id = cid
      /\ Head(fifo).type \notin {"REGISTRATION_SUCCESS", "REGISTRATION_FAILURE"}
    BY DEF CallRinging, CallRequestFailure, CallServerOrGlobalFailure, CallAnswered,
           CallReleased, CallClosed, CallAck, ReadsCurrent, Reads
<1>3. fifo' \in Seq(CallEvent \cup RegEvent)
    BY <1>2, HeadTypes
<1>4. polling' \in BOOLEAN
    BY ContinueTypes DEF CallRinging, CallRequestFailure, CallServerOrGlobalFailure,
           CallAnswered, CallReleased, CallClosed, CallAck
<1>5. cid \in Cid /\ Head(fifo).did \in BOOLEAN
    BY <1>2, HeadTypes DEF CallEvent
<1>6. setupWithLocalSdp(media, cid) \in Media
    BY <1>5, MediaTypes
<1>7. CASE CallRinging
  <2>1. PICK m \in {media, setupWithLocalSdp(media, cid)} :
            setState("sip_outgoing_call_ringing", m)
    BY <1>7 DEF CallRinging
  <2>2. "sip_outgoing_call_ringing" \in SipState
    BY DEF SipState, AboveRegistered, HangUpStates
  <2>3. state' \in SipState /\ media' \in Media
    BY <1>6, <2>1, <2>2, setStateTypes
  <2> QED BY <1>1, <1>3, <1>4, <1>5, <1>7, <2>3 DEF CallRinging, ticketVars, helperVars
<1>8. CASE CallRequestFailure
  <2>1. CASE tickHangupCause /\ EndCall
    BY <1>3, <1>4, <1>8, <2>1, TicketTypes, EndCallTypes DEF CallRequestFailure, helperVars
  <2>2. CASE UNCHANGED <<state, media, rid, ticketVars>> /\ calls' = AutomaticCalls
             /\ reg' = AutomaticRegs
    BY <1>1, <1>3, <1>4, <1>8, <2>2 DEF CallRequestFailure, ticketVars, helperVars
  <2> QED BY <1>8, <2>1, <2>2 DEF CallRequestFailure
<1>9. CASE CallServerOrGlobalFailure
    BY <1>1, <1>3, <1>4, <1>9, TicketTypes DEF CallServerOrGlobalFailure, fsmVars, helperVars
<1>10. CASE CallAnswered
  <2>1. "sip_online" \in SipState
    BY DEF SipState, AboveRegistered, HangUpStates
  <2>2. state' \in SipState /\ media' \in Media
    BY <1>6, <1>10, <2>1, setStateTypes DEF CallAnswered
  <2>3. ticket' \in Ticket /\ history' \in [Cid -> Nat]
    BY <1>10, TicketTypes DEF CallAnswered, ticketVars
  <2> QED BY <1>1, <1>3, <1>4, <1>5, <1>10, <2>2, <2>3 DEF CallAnswered, helperVars
<1>11. CASE CallReleased
  <2>1. ticket' \in Ticket /\ history' \in [Cid -> Nat]
    BY <1>11, TicketTypes DEF CallReleased, ticketVars
  <2> QED BY <1>3, <1>4, <1>11, <2>1, EndCallTypes DEF CallReleased, helperVars
<1>12. CASE CallClosed
    BY <1>3, <1>4, <1>12, TicketTypes, EndCallTypes DEF CallClosed, helperVars
<1>13. CASE CallAck
  <2>1. "sip_online" \in SipState
    BY DEF SipState, AboveRegistered, HangUpStates
  <2>2. state' \in SipState /\ media' \in Media
    BY <1>13, <2>1, setStateTypes DEF CallAck
  <2>3. ticket' \in Ticket /\ history' \in [Cid -> Nat]
    BY <1>13, TicketTypes DEF CallAck, ticketVars
  <2> QED BY <1>1, <1>3, <1>4, <1>13, <2>2, <2>3 DEF CallAck, helperVars
<1> QED BY <1>7, <1>8, <1>9, <1>10, <1>11, <1>12, <1>13

-----------------------------------------------------------------------------
\* The application.

\* What the system asks of the application keeps everything but polling well typed.
LEMMA SystemTypes ==
    ASSUME TypeOK, System
    PROVE  StackTypes' /\ PhoneTypes' /\ HelperTypes'
<1> USE DEF TypeOK, HelperTypes
<1>1. \A p \in Power, b \in BOOLEAN :
            /\ [p EXCEPT !.unanswered = b] \in Power
            /\ [p EXCEPT !.terminated = b] \in Power
            /\ [p EXCEPT !.exitRequested = b] \in Power
            /\ [p EXCEPT !.sleepRequested = b, !.unanswered = b] \in Power
    BY DEF Power
<1>2. \A p \in Power : sleepOk(p) \in Power /\ \A s : PowerOn(p, s) \in Power
    BY PowerTypes
<1>3. UNCHANGED <<sipVars, media, ticketVars, fsmVars>> => StackTypes' /\ PhoneTypes'
    BY DEF StackTypes, PhoneTypes, sipVars, fsmVars, ticketVars
<1>4. ASSUME NEW available \in BOOLEAN, networkAvailable(available)
      PROVE  StackTypes' /\ PhoneTypes' /\ HelperTypes'
    BY <1>2, <1>4, registerPhoneTypes DEF networkAvailable
<1>5. CASE _wakeUp
  <2>1. power' \in Power
    BY <1>1, <1>2, <1>5 DEF _wakeUp
  <2> QED BY <1>5, <2>1, registerPhoneTypes DEF _wakeUp
<1>6. CASE _goSleep
  <2> DEFINE p == PowerOn(power, state')
  <2>1. power' \in Power
    <3>1. p \in Power /\ sleepOk(power) \in Power
      BY <1>2
    <3>2. power' = sleepOk(power) \/ power' = [p EXCEPT !.sleepRequested = TRUE, !.unanswered = TRUE]
      BY <1>6 DEF _goSleep
    <3> HIDE DEF p
    <3> QED BY <1>1, <3>1, <3>2
  <2> HIDE DEF p
  <2>2. CASE state \in Off
    BY <1>3, <1>6, <2>1, <2>2 DEF _goSleep
  <2>3. CASE unregisterPhone
    BY <1>6, <2>1, <2>3, unregisterPhoneTypes DEF _goSleep
  <2> QED BY <1>6, <2>2, <2>3 DEF _goSleep
<1>7. CASE _sessionOut
    BY <1>2, <1>7, unregisterPhoneTypes DEF _sessionOut
<1>8. CASE applicationShouldTerminate
  <2> DEFINE p == [power EXCEPT !.exitRequested = TRUE]
             q == [power EXCEPT !.terminated = TRUE]
  <2>1. power' \in Power
    <3>1. PowerOn(p, state') \in Power /\ q \in Power
      BY <1>1, <1>2
    <3>2. power' = PowerOn(p, state') \/ power' = q
      BY <1>8 DEF applicationShouldTerminate
    <3> HIDE DEF p, q
    <3> QED BY <3>1, <3>2
  <2> HIDE DEF p, q
  <2>2. CASE state \in Off
    BY <1>3, <1>8, <2>1, <2>2 DEF applicationShouldTerminate
  <2>3. CASE unregisterPhone
    BY <1>8, <2>1, <2>3, unregisterPhoneTypes DEF applicationShouldTerminate
  <2> QED BY <1>8, <2>2, <2>3 DEF applicationShouldTerminate
<1> QED BY <1>4, <1>5, <1>6, <1>7, <1>8 DEF System

\* authInfoChangedWithNetwork: keeps registrations, state and media well typed.
LEMMA authInfoChangedTypes ==
    ASSUME TypeOK, NEW a \in Rid \cup {NoAccount}, NEW rs \in [Rid -> Reg], NEW r \in Rid,
           NEW s \in SipState, authInfoChanged(a, rs, r, s)
    PROVE  reg' \in [Rid -> Reg] /\ rid' \in Rid /\ state' \in SipState /\ media' \in Media
<1> DEFINE expires == IF onDemand THEN 0 ELSE Expires
           next == IF onDemand THEN "sip_unregister_in_progress" ELSE "sip_register_in_progress"
<1>1. media \in Media
    BY DEF TypeOK, PhoneTypes
<1>2. expires \in Period /\ next \in SipState /\ "sip_off" \in SipState
    BY DEF Period, SipState, BelowRegistered, Registering, Off
<1>3. ASSUME NEW t \in {s, "sip_off"}, reg' = rs, rid' = r, setState(t, media)
      PROVE  reg' \in [Rid -> Reg] /\ rid' \in Rid /\ state' \in SipState /\ media' \in Media
    BY <1>1, <1>2, <1>3, setStateTypes
<1>4. CASE a \in Rid /\ reg' = InitialRegister(rs, a, expires) /\ rid' = a /\ setState(next, media)
  <2> HIDE DEF expires, next
  <2> QED BY <1>1, <1>2, <1>4, setStateTypes, RegTypes
<1> QED BY <1>3, <1>4 DEF authInfoChanged

\* Preferences and menus keep everything but polling well typed.
LEMMA PreferencesTypes ==
    ASSUME TypeOK, Preferences
    PROVE  StackTypes' /\ PhoneTypes' /\ HelperTypes'
<1> USE DEF TypeOK, HelperTypes
<1>p. power \in Power /\ phoneIsOff(power) \in Power /\ \A s : PowerOn(power, s) \in Power
    BY PowerTypes
<1>a. Accounts \subseteq Rid \cup {NoAccount}
    BY EventsAssumption
<1>1. CASE setOnDemandRegister
  <2>1. HelperTypes'
    BY <1>p, <1>1 DEF setOnDemandRegister
  <2>2. CASE UNCHANGED <<sipVars, media, ticketVars, fsmVars>>
    BY <2>1, <2>2 DEF StackTypes, PhoneTypes, sipVars, ticketVars, fsmVars
  <2>3. CASE registerPhoneOnDemand(FALSE, Expires)
    <3>1. Expires \in Period
      BY DEF Period
    <3> QED BY <2>1, <2>3, <3>1, registerPhoneOnDemandTypes
  <2>4. CASE unregisterPhone
    BY <2>1, <2>4, unregisterPhoneTypes
  <2> QED BY <1>1, <2>2, <2>3, <2>4 DEF setOnDemandRegister
<1>2. CASE setPassword
    BY <1>p, <1>2, registerPhoneTypes, unregisterPhoneTypes DEF setPassword
<1>3. ASSUME NEW a \in Accounts, setPhoneNumber(a)
      PROVE  StackTypes' /\ PhoneTypes' /\ HelperTypes'
  <2>1. reg \in [Rid -> Reg] /\ rid \in Rid /\ state \in SipState
    BY DEF StackTypes, PhoneTypes
  <2>2. reg' \in [Rid -> Reg] /\ rid' \in Rid /\ state' \in SipState /\ media' \in Media
    BY <1>a, <1>3, <2>1, authInfoChangedTypes DEF setPhoneNumber
  <2>3. HelperTypes'
    BY <1>a, <1>p, <1>3 DEF setPhoneNumber
  <2> QED BY <1>3, <2>2, <2>3 DEF setPhoneNumber, StackTypes, PhoneTypes, ticketVars
<1>4. ASSUME NEW a \in Accounts, setProvider(a)
      PROVE  StackTypes' /\ PhoneTypes' /\ HelperTypes'
  <2>1. reg \in [Rid -> Reg] /\ rid \in Rid /\ 0 \in Period /\ a \in Rid \cup {NoAccount}
    BY <1>a DEF StackTypes, PhoneTypes, Period
  <2>2. Unregistered \in SipState
    BY DEF Unregistered, SipState, BelowRegistered, Registering, Off
  <2>3. reg' \in [Rid -> Reg] /\ rid' \in Rid /\ state' \in SipState /\ media' \in Media
    <3>1. account # NoAccount => InitialRegister(reg, account, 0) \in [Rid -> Reg] /\ account \in Rid
      BY <2>1, RegTypes
    <3>2. CanUnregister(reg) => Unregister(reg) \in [Rid -> Reg] /\ UnregisterRid(reg) \in Rid
      BY <2>1, UnregisterTypes
    <3>3. PICK rs \in [Rid -> Reg], r \in Rid : authInfoChanged(a, rs, r, Unregistered)
      BY <1>4, <2>1, <3>1, <3>2 DEF setProvider
    <3> QED BY <2>1, <2>2, <3>3, authInfoChangedTypes
  <2>4. calls' \in [Cid -> Call] /\ ticket' \in Ticket /\ history' \in [Cid -> Nat]
    BY <1>4, HangUpTypes DEF setProvider, StackTypes, PhoneTypes, ticketVars
  <2>5. HelperTypes'
    BY <1>a, <1>p, <1>4 DEF setProvider
  <2> QED BY <1>4, <2>3, <2>4, <2>5 DEF setProvider, StackTypes, PhoneTypes
<1>5. CASE RegisterMenu
    BY <1>p, <1>5, registerPhoneTypes DEF RegisterMenu
<1>6. CASE UnregisterMenu
    BY <1>p, <1>6, unregisterPhoneTypes DEF UnregisterMenu
<1>7. CASE pretendRegistered
  <2>1. "sip_registered" \in SipState
    BY DEF SipState
  <2>2. state' \in SipState /\ media' \in Media
    BY <1>7, <2>1, setStateTypes DEF pretendRegistered, PhoneTypes
  <2> QED BY <1>7, <2>2 DEF pretendRegistered, StackTypes, PhoneTypes, sipVars, ticketVars, helperVars
<1> QED BY <1>1, <1>2, <1>3, <1>4, <1>5, <1>6, <1>7 DEF Preferences

\* The audio test and the debug window change the media only, and keep them media.
LEMMA PlaneTypes ==
    ASSUME TypeOK, Sound
    PROVE  StackTypes' /\ PhoneTypes' /\ HelperTypes'
<1>1. media \in Media
    BY DEF TypeOK, PhoneTypes
<1>2. media' \in Media
    <2>1. (state \in AboveRegistered) \in BOOLEAN
        OBVIOUS
    <2>2. \A b \in BOOLEAN : /\ [endUserPlane(media) EXCEPT !.faulty = b] \in Media
                            /\ startRing(media, "debug") \in Media /\ stopRing(media) \in Media
        BY <1>1, SoundTypes
    <2> QED BY <2>1, <2>2 DEF Sound, stopAudioTest, test2, ring, endRing
<1>3. MediaOnly
    BY DEF Sound, stopAudioTest, test2, ring, endRing
<1> QED BY <1>2, <1>3 DEF TypeOK, StackTypes, PhoneTypes, HelperTypes, MediaOnly, sipVars,
                          ticketVars, fsmVars, helperVars

\* A crash changes nothing but the end.
LEMMA CrashTypes == TypeOK /\ Crash => TypeOK'
<1>1. \A p \in Power : [p EXCEPT !.terminated = TRUE] \in Power
    BY DEF Power
<1> QED BY <1>1 DEF Crash, TypeOK, StackTypes, PhoneTypes, HelperTypes, sipVars, ticketVars, fsmVars

\* The state at launch is well typed.
LEMMA InitTypes == Init => TypeOK
<1> SUFFICES ASSUME Init PROVE TypeOK
    OBVIOUS
<1>1. StackTypes
  <2>1. NoReg \in Reg
    BY EXosipAssumption DEF NoReg, Reg, Period
  <2> QED BY <2>1, NewCallTypes DEF Init, EXosipInit, StackTypes
<1>2. PhoneTypes
  <2>1. media \in Media
    BY DEF Init, MediaInit, Media
  <2>2. ticket \in Ticket /\ history \in [Cid -> Nat]
    BY DEF Init, TicketInit, Ticket, clearInfo
  <2>3. state \in SipState
    BY DEF Init, SipState, BelowRegistered, Off
  <2> QED BY <2>1, <2>2, <2>3 DEF Init, PhoneTypes
<1>3. HelperTypes
    BY EventsAssumption DEF Init, PowerInit, Power, HelperTypes
<1> QED BY <1>1, <1>2, <1>3 DEF Init, TypeOK

\* Every step keeps the state well typed.
LEMMA NextTypes == TypeOK /\ [Next]_vars => TypeOK'
<1> SUFFICES ASSUME TypeOK, [Next]_vars PROVE TypeOK'
    OBVIOUS
<1>1. CASE UNCHANGED vars
    BY <1>1 DEF TypeOK, StackTypes, PhoneTypes, HelperTypes, vars, sipVars, phoneVars,
                ticketVars, fsmVars, helperVars
<1>2. CASE pollExosip
    BY <1>2, RegistrationTypes, OtherCallTypes, CurrentCallTypes, CrashTypes
    DEF pollExosip, CrashOnEvent
<1>3. CASE (User \/ System \/ Preferences \/ Sound) /\ UNCHANGED polling
    BY <1>3, UserTypes, SystemTypes, PreferencesTypes, PlaneTypes DEF User, TypeOK
<1>6. CASE CrashOnCommand
    BY <1>6, CrashTypes DEF CrashOnCommand
<1>4. CASE Stack
  <2>1. UNCHANGED phoneVars
    BY <1>4 DEF Stack, NewInvite
  <2>2. StackTypes'
    BY <1>4, RcvInviteTypes, CallStepTypes, RegStepTypes
    DEF Stack, NewInvite, EXosipThread, TypeOK
  <2> QED BY <2>1, <2>2 DEF TypeOK, PhoneTypes, HelperTypes, phoneVars, ticketVars, fsmVars, helperVars
<1>5. CASE EmptyPoll
  <2>1. StackTypes'
    BY <1>5, AutomaticTypes DEF EmptyPoll, TypeOK, StackTypes
  <2> QED BY <1>5, <2>1 DEF EmptyPoll, TypeOK, PhoneTypes, HelperTypes, phoneVars, ticketVars,
                            fsmVars, helperVars
<1> QED BY <1>1, <1>2, <1>3, <1>4, <1>5, <1>6 DEF Next, Running, Terminated, MainThread

\* The phone, its stack, its media, its ticket and its helper stay well typed, and the
\* retry counters of eXosip within their limit, in every behaviour.
THEOREM TypeCorrect == Spec => []TypeOK
BY InitTypes, NextTypes, PTL DEF Spec

-----------------------------------------------------------------------------
\* The inductive invariant behind RingsForCaller.

\* The ring the phone starts is on in one state only.
RingWhileRinging == media.ring = "caller" => state = "sip_incoming_call_ringing"

Ended(e, c) == e.id = c /\ e.type \in {"CALL_CLOSED", "CALL_RELEASED"}

\* The caller of c still waits for the phone, or the news that it does not is queued
\* behind position i of the FIFO.
CallerWaits(c, i) ==
    \/ calls[c].tr \in {"invited", "refusing"}
    \/ \E j \in 1..Len(fifo) : j > i /\ Ended(fifo[j], c)

\* In sip_incoming_call_ringing the phone has a call and its caller waits.
RingingCallerWaits ==
    state = "sip_incoming_call_ringing" => cid \in Cid /\ CallerWaits(cid, 0)

\* An INVITE the phone has not read is for a call the phone does not have, it is the
\* only one for that call, and what becomes of the caller is queued behind it.
InviteIsNews ==
    \A i \in 1..Len(fifo) : fifo[i].type = "CALL_INVITE" =>
        /\ fifo[i].id # cid
        /\ CallerWaits(fifo[i].id, i)
        /\ \A j \in 1..Len(fifo) : fifo[j].type = "CALL_INVITE" /\ fifo[j].id = fifo[i].id => j = i

RingInv == RingWhileRinging /\ RingingCallerWaits /\ InviteIsNews

-----------------------------------------------------------------------------
\* Where the commands and handlers may leave the phone.

\* makeOutCall ends registered or with a call sent.
LEMMA makeOutCallState ==
    ASSUME NEW cs, makeOutCall(cs)
    PROVE  state' \in {"sip_registered", "sip_outgoing_call_sent"}
BY DEF makeOutCall, setState

\* A command to register or to unregister leaves the phone registering, off for want of
\* an account, or alone.
LEMMA RegisterState ==
    /\ \A forCall \in BOOLEAN, dur \in Period : registerPhoneOnDemand(forCall, dur) =>
            state' \in Registering \/ (account = NoAccount /\ state' = "sip_off")
    /\ registerPhone => \/ state' \in Registering \/ state' = state
                        \/ account = NoAccount /\ state' = "sip_off"
    /\ unregisterPhone => state' \in Registering \/ (account = NoAccount /\ state' = "sip_off")
<1>1. ASSUME NEW forCall \in BOOLEAN, NEW dur \in Period, registerPhoneOnDemand(forCall, dur)
      PROVE  state' \in Registering \/ (account = NoAccount /\ state' = "sip_off")
    BY <1>1 DEF registerPhoneOnDemand, setState, Registering
<1>2. 0 \in Period /\ Expires \in Period
    BY DEF Period
<1>3. ASSUME registerPhone
      PROVE  \/ state' \in Registering \/ state' = state
             \/ account = NoAccount /\ state' = "sip_off"
    BY <1>1, <1>2, <1>3 DEF registerPhone, fsmVars
<1>4. ASSUME unregisterPhone
      PROVE  state' \in Registering \/ (account = NoAccount /\ state' = "sip_off")
  <2>1. CASE state \in BelowRegistered
    BY <1>1, <1>2, <1>4, <2>1 DEF unregisterPhone
  <2>2. CASE state \notin BelowRegistered
    BY <1>4, <2>2 DEF unregisterPhone, setState, Registering
  <2> QED BY <2>1, <2>2
<1> QED BY <1>1, <1>3, <1>4

\* A handler of a call event never turns the phone off.
LEMMA CallEventState ==
    ASSUME \/ RefuseInvite \/ AcceptInvite \/ OtherCallEvent
           \/ CallRinging \/ CallRequestFailure \/ CallServerOrGlobalFailure
           \/ CallAnswered \/ CallReleased \/ CallClosed \/ CallAck
    PROVE  UNCHANGED helperVars /\ (state' = state \/ state' \notin Off)
<1>1. EndCall => state' = state \/ state' \notin Off
    BY DEF EndCall, terminateCall, setState, Off
<1>2. CASE RefuseInvite \/ OtherCallEvent \/ CallServerOrGlobalFailure
    BY <1>2 DEF RefuseInvite, OtherCallEvent, CallServerOrGlobalFailure, fsmVars
<1>3. CASE AcceptInvite
    BY <1>3 DEF AcceptInvite, setState, Off
<1>4. CASE CallRinging
    BY <1>4 DEF CallRinging, setState, Off
<1>5. CASE CallRequestFailure
    BY <1>1, <1>5 DEF CallRequestFailure
<1>6. CASE CallAnswered
    BY <1>6 DEF CallAnswered, setState, Off
<1>7. CASE CallReleased
    BY <1>1, <1>7 DEF CallReleased
<1>8. CASE CallClosed
    BY <1>1, <1>8 DEF CallClosed
<1>9. CASE CallAck
    BY <1>9 DEF CallAck, setState, Off
<1> QED BY <1>2, <1>3, <1>4, <1>5, <1>6, <1>7, <1>8, <1>9

\* authInfoChangedWithNetwork: leaves the phone registering, off for want of an account,
\* or where it was to be.
LEMMA authInfoChangedState ==
    ASSUME NEW a, NEW rs, NEW r, NEW s, authInfoChanged(a, rs, r, s)
    PROVE  state' \in Registering \/ state' = s \/ state' = "sip_off"
BY DEF authInfoChanged, setState, Registering

-----------------------------------------------------------------------------
\* QuitRequestHeard and SleepRequestHeard.

\* phoneIsOff: forgets the request to sleep and carries out the one to quit.
LEMMA phoneIsOffFields ==
    ASSUME NEW p \in Power
    PROVE  /\ phoneIsOff(p) \in Power /\ phoneIsOff(p).sleepRequested = FALSE
           /\ phoneIsOff(p).exitRequested = p.exitRequested
           /\ phoneIsOff(p).terminated = p.exitRequested
BY DEF phoneIsOff, sleepOk, Power

\* After a step that leaves the phone off a request to quit has been carried out, unless
\* it was there before and the phone was off before.
QuitKept ==
    \/ state' \notin Off \/ power'.terminated \/ ~power'.exitRequested
    \/ /\ state' = state
       /\ power'.exitRequested = power.exitRequested /\ power'.terminated = power.terminated

\* The same for a request to sleep, except when it is made of a phone without an account.
SleepKept ==
    \/ state' \notin Off \/ power'.terminated \/ ~power'.sleepRequested
    \/ state' = state /\ power'.sleepRequested = power.sleepRequested
    \/ account = NoAccount /\ power'.unanswered /\ ~power.unanswered

\* setState: carries requests p out if it turns the phone off.
LEMMA PowerOnKeeps ==
    ASSUME NEW p \in Power, p.exitRequested = power.exitRequested,
           p.terminated = power.terminated, p.sleepRequested = power.sleepRequested,
           power' = PowerOn(p, state')
    PROVE  QuitKept /\ SleepKept
<1>1. CASE state' # state /\ state' \in Off
  <2>1. power' = phoneIsOff(p)
    BY <1>1 DEF PowerOn
  <2> QED BY <2>1, phoneIsOffFields DEF QuitKept, SleepKept
<1>2. CASE ~(state' # state /\ state' \in Off)
    BY <1>2 DEF PowerOn, QuitKept, SleepKept
<1> QED BY <1>1, <1>2

\* So does a step that leaves the requests alone and does not turn the phone off.
LEMMA PowerSame ==
    ASSUME UNCHANGED power, state' = state \/ state' \notin Off
    PROVE  QuitKept /\ SleepKept
BY DEF QuitKept, SleepKept

\* The handlers of pollExosip.
LEMMA PollPower ==
    ASSUME TypeOK, pollExosip
    PROVE  QuitKept /\ SleepKept
<1>1. power \in Power
    BY DEF TypeOK, HelperTypes
<1>2. ASSUME NEW s, setState(s, media), power' = PowerOn(power, s)
      PROVE  QuitKept /\ SleepKept
    BY <1>1, <1>2, PowerOnKeeps DEF setState
<1>3. CASE RegistrationFailure
    BY <1>2, <1>3 DEF RegistrationFailure
<1>4. CASE RegistrationSuccess
  <2>1. CASE makeOutCall(AutomaticCalls) /\ UNCHANGED power
    BY <2>1, makeOutCallState, PowerSame DEF Off
  <2>2. CASE ~(makeOutCall(AutomaticCalls) /\ UNCHANGED power)
    BY <1>2, <1>4, <2>2 DEF RegistrationSuccess
  <2> QED BY <2>1, <2>2
<1>5. CASE CrashOnEvent
  <2>1. power'.terminated
    BY <1>1, <1>5 DEF CrashOnEvent, Crash, Power
  <2> QED BY <2>1 DEF QuitKept, SleepKept
<1>6. CASE ~RegistrationFailure /\ ~RegistrationSuccess /\ ~CrashOnEvent
    BY <1>6, CallEventState, PowerSame DEF pollExosip, helperVars
<1> QED BY <1>3, <1>4, <1>5, <1>6

\* The user's commands.
LEMMA UserPower ==
    ASSUME TypeOK, User
    PROVE  QuitKept /\ SleepKept
<1>1. power \in Power
    BY DEF TypeOK, HelperTypes
<1>2. CASE power' = PowerOn(power, state')
    BY <1>1, <1>2, PowerOnKeeps
<1>3. CASE UNCHANGED power /\ state' \notin Off
    BY <1>3, PowerSame
<1>4. (dialOutCall \/ hangUpCall \/ acceptCall)
      => power' = PowerOn(power, state') \/ (UNCHANGED power /\ state' \notin Off)
    BY makeOutCallState DEF dialOutCall, hangUpCall, acceptCall, setState, Off, helperVars
<1> QED BY <1>2, <1>3, <1>4 DEF User

\* What the system asks.
LEMMA SystemPower ==
    ASSUME TypeOK, System
    PROVE  QuitKept /\ SleepKept
<1>1. power \in Power
    BY DEF TypeOK, HelperTypes
<1>2. ASSUME power' = PowerOn(power, state')
      PROVE  QuitKept /\ SleepKept
    BY <1>1, <1>2, PowerOnKeeps
<1>3. ASSUME NEW available \in BOOLEAN, networkAvailable(available)
      PROVE  QuitKept /\ SleepKept
    BY <1>2, <1>3 DEF networkAvailable
<1>4. CASE _wakeUp
  <2> DEFINE p == PowerOn(power, state')
  <2>1. power' = [p EXCEPT !.unanswered = FALSE]
    BY <1>4 DEF _wakeUp
  <2>2. p \in Power
    BY <1>1, PowerTypes
  <2>3. CASE state' # state /\ state' \in Off
    <3>1. p.sleepRequested = FALSE /\ p.terminated = p.exitRequested
      BY <1>1, <2>3, phoneIsOffFields DEF PowerOn
    <3> HIDE DEF p
    <3>2. power'.sleepRequested = FALSE /\ power'.terminated = power'.exitRequested
      BY <2>1, <2>2, <3>1 DEF Power
    <3> QED BY <2>2, <2>1, <3>2 DEF QuitKept, SleepKept, Power
  <2>4. CASE ~(state' # state /\ state' \in Off)
    <3>1. p = power
      BY <2>4 DEF PowerOn
    <3> HIDE DEF p
    <3>2. /\ power'.exitRequested = power.exitRequested /\ power'.terminated = power.terminated
          /\ power'.sleepRequested = power.sleepRequested
      BY <1>1, <2>1, <3>1 DEF Power
    <3> QED BY <2>4, <3>2 DEF QuitKept, SleepKept
  <2> QED BY <2>3, <2>4
<1>5. CASE _goSleep
  <2>1. CASE state \in Off
    <3>1. power' = sleepOk(power) /\ state' = state
      BY <1>5, <2>1 DEF _goSleep, fsmVars
    <3>2. power'.exitRequested = power.exitRequested /\ power'.terminated = power.terminated
          /\ power'.sleepRequested = FALSE
      BY <1>1, <3>1 DEF sleepOk, Power
    <3> QED BY <3>1, <3>2 DEF QuitKept, SleepKept
  <2>2. CASE state \notin Off
    <3> DEFINE p == PowerOn(power, state')
    <3>1. p \in Power
      BY <1>1, PowerTypes
    <3>2. power' = [p EXCEPT !.sleepRequested = TRUE, !.unanswered = TRUE]
      BY <1>5, <2>2 DEF _goSleep
    <3>3. ~power.unanswered
      BY <1>5 DEF _goSleep
    <3>4. CASE state' \notin Off
      BY <3>4 DEF QuitKept, SleepKept
    <3>5. CASE account = NoAccount /\ state' = "sip_off"
      <4>1. p.terminated = p.exitRequested
        BY <1>1, <2>2, <3>5, phoneIsOffFields DEF PowerOn, Off
      <4> HIDE DEF p
      <4>2. /\ power'.unanswered = TRUE /\ power'.terminated = p.terminated
            /\ power'.exitRequested = p.exitRequested /\ power'.exitRequested \in BOOLEAN
        BY <3>1, <3>2 DEF Power
      <4> QED BY <3>3, <3>5, <4>1, <4>2 DEF QuitKept, SleepKept
    <3>6. state' \notin Off \/ (account = NoAccount /\ state' = "sip_off")
      BY <1>5, <2>2, RegisterState DEF _goSleep, Registering, Off
    <3> QED BY <3>4, <3>5, <3>6
  <2> QED BY <2>1, <2>2
<1>6. CASE _sessionOut
    BY <1>2, <1>6 DEF _sessionOut
<1>7. CASE applicationShouldTerminate
  <2>1. CASE state \in Off
    <3>1. power' = [power EXCEPT !.terminated = TRUE]
      BY <1>7, <2>1 DEF applicationShouldTerminate
    <3>2. power'.terminated
      BY <1>1, <3>1 DEF Power
    <3> QED BY <3>2 DEF QuitKept, SleepKept
  <2>2. CASE state \notin Off
    <3> DEFINE p == [power EXCEPT !.exitRequested = TRUE]
    <3>1. p \in Power
      BY <1>1 DEF Power
    <3>2. power' = PowerOn(p, state')
      BY <1>7, <2>2 DEF applicationShouldTerminate
    <3> HIDE DEF p
    <3>3. CASE state' \notin Off
      BY <3>3 DEF QuitKept, SleepKept
    <3>4. CASE state' \in Off
      <4>1. power' = phoneIsOff(p)
        BY <2>2, <3>2, <3>4 DEF PowerOn
      <4> QED BY <3>1, <4>1, phoneIsOffFields DEF QuitKept, SleepKept
    <3> QED BY <3>3, <3>4
  <2> QED BY <2>1, <2>2
<1> QED BY <1>3, <1>4, <1>5, <1>6, <1>7 DEF System

\* Preferences and menus.
LEMMA PreferencesPower ==
    ASSUME TypeOK, Preferences
    PROVE  QuitKept /\ SleepKept
<1>1. power \in Power
    BY DEF TypeOK, HelperTypes
<1>2. ASSUME power' = PowerOn(power, state')
      PROVE  QuitKept /\ SleepKept
    BY <1>1, <1>2, PowerOnKeeps
<1>3. CASE setOnDemandRegister \/ setPassword \/ RegisterMenu \/ UnregisterMenu
    BY <1>2, <1>3 DEF setOnDemandRegister, setPassword, RegisterMenu, UnregisterMenu
<1>4. ASSUME NEW a \in Accounts, setPhoneNumber(a)
      PROVE  QuitKept /\ SleepKept
    BY <1>2, <1>4 DEF setPhoneNumber
<1>5. ASSUME NEW a \in Accounts, setProvider(a)
      PROVE  QuitKept /\ SleepKept
  <2>1. CASE power' = phoneIsOff(power)
    BY <1>1, <2>1, phoneIsOffFields DEF QuitKept, SleepKept
  <2>2. CASE /\ UNCHANGED power
             /\ ~(Unregistered \in Off /\ Unregistered # state)
             /\ ~(state' \in Off /\ state' # Unregistered)
    BY <2>2, PowerSame
  <2> QED BY <1>5, <2>1, <2>2 DEF setProvider
<1>6. CASE pretendRegistered
    BY <1>6, PowerSame DEF pretendRegistered, setState, helperVars, Off
<1> QED BY <1>3, <1>4, <1>5, <1>6, <1>2 DEF Preferences

\* No step leaves a request unheard: the phone goes off only through setState:, which
\* calls phoneIsOff:, and a request made of a phone that is on sends it un-registering.
LEMMA PowerStep ==
    ASSUME TypeOK, [Next]_vars
    PROVE  QuitKept /\ SleepKept
<1>1. CASE UNCHANGED vars
    BY <1>1, PowerSame DEF vars, phoneVars, fsmVars, helperVars
<1>2. CASE Sound \/ Stack \/ EmptyPoll
  <2>1. UNCHANGED power /\ state' = state
    BY <1>2 DEF Sound, stopAudioTest, test2, ring, endRing, MediaOnly,
                Stack, NewInvite, EmptyPoll, phoneVars, helperVars, fsmVars
  <2> QED BY <2>1, PowerSame
<1>3. CASE CrashOnCommand
  <2>1. power'.terminated
    BY <1>3 DEF CrashOnCommand, Crash, TypeOK, HelperTypes, Power
  <2> QED BY <2>1 DEF QuitKept, SleepKept
<1> QED BY <1>1, <1>2, <1>3, PollPower, UserPower, SystemPower, PreferencesPower
        DEF Next, Running, Terminated, MainThread

\* A request to quit is never left waiting for a phone that is off (AppHelper.m,
\* applicationShouldTerminate:, phoneIsOff:), whatever the account.
THEOREM QuitRequestsAreHeard == Spec => []QuitRequestHeard
<1>1. Init => QuitRequestHeard
    BY DEF Init, PowerInit, QuitRequestHeard
<1>2. ASSUME TypeOK, QuitRequestHeard, [Next]_vars
      PROVE  QuitRequestHeard'
    BY <1>2, PowerStep DEF QuitRequestHeard, QuitKept
<1> QED BY <1>1, <1>2, TypeCorrect, PTL DEF Spec

\* A request to sleep comes to wait for a phone that is off only when it is made of a
\* phone whose account is incomplete (AppHelper.m, _goSleep:, phoneIsOff:).
THEOREM SleepRequestsAreHeard == Spec => SleepRequestHeard
<1> DEFINE Heard ==
      power'.sleepRequested /\ ~power'.terminated /\ state' \in Off
         => \/ power.sleepRequested /\ state \in Off
            \/ account = NoAccount /\ power'.unanswered /\ ~power.unanswered
<1>1. ASSUME TypeOK, [Next]_vars
      PROVE  [Heard]_vars
    BY <1>1, PowerStep DEF SleepKept
<1> QED BY <1>1, TypeCorrect, PTL DEF Spec, SleepRequestHeard

-----------------------------------------------------------------------------
\* RingsForCaller: the FIFO.

Waiting == {"invited", "refusing"}

\* A step keeps the caller of c waiting.
Keeps(c) == calls[c].tr \in Waiting => calls'[c].tr \in Waiting

\* Positions after an event is appended.
LEMMA AppendAt ==
    ASSUME NEW S, NEW q \in Seq(S), NEW e \in S
    PROVE  /\ Len(q) \in Nat /\ Len(Append(q, e)) = Len(q) + 1
           /\ Append(q, e)[Len(q) + 1] = e
           /\ \A i \in 1..Len(q) : Append(q, e)[i] = q[i]
OBVIOUS

\* Positions after the first event is read.
LEMMA TailAt ==
    ASSUME NEW S, NEW q \in Seq(S), q # << >>
    PROVE  /\ Len(q) \in Nat \ {0} /\ Head(q) = q[1] /\ Len(Tail(q)) = Len(q) - 1
           /\ \A i \in 1..Len(Tail(q)) : i + 1 \in 2..Len(q) /\ Tail(q)[i] = q[i + 1]
OBVIOUS

\* A step that leaves the FIFO alone keeps a caller waiting that it does not touch.
LEMMA WaitsUnread ==
    ASSUME NEW c, NEW i, CallerWaits(c, i), UNCHANGED fifo, Keeps(c)
    PROVE  CallerWaits(c, i)'
BY DEF CallerWaits, Keeps, Waiting

\* So does one that appends an event, and then it may also be the event that ends the wait.
LEMMA WaitsAppended ==
    ASSUME TypeOK, NEW c, NEW i \in 0..Len(fifo), CallerWaits(c, i),
           NEW e \in CallEvent \cup RegEvent, fifo' = Append(fifo, e),
           Keeps(c) \/ Ended(e, c)
    PROVE  CallerWaits(c, i)'
<1>1. /\ Len(fifo) \in Nat /\ Len(fifo') = Len(fifo) + 1 /\ fifo'[Len(fifo) + 1] = e
      /\ \A j \in 1..Len(fifo) : fifo'[j] = fifo[j]
    BY AppendAt DEF TypeOK, StackTypes
<1>2. CASE \E j \in 1..Len(fifo) : j > i /\ Ended(fifo[j], c)
  <2>1. PICK j \in 1..Len(fifo) : j > i /\ Ended(fifo[j], c)
    BY <1>2
  <2>2. j \in 1..Len(fifo') /\ Ended(fifo'[j], c)
    BY <1>1, <2>1
  <2> QED BY <2>1, <2>2 DEF CallerWaits, Ended
<1>3. CASE Ended(e, c)
  <2>1. Len(fifo) + 1 \in 1..Len(fifo') /\ Len(fifo) + 1 > i /\ Ended(fifo'[Len(fifo) + 1], c)
    BY <1>1, <1>3
  <2> QED BY <2>1 DEF CallerWaits, Ended
<1>4. CASE calls[c].tr \in Waiting /\ Keeps(c)
    BY <1>4 DEF CallerWaits, Keeps, Waiting
<1> QED BY <1>2, <1>3, <1>4 DEF CallerWaits, Waiting

\* Reading an event moves the others forward; only the event itself can be lost.
LEMMA WaitsRead ==
    ASSUME TypeOK, fifo # << >>, fifo' = Tail(fifo), NEW c, NEW i \in Nat, Keeps(c),
           CallerWaits(c, i + 1) \/ (i = 0 /\ CallerWaits(c, 0) /\ ~Ended(Head(fifo), c))
    PROVE  CallerWaits(c, i)'
<1>1. /\ Len(fifo) \in Nat \ {0} /\ Head(fifo) = fifo[1] /\ Len(fifo') = Len(fifo) - 1
      /\ \A j \in 1..Len(fifo') : fifo'[j] = fifo[j + 1]
    BY TailAt DEF TypeOK, StackTypes
<1>2. CASE \E j \in 1..Len(fifo) : j > i + 1 /\ Ended(fifo[j], c)
  <2>1. PICK j \in 1..Len(fifo) : j > i + 1 /\ Ended(fifo[j], c)
    BY <1>2
  <2>2. j - 1 \in 1..Len(fifo') /\ j - 1 > i /\ fifo'[j - 1] = fifo[j]
    BY <1>1, <2>1
  <2> QED BY <2>1, <2>2 DEF CallerWaits, Ended
<1>3. CASE i = 0 /\ ~Ended(Head(fifo), c) /\ \E j \in 1..Len(fifo) : j > i /\ Ended(fifo[j], c)
  <2>1. PICK j \in 1..Len(fifo) : j > i /\ Ended(fifo[j], c)
    BY <1>3
  <2>2. j # 1
    BY <1>1, <1>3, <2>1
  <2>3. j > i + 1
    BY <1>3, <2>1, <2>2
  <2> QED BY <1>2, <2>1, <2>3
<1>4. CASE calls[c].tr \in Waiting
    BY <1>4 DEF CallerWaits, Keeps, Waiting
<1> QED BY <1>2, <1>3, <1>4 DEF CallerWaits, Waiting

\* A step that reads nothing keeps InviteIsNews when it keeps the callers waiting whose
\* INVITE is queued and makes none of their calls the phone's own.
LEMMA NewsUnread ==
    ASSUME TypeOK, InviteIsNews, UNCHANGED fifo,
           \A i \in 1..Len(fifo) : fifo[i].type = "CALL_INVITE"
                => fifo[i].id # cid' /\ Keeps(fifo[i].id)
    PROVE  InviteIsNews'
<1> SUFFICES ASSUME NEW i \in 1..Len(fifo), fifo[i].type = "CALL_INVITE"
             PROVE  /\ fifo[i].id # cid'
                    /\ CallerWaits(fifo[i].id, i)'
                    /\ \A j \in 1..Len(fifo) :
                          fifo[j].type = "CALL_INVITE" /\ fifo[j].id = fifo[i].id => j = i
    BY DEF InviteIsNews
<1>1. CallerWaits(fifo[i].id, i)
    BY DEF InviteIsNews
<1>2. CallerWaits(fifo[i].id, i)'
    BY <1>1, WaitsUnread
<1> QED BY <1>2 DEF InviteIsNews

\* The same for a step that reads an event.
LEMMA NewsRead ==
    ASSUME TypeOK, InviteIsNews, fifo # << >>, fifo' = Tail(fifo),
           \A i \in 1..Len(fifo) : i > 1 /\ fifo[i].type = "CALL_INVITE"
                => fifo[i].id # cid' /\ Keeps(fifo[i].id)
    PROVE  InviteIsNews'
<1>1. /\ Len(fifo) \in Nat \ {0} /\ Len(fifo') = Len(fifo) - 1
      /\ \A j \in 1..Len(fifo') : j + 1 \in 2..Len(fifo) /\ fifo'[j] = fifo[j + 1]
    BY TailAt DEF TypeOK, StackTypes
<1> SUFFICES ASSUME NEW i \in 1..Len(fifo'), fifo'[i].type = "CALL_INVITE",
                    NEW c, c = fifo'[i].id
             PROVE  /\ c # cid'
                    /\ CallerWaits(c, i)'
                    /\ \A j \in 1..Len(fifo') :
                          fifo'[j].type = "CALL_INVITE" /\ fifo'[j].id = c => j = i
    BY DEF InviteIsNews
<1>2. i \in Nat /\ i + 1 \in 1..Len(fifo) /\ i + 1 > 1 /\ fifo'[i] = fifo[i + 1]
    BY <1>1
<1>3. c # cid' /\ Keeps(c) /\ CallerWaits(c, i + 1)
    BY <1>2 DEF InviteIsNews
<1>4. CallerWaits(c, i)'
    BY <1>2, <1>3, WaitsRead
<1>5. ASSUME NEW j \in 1..Len(fifo'), fifo'[j].type = "CALL_INVITE", fifo'[j].id = c
      PROVE  j = i
  <2>1. j + 1 \in 1..Len(fifo) /\ fifo'[j] = fifo[j + 1]
    BY <1>1
  <2>2. j + 1 = i + 1
    BY <1>2, <1>5, <2>1 DEF InviteIsNews
  <2> QED BY <1>2, <2>2
<1> QED BY <1>3, <1>4, <1>5

-----------------------------------------------------------------------------
\* RingsForCaller: the ring.

\* Of the media methods only startRing turns the ring on, and endUserPlane turns it off.
LEMMA RingOf ==
    ASSUME NEW m \in Media, NEW c \in Cid
    PROVE  /\ setupAndGetLocalSdp(m).ring = m.ring
           /\ setupWithLocalSdp(m, c).ring = m.ring
           /\ [setupWithLocalSdp(m, c) EXCEPT !.faulty = TRUE].ring = m.ring
           /\ setupIncoming(m, c).ring = m.ring
<1>1. setupWithLocalSdp(m, c) \in Media /\ setupWithLocalSdp(m, c).ring = m.ring
    BY DEF Media, setupWithLocalSdp
<1>2. setupIncoming(m, c).ring = m.ring
    BY <1>1 DEF Media, setupIncoming
<1>3. setupAndGetLocalSdp(m).ring = m.ring
    BY DEF Media, setupAndGetLocalSdp
<1>4. [setupWithLocalSdp(m, c) EXCEPT !.faulty = TRUE].ring = m.ring
    BY <1>1 DEF Media
<1> QED BY <1>1, <1>2, <1>3, <1>4

\* The same without a call at hand.
LEMMA RingOfSetup ==
    ASSUME NEW m \in Media
    PROVE  setupAndGetLocalSdp(m).ring = m.ring /\ endUserPlane(m).ring = "none"
BY DEF Media, setupAndGetLocalSdp, endUserPlane

\* The hooks of setState: tie the ring to sip_incoming_call_ringing.
LEMMA setStateRing ==
    ASSUME media \in Media, RingWhileRinging, NEW s, NEW m \in Media,
           m.ring = "caller" => media.ring = "caller", setState(s, m)
    PROVE  RingWhileRinging'
<1>1. CASE s = "sip_incoming_call_ringing"
    BY <1>1 DEF RingWhileRinging, setState
<1>2. CASE s # "sip_incoming_call_ringing" /\ state = "sip_incoming_call_ringing"
  <2>1. media' = stopRing(m)
    BY <1>2 DEF setState
  <2>2. media'.ring = "none"
    BY <2>1 DEF stopRing, Media
  <2> QED BY <2>2 DEF RingWhileRinging
<1>3. CASE s # "sip_incoming_call_ringing" /\ state # "sip_incoming_call_ringing"
  <2>1. media' = m
    BY <1>3 DEF setState
  <2>2. m.ring # "caller"
    BY <1>3 DEF RingWhileRinging
  <2> QED BY <2>1, <2>2 DEF RingWhileRinging
<1> QED BY <1>1, <1>2, <1>3

\* eXosip_automatic_action touches challenged calls only.
LEMMA AutomaticKeeps ==
    ASSUME TypeOK, NEW c \in Cid
    PROVE  calls[c].tr \in Waiting => AutomaticCalls[c].tr \in Waiting
BY DEF AutomaticCalls, Waiting

\* eXosip_call_terminate touches its call only.
LEMMA TerminateKeeps ==
    ASSUME NEW cs \in [Cid -> Call], NEW c \in Cid, NEW b, NEW d, b # c
    PROVE  Terminate(cs, b, d)[c] = cs[c]
BY DEF Terminate

\* An unused id has no event in the FIFO.
LEMMA UnusedUnread ==
    ASSUME NEW c, Unused(c), NEW i \in 1..Len(fifo)
    PROVE  fifo[i].id # c
BY DEF Unused, Unread

\* A queued INVITE is for a call.
LEMMA InviteTypes ==
    ASSUME TypeOK, NEW i \in 1..Len(fifo), fifo[i].type = "CALL_INVITE"
    PROVE  fifo[i].id \in Cid
<1>1. fifo[i] \in CallEvent \cup RegEvent
    BY DEF TypeOK, StackTypes
<1> QED BY <1>1 DEF CallEvent, CallEventType, RegEvent

-----------------------------------------------------------------------------
\* RingsForCaller: the stack's thread.

\* What a step of the stack may do to the callers: leave the FIFO and the callers alone,
\* or append one event, which is a new INVITE or the end of the only wait that ends.
StackEffect ==
    \/ UNCHANGED fifo /\ \A c \in Cid : Keeps(c)
    \/ \E e \in CallEvent \cup RegEvent :
          /\ fifo' = Append(fifo, e)
          /\ e.type = "CALL_INVITE" => Unused(e.id) /\ calls'[e.id].tr = "invited"
          /\ \A c \in Cid : Keeps(c) \/ Ended(e, c)

\* Every event the stack reports for a call is well typed.
LEMMA ReportedCall ==
    ASSUME NEW c \in Cid, NEW d \in BOOLEAN,
           NEW type \in CallEventType,
           NEW info \in CallInfo,
           Report(type, c, d, info)
    PROVE  \E e \in CallEvent \cup RegEvent : fifo' = Append(fifo, e) /\ e.type = type /\ e.id = c
<1> DEFINE e == [type |-> type, id |-> c, did |-> d, info |-> info]
<1>1. e \in CallEvent /\ e.type = type /\ e.id = c
    BY DEF CallEvent
<1>2. fifo' = Append(fifo, e)
    BY DEF Report
<1> QED BY <1>1, <1>2

\* Every step of a call, except a new INVITE, has that effect.
LEMMA CallStepEffect ==
    ASSUME TypeOK, NEW c \in Cid,
           \/ Rcv100(c) \/ RcvChallenge(c) \/ RcvCancel(c) \/ SndRefusal(c)
           \/ RcvBye(c) \/ RcvAck(c) \/ ReleaseCall(c)
           \/ \E body \in Bodies \ {"anonymous"} : Rcv18x(c, body) \/ Rcv200(c, body)
           \/ \E type \in FailTypes \ {"challenge"} : RcvFailure(c, type)
    PROVE  StackEffect
<1> USE DEF TypeOK, StackTypes
<1>1. CASE Rcv100(c) \/ RcvCancel(c)
    BY <1>1 DEF Rcv100, RcvCancel, StackEffect, Keeps, Waiting, Call
<1>2. CASE RcvChallenge(c)
  <2>1. \E e \in CallEvent \cup RegEvent :
            fifo' = Append(fifo, e) /\ e.type = "CALL_REQUESTFAILURE" /\ e.id = c
    BY <1>2, ReportedCall, EventNames DEF RcvChallenge
  <2>2. \A b \in Cid : Keeps(b)
    BY <1>2 DEF RcvChallenge, Keeps, Waiting, Call
  <2> QED BY <2>1, <2>2 DEF StackEffect
<1>3. CASE SndRefusal(c)
  <2>1. PICK e \in CallEvent \cup RegEvent :
            fifo' = Append(fifo, e) /\ e.type = "CALL_CLOSED" /\ e.id = c
    BY <1>3, ReportedCall, EventNames DEF SndRefusal
  <2>2. \A b \in Cid : Keeps(b) \/ Ended(e, b)
    BY <1>3, <2>1 DEF SndRefusal, Keeps, Ended
  <2> QED BY <2>1, <2>2 DEF StackEffect
<1>4. CASE RcvBye(c)
  <2>1. \E e \in CallEvent \cup RegEvent :
            fifo' = Append(fifo, e) /\ e.type = "CALL_CLOSED" /\ e.id = c
    BY <1>4, ReportedCall, EventNames DEF RcvBye
  <2>2. \A b \in Cid : Keeps(b)
    BY <1>4 DEF RcvBye, Keeps, Waiting, Call
  <2> QED BY <2>1, <2>2 DEF StackEffect
<1>5. CASE RcvAck(c)
  <2>1. \E e \in CallEvent \cup RegEvent :
            fifo' = Append(fifo, e) /\ e.type = "CALL_ACK" /\ e.id = c
    BY <1>5, ReportedCall, EventNames DEF RcvAck
  <2>2. \A b \in Cid : Keeps(b)
    BY <1>5 DEF RcvAck, Keeps
  <2> QED BY <2>1, <2>2 DEF StackEffect
<1>6. CASE ReleaseCall(c)
  <2>1. PICK e \in CallEvent \cup RegEvent :
            fifo' = Append(fifo, e) /\ e.type = "CALL_RELEASED" /\ e.id = c
    BY <1>6, ReportedCall, EventNames DEF ReleaseCall
  <2>2. \A b \in Cid : Keeps(b) \/ Ended(e, b)
    BY <1>6, <2>1 DEF ReleaseCall, Keeps, Ended
  <2> QED BY <2>1, <2>2 DEF StackEffect
<1>7. ASSUME NEW body \in Bodies \ {"anonymous"}, Rcv18x(c, body)
      PROVE  StackEffect
  <2>1. body \in CallInfo
    BY EXosipAssumption DEF CallInfo
  <2>2. \E e \in CallEvent \cup RegEvent :
            fifo' = Append(fifo, e) /\ e.type = "CALL_RINGING" /\ e.id = c
    <3>1. PICK d \in BOOLEAN : fifo' = Append(fifo,
              [type |-> "CALL_RINGING", id |-> c, did |-> d, info |-> body])
      BY <1>7 DEF Rcv18x, Report
    <3>2. [type |-> "CALL_RINGING", id |-> c, did |-> d, info |-> body] \in CallEvent
      BY <2>1, EventNames DEF CallEvent
    <3> QED BY <3>1, <3>2
  <2>3. \A b \in Cid : Keeps(b)
    BY <1>7 DEF Rcv18x, Keeps, Waiting, Call
  <2> QED BY <2>2, <2>3 DEF StackEffect
<1>8. ASSUME NEW body \in Bodies \ {"anonymous"}, Rcv200(c, body)
      PROVE  StackEffect
  <2>1. \A b \in Cid : Keeps(b)
    BY <1>8 DEF Rcv200, Keeps, Waiting, Call
  <2>2. body \in CallInfo
    BY EXosipAssumption DEF CallInfo
  <2>3. CASE UNCHANGED fifo
    BY <2>1, <2>3 DEF StackEffect
  <2>4. CASE Report("CALL_ANSWERED", c, TRUE, body)
    <3>1. \E e \in CallEvent \cup RegEvent :
              fifo' = Append(fifo, e) /\ e.type = "CALL_ANSWERED" /\ e.id = c
      BY <2>2, <2>4, ReportedCall, EventNames
    <3> QED BY <2>1, <3>1 DEF StackEffect
  <2> QED BY <1>8, <2>3, <2>4 DEF Rcv200
<1>9. ASSUME NEW type \in FailTypes \ {"challenge"}, RcvFailure(c, type)
      PROVE  StackEffect
  <2>1. PICK d \in BOOLEAN : fifo' = Append(fifo,
            [type |-> type, id |-> c, did |-> d, info |-> "failure"])
    BY <1>9 DEF RcvFailure, Report
  <2>2. type \in CallEventType /\ type # "CALL_INVITE"
    BY EXosipAssumption DEF CallEventType
  <2>3. \E e \in CallEvent \cup RegEvent : fifo' = Append(fifo, e) /\ e.type = type /\ e.id = c
    <3>1. [type |-> type, id |-> c, did |-> d, info |-> "failure"] \in CallEvent
      BY <2>2, EventNames DEF CallEvent
    <3> QED BY <2>1, <3>1
  <2>4. \A b \in Cid : Keeps(b)
    BY <1>9 DEF RcvFailure, Keeps, Waiting, Call
  <2> QED BY <2>2, <2>3, <2>4 DEF StackEffect
<1> QED BY <1>1, <1>2, <1>3, <1>4, <1>5, <1>6, <1>7, <1>8, <1>9

\* Every step of the stack, and a poll that reads nothing, has that effect.
LEMMA StackHasEffect ==
    ASSUME TypeOK, Stack \/ EmptyPoll
    PROVE  StackEffect
<1> USE DEF TypeOK, StackTypes
<1>1. ASSUME NEW c \in Cid, NEW body \in Bodies, Unused(c), RcvInvite(c, body)
      PROVE  StackEffect
  <2>1. body \in CallInfo
    BY EXosipAssumption DEF CallInfo
  <2>2. \E e \in CallEvent \cup RegEvent :
            fifo' = Append(fifo, e) /\ e.type = "CALL_INVITE" /\ e.id = c
    BY <1>1, <2>1, ReportedCall, EventNames DEF RcvInvite
  <2>3. calls'[c].tr = "invited" /\ \A b \in Cid : b # c => calls'[b] = calls[b]
    BY <1>1 DEF RcvInvite, FreeCall
  <2>4. \A b \in Cid : Keeps(b)
    BY <2>3 DEF Keeps, Waiting
  <2> QED BY <1>1, <2>2, <2>3, <2>4 DEF StackEffect
<1>2. ASSUME NEW r \in Rid, RefreshRegister(r) \/ ReleaseRegister(r)
      PROVE  StackEffect
    BY <1>2 DEF RefreshRegister, ReleaseRegister, StackEffect, Keeps
<1>3. ASSUME NEW r \in Rid, NEW code \in RegCodes, RcvRegisterAnswer(r, code)
      PROVE  StackEffect
  <2>1. code \in {"200", "401", "407", "403", "404", "500", "noreply"}
    BY EXosipAssumption
  <2>2. PICK type \in {"REGISTRATION_SUCCESS", "REGISTRATION_FAILURE"} :
            Report(type, r, FALSE, code)
    BY <1>3 DEF RcvRegisterAnswer
  <2> DEFINE e == [type |-> type, id |-> r, did |-> FALSE, info |-> code]
  <2>3. e \in RegEvent /\ e.type # "CALL_INVITE" /\ fifo' = Append(fifo, e)
    BY <2>1, <2>2 DEF RegEvent, Report
  <2>4. \A b \in Cid : Keeps(b)
    BY <1>3 DEF RcvRegisterAnswer, Keeps
  <2> HIDE DEF e
  <2> QED BY <2>3, <2>4 DEF StackEffect
<1>4. ASSUME EmptyPoll PROVE StackEffect
    BY <1>4, AutomaticKeeps DEF EmptyPoll, StackEffect, Keeps
<1> QED BY <1>1, <1>2, <1>3, <1>4, CallStepEffect DEF Stack, NewInvite, EXosipThread

\* The stack's thread and a poll that reads nothing keep the invariant.
LEMMA StackRing ==
    ASSUME TypeOK, RingInv, Stack \/ EmptyPoll
    PROVE  RingInv'
<1>1. UNCHANGED <<media, state, cid>>
    BY DEF Stack, NewInvite, EmptyPoll, phoneVars, fsmVars
<1>2. RingWhileRinging'
    BY <1>1 DEF RingInv, RingWhileRinging
<1>3. CASE UNCHANGED fifo /\ \A c \in Cid : Keeps(c)
  <2>1. \A i \in 1..Len(fifo) : fifo[i].type = "CALL_INVITE"
            => fifo[i].id # cid' /\ Keeps(fifo[i].id)
    BY <1>1, <1>3, InviteTypes DEF RingInv, InviteIsNews
  <2>2. InviteIsNews'
    BY <1>3, <2>1, NewsUnread DEF RingInv
  <2>3. ASSUME NEW c \in Cid, c = cid, state = "sip_incoming_call_ringing"
        PROVE  CallerWaits(c, 0)'
    BY <1>3, <2>3, WaitsUnread DEF RingInv, RingingCallerWaits
  <2>4. RingingCallerWaits'
    BY <1>1, <2>3 DEF RingInv, RingingCallerWaits
  <2> QED BY <1>2, <2>2, <2>4 DEF RingInv
<1>4. ASSUME NEW e \in CallEvent \cup RegEvent, fifo' = Append(fifo, e),
             e.type = "CALL_INVITE" => Unused(e.id) /\ calls'[e.id].tr = "invited",
             \A c \in Cid : Keeps(c) \/ Ended(e, c)
      PROVE  RingInv'
  <2>1. /\ Len(fifo) \in Nat /\ Len(fifo') = Len(fifo) + 1 /\ fifo'[Len(fifo) + 1] = e
        /\ \A i \in 1..Len(fifo) : fifo'[i] = fifo[i]
    BY <1>4, AppendAt DEF TypeOK, StackTypes
  <2>2. ASSUME NEW c \in Cid, NEW i \in 0..Len(fifo), CallerWaits(c, i)
        PROVE  CallerWaits(c, i)'
    BY <1>4, <2>2, WaitsAppended
  <2>3. RingingCallerWaits'
    <3>1. ASSUME NEW c \in Cid, c = cid, state = "sip_incoming_call_ringing"
          PROVE  CallerWaits(c, 0)'
      BY <2>1, <2>2, <3>1 DEF RingInv, RingingCallerWaits
    <3> QED BY <1>1, <3>1 DEF RingInv, RingingCallerWaits
  <2>4. InviteIsNews'
    <3> SUFFICES ASSUME NEW i \in 1..Len(fifo'), fifo'[i].type = "CALL_INVITE",
                        NEW c, c = fifo'[i].id
                 PROVE  /\ c # cid'
                        /\ CallerWaits(c, i)'
                        /\ \A j \in 1..Len(fifo') :
                              fifo'[j].type = "CALL_INVITE" /\ fifo'[j].id = c => j = i
        BY DEF InviteIsNews
    <3>1. CASE i \in 1..Len(fifo)
      <4>1. fifo[i].type = "CALL_INVITE" /\ fifo[i].id = c
        BY <2>1, <3>1
      <4>2. c \in Cid
        BY <3>1, <4>1, InviteTypes
      <4>3. c # cid /\ CallerWaits(c, i)
        BY <3>1, <4>1 DEF RingInv, InviteIsNews
      <4>4. CallerWaits(c, i)'
        BY <2>1, <2>2, <3>1, <4>2, <4>3
      <4>5. ASSUME NEW j \in 1..Len(fifo'), fifo'[j].type = "CALL_INVITE", fifo'[j].id = c
            PROVE  j = i
        <5>1. j # Len(fifo) + 1
          BY <1>4, <2>1, <3>1, <4>1, <4>5, UnusedUnread
        <5>2. j \in 1..Len(fifo)
          BY <2>1, <5>1
        <5>3. fifo[j].type = "CALL_INVITE" /\ fifo[j].id = c
          BY <2>1, <4>5, <5>2
        <5> QED BY <3>1, <4>1, <5>2, <5>3 DEF RingInv, InviteIsNews
      <4> QED BY <1>1, <4>3, <4>4, <4>5
    <3>2. CASE i = Len(fifo) + 1
      <4>1. c = e.id /\ e.type = "CALL_INVITE" /\ Unused(c) /\ calls'[c].tr = "invited"
        BY <1>4, <2>1, <3>2
      <4>2. c # cid
        BY <4>1 DEF Unused
      <4>3. CallerWaits(c, i)'
        BY <4>1 DEF CallerWaits
      <4>4. ASSUME NEW j \in 1..Len(fifo'), fifo'[j].type = "CALL_INVITE", fifo'[j].id = c
            PROVE  j = i
        BY <2>1, <3>2, <4>1, <4>4, UnusedUnread
      <4> QED BY <1>1, <4>2, <4>3, <4>4
    <3> QED BY <2>1, <3>1, <3>2
  <2> QED BY <1>2, <2>3, <2>4 DEF RingInv
<1> QED BY <1>3, <1>4, StackHasEffect DEF StackEffect

-----------------------------------------------------------------------------
\* RingsForCaller: commands, which read no event.

\* Other callers are kept waiting; a new id is one nothing refers to.
OthersKept == \A c \in Cid : c # cid => Keeps(c) \/ Unused(c)

\* What a command may do to the callers.
CommandEffect ==
    /\ UNCHANGED fifo
    /\ OthersKept
    /\ cid' = cid \/ Unused(cid')
    /\ RingWhileRinging'
    /\ state' = "sip_incoming_call_ringing" =>
            state = "sip_incoming_call_ringing" /\ UNCHANGED <<calls, cid>>

\* That is enough for the invariant.
LEMMA CommandRing ==
    ASSUME TypeOK, RingInv, CommandEffect
    PROVE  RingInv'
<1>1. InviteIsNews'
  <2>1. ASSUME NEW i \in 1..Len(fifo), fifo[i].type = "CALL_INVITE"
        PROVE  fifo[i].id # cid' /\ Keeps(fifo[i].id)
    <3>1. fifo[i].id \in Cid
      BY <2>1, InviteTypes
    <3>2. fifo[i].id # cid
      BY <2>1 DEF RingInv, InviteIsNews
    <3>3. ~Unused(fifo[i].id)
      BY UnusedUnread
    <3> QED BY <3>1, <3>2, <3>3 DEF CommandEffect, OthersKept
  <2> QED BY <2>1, NewsUnread DEF RingInv, CommandEffect
<1>2. RingingCallerWaits'
    BY DEF CommandEffect, RingInv, RingingCallerWaits, CallerWaits, Ended
<1> QED BY <1>1, <1>2 DEF RingInv, CommandEffect

\* A command that moves the phone to a state other than sip_incoming_call_ringing and
\* leaves the calls alone, or terminates the phone's own, has that effect.
LEMMA LeavingEffect ==
    ASSUME TypeOK, RingWhileRinging, NEW s, s # "sip_incoming_call_ringing",
           setState(s, media), UNCHANGED <<fifo, cid>>,
           calls' = calls \/ calls' = Terminate(calls, cid, did)
    PROVE  CommandEffect
<1>1. media \in Media /\ calls \in [Cid -> Call]
    BY DEF TypeOK, PhoneTypes, StackTypes
<1>2. RingWhileRinging'
    BY <1>1, setStateRing
<1>3. \A c \in Cid : c # cid => calls'[c] = calls[c]
    BY <1>1, TerminateKeeps
<1>4. OthersKept
    BY <1>3 DEF OthersKept, Keeps
<1> QED BY <1>2, <1>4 DEF CommandEffect, setState

\* A command that leaves the phone alone has that effect.
LEMMA AloneEffect ==
    ASSUME RingWhileRinging, UNCHANGED <<calls, fifo, cid, state, media>>
    PROVE  CommandEffect
BY DEF CommandEffect, OthersKept, Keeps, RingWhileRinging

\* Registering and unregistering have that effect.
LEMMA RegisterEffect ==
    ASSUME TypeOK, RingWhileRinging
    PROVE  /\ \A forCall \in BOOLEAN, dur \in Period :
                    registerPhoneOnDemand(forCall, dur) => CommandEffect
           /\ registerPhone => CommandEffect
           /\ unregisterPhone => CommandEffect
<1>1. ASSUME NEW forCall \in BOOLEAN, NEW dur \in Period, registerPhoneOnDemand(forCall, dur)
      PROVE  CommandEffect
  <2>1. PICK s : s # "sip_incoming_call_ringing" /\ setState(s, media)
    BY <1>1 DEF registerPhoneOnDemand
  <2> QED BY <1>1, <2>1, LeavingEffect DEF registerPhoneOnDemand
<1>2. 0 \in Period /\ Expires \in Period
    BY DEF Period
<1>3. ASSUME registerPhone PROVE CommandEffect
    BY <1>1, <1>2, <1>3, AloneEffect DEF registerPhone, sipVars, fsmVars
<1>4. ASSUME unregisterPhone PROVE CommandEffect
  <2>1. CASE state \in BelowRegistered
    BY <1>1, <1>2, <1>4, <2>1 DEF unregisterPhone
  <2>2. CASE state \notin BelowRegistered
    BY <1>4, <2>2, LeavingEffect DEF unregisterPhone, HangUp
  <2> QED BY <2>1, <2>2
<1> QED BY <1>1, <1>3, <1>4

\* makeOutCall takes an unused id, if any, and does not ring.
LEMMA makeOutCallEffect ==
    ASSUME TypeOK, RingWhileRinging, NEW cs \in [Cid -> Call], makeOutCall(cs),
           \A c \in Cid : calls[c].tr \in Waiting => cs[c].tr \in Waiting
    PROVE  /\ OthersKept /\ RingWhileRinging' /\ state' # "sip_incoming_call_ringing"
           /\ cid' = cid \/ Unused(cid')
<1> DEFINE m == setupAndGetLocalSdp(endUserPlane(media))
<1>1. media \in Media /\ endUserPlane(media) \in Media /\ endUserPlane(media).ring = "none"
    BY DEF TypeOK, PhoneTypes, Media, endUserPlane
<1>2. m \in Media /\ m.ring = "none"
    BY <1>1, setupTypes, RingOfSetup
<1>3. PICK s \in {"sip_registered", "sip_outgoing_call_sent"}, x \in {media, m} : setState(s, x)
    BY DEF makeOutCall
<1> HIDE DEF m
<1>4. RingWhileRinging'
    BY <1>1, <1>2, <1>3, setStateRing
<1>5. OthersKept /\ (cid' = cid \/ Unused(cid'))
  <2>1. CASE calls' = cs /\ UNCHANGED cid
    BY <2>1 DEF OthersKept, Keeps
  <2>2. ASSUME NEW c \in Cid, Unused(c), cid' = c,
               calls' = [cs EXCEPT ![c] = [FreeCall EXCEPT !.tr = "calling"]]
        PROVE  OthersKept /\ Unused(cid')
    <3>1. \A b \in Cid : b # c => calls'[b] = cs[b]
      BY <2>2
    <3> QED BY <2>2, <3>1 DEF OthersKept, Keeps
  <2> QED BY <2>1, <2>2 DEF makeOutCall
<1>6. state' # "sip_incoming_call_ringing"
    BY makeOutCallState
<1> QED BY <1>4, <1>5, <1>6

\* The user's commands have that effect.
LEMMA UserEffect ==
    ASSUME TypeOK, RingWhileRinging, dialOutCall \/ hangUpCall \/ acceptCall
    PROVE  CommandEffect
<1>1. CASE dialOutCall
  <2>1. Expires \in Period
    BY DEF Period
  <2>2. CASE registerPhoneOnDemand(TRUE, Expires)
    BY <2>1, <2>2, RegisterEffect
  <2>3. CASE makeOutCall(calls) /\ UNCHANGED fifo
    BY <2>3, makeOutCallEffect DEF CommandEffect, TypeOK, StackTypes
  <2> QED BY <1>1, <2>2, <2>3 DEF dialOutCall
<1>2. CASE hangUpCall
    BY <1>2, LeavingEffect DEF hangUpCall, HangUp
<1>3. CASE acceptCall
  <2>1. media \in Media /\ setState("sip_incoming_call_acccepted", media)
    BY <1>3 DEF acceptCall, TypeOK, PhoneTypes
  <2>2. RingWhileRinging'
    BY <2>1, setStateRing
  <2>3. OthersKept
    BY <1>3 DEF acceptCall, SendFinal, OthersKept, Keeps, TypeOK, StackTypes
  <2> QED BY <1>3, <2>1, <2>2, <2>3 DEF CommandEffect, acceptCall, setState
<1> QED BY <1>1, <1>2, <1>3

\* What the system asks has that effect.
LEMMA SystemEffect ==
    ASSUME TypeOK, RingWhileRinging, System
    PROVE  CommandEffect
BY RegisterEffect, AloneEffect
DEF System, networkAvailable, _wakeUp, _goSleep, _sessionOut, applicationShouldTerminate,
    sipVars, fsmVars

\* Preferences and menus have that effect.
LEMMA PreferencesEffect ==
    ASSUME TypeOK, RingWhileRinging, Preferences
    PROVE  CommandEffect
<1>1. CASE setOnDemandRegister
  <2>1. Expires \in Period
    BY DEF Period
  <2> QED BY <1>1, <2>1, RegisterEffect, AloneEffect DEF setOnDemandRegister, sipVars, fsmVars
<1>2. CASE setPassword \/ RegisterMenu \/ UnregisterMenu
    BY <1>2, RegisterEffect DEF setPassword, RegisterMenu, UnregisterMenu
<1>3. ASSUME NEW a \in Accounts, setPhoneNumber(a) PROVE CommandEffect
  <2>1. PICK s : setState(s, media) /\ (s # "sip_incoming_call_ringing" \/ s = state)
    BY <1>3 DEF setPhoneNumber, authInfoChanged
  <2>2. UNCHANGED <<calls, fifo, cid>>
    BY <1>3 DEF setPhoneNumber
  <2>3. CASE s = state
    BY <2>1, <2>2, <2>3, AloneEffect DEF setState
  <2> QED BY <2>1, <2>2, <2>3, LeavingEffect
<1>4. ASSUME NEW a \in Accounts, setProvider(a) PROVE CommandEffect
  <2>1. PICK s : setState(s, media) /\ s # "sip_incoming_call_ringing"
    BY <1>4 DEF setProvider, authInfoChanged, Unregistered
  <2>2. UNCHANGED <<fifo, cid>> /\ (calls' = calls \/ calls' = Terminate(calls, cid, did))
    BY <1>4 DEF setProvider, HangUp
  <2> QED BY <2>1, <2>2, LeavingEffect
<1>5. CASE pretendRegistered
    BY <1>5, LeavingEffect DEF pretendRegistered, sipVars
<1> QED BY <1>1, <1>2, <1>3, <1>4, <1>5 DEF Preferences

\* The audio test and the debug window have that effect: they may end the ring of a
\* caller, and only start one of their own.
LEMMA SoundEffect ==
    ASSUME TypeOK, RingWhileRinging, Sound
    PROVE  CommandEffect
<1>1. UNCHANGED <<calls, fifo, cid, state>>
    BY DEF Sound, stopAudioTest, test2, ring, endRing, MediaOnly, sipVars, fsmVars
<1>2. media'.ring # "caller"
    BY DEF Sound, stopAudioTest, test2, ring, endRing, endUserPlane, startRing, stopRing,
           TypeOK, PhoneTypes, Media
<1> QED BY <1>1, <1>2 DEF CommandEffect, OthersKept, Keeps, RingWhileRinging

-----------------------------------------------------------------------------
\* RingsForCaller: pollExosip.

\* What the handling of an event may do to the callers.
EventEffect ==
    /\ fifo # << >> /\ fifo' = Tail(fifo)
    /\ OthersKept
    /\ \/ cid' = cid \/ Unused(cid')
       \/ Head(fifo).type = "CALL_INVITE" /\ cid' = Head(fifo).id
    /\ RingWhileRinging'
    /\ state' = "sip_incoming_call_ringing" =>
          \/ /\ state = "sip_incoming_call_ringing" /\ cid' = cid
             /\ Keeps(cid) /\ ~Ended(Head(fifo), cid)
          \/ Head(fifo).type = "CALL_INVITE" /\ cid' = Head(fifo).id /\ Keeps(cid')

\* That is enough for the invariant: what the phone starts to ring for is an INVITE whose
\* caller waits, and what it goes on ringing for has not ended.
LEMMA EventRing ==
    ASSUME TypeOK, RingInv, EventEffect
    PROVE  RingInv'
<1>1. Len(fifo) \in Nat \ {0} /\ Head(fifo) = fifo[1]
    BY TailAt DEF TypeOK, StackTypes, EventEffect
<1>2. InviteIsNews'
  <2>1. ASSUME NEW i \in 1..Len(fifo), i > 1, fifo[i].type = "CALL_INVITE"
        PROVE  fifo[i].id # cid' /\ Keeps(fifo[i].id)
    <3>1. fifo[i].id \in Cid
      BY <2>1, InviteTypes
    <3>2. fifo[i].id # cid
      BY <2>1 DEF RingInv, InviteIsNews
    <3>3. ~Unused(fifo[i].id)
      BY UnusedUnread
    <3>4. Head(fifo).type = "CALL_INVITE" => Head(fifo).id # fifo[i].id
      BY <1>1, <2>1 DEF RingInv, InviteIsNews
    <3> QED BY <3>1, <3>2, <3>3, <3>4 DEF EventEffect, OthersKept
  <2> QED BY <2>1, NewsRead DEF RingInv, EventEffect
<1>3. RingingCallerWaits'
  <2> SUFFICES ASSUME state' = "sip_incoming_call_ringing", NEW c, c = cid'
               PROVE  c \in Cid /\ CallerWaits(c, 0)'
      BY DEF RingingCallerWaits
  <2>1. CASE state = "sip_incoming_call_ringing" /\ c = cid /\ Keeps(c) /\ ~Ended(Head(fifo), c)
    <3>1. c \in Cid /\ CallerWaits(c, 0)
      BY <2>1 DEF RingInv, RingingCallerWaits
    <3> QED BY <2>1, <3>1, WaitsRead DEF EventEffect
  <2>2. CASE Head(fifo).type = "CALL_INVITE" /\ c = Head(fifo).id /\ Keeps(c)
    <3>1. c \in Cid /\ CallerWaits(c, 1)
      BY <1>1, <2>2, InviteTypes DEF RingInv, InviteIsNews
    <3> QED BY <2>2, <3>1, WaitsRead DEF EventEffect
  <2> QED BY <2>1, <2>2 DEF EventEffect
<1> QED BY <1>2, <1>3 DEF RingInv, EventEffect

\* EndCall terminates no call but the phone's own, and leaves no ring.
LEMMA EndCallEffect ==
    ASSUME TypeOK, RingWhileRinging, EndCall
    PROVE  OthersKept /\ RingWhileRinging' /\ state' # "sip_incoming_call_ringing"
<1>1. media \in Media /\ endUserPlane(media) \in Media /\ endUserPlane(media).ring = "none"
    BY DEF TypeOK, PhoneTypes, Media, endUserPlane
<1>2. AutomaticCalls \in [Cid -> Call]
    BY AutomaticTypes DEF TypeOK, StackTypes
<1>3. \A c \in Cid : c # cid => calls'[c] = AutomaticCalls[c]
    BY <1>2, TerminateKeeps DEF EndCall, terminateCall
<1>4. OthersKept
    BY <1>3, AutomaticKeeps DEF OthersKept, Keeps
<1>5. CASE state \in AboveRegistered
  <2>1. PICK s : s # "sip_incoming_call_ringing" /\ setState(s, endUserPlane(media))
    BY <1>5 DEF EndCall, terminateCall
  <2> QED BY <1>1, <1>4, <2>1, setStateRing DEF setState
<1>6. CASE state \notin AboveRegistered
  <2>1. state # "sip_incoming_call_ringing"
    BY <1>6 DEF AboveRegistered, HangUpStates
  <2> QED BY <1>1, <1>4, <1>6, <2>1 DEF EndCall, RingWhileRinging
<1> QED BY <1>5, <1>6

\* Registration events have that effect.
LEMMA RegistrationEffect ==
    ASSUME TypeOK, RingInv, RegistrationFailure \/ RegistrationSuccess
    PROVE  EventEffect
<1> USE DEF RingInv
<1>1. media \in Media /\ calls \in [Cid -> Call] /\ AutomaticCalls \in [Cid -> Call]
    BY AutomaticTypes DEF TypeOK, PhoneTypes, StackTypes
<1>2. fifo # << >> /\ fifo' = Tail(fifo)
      /\ Head(fifo).type \in {"REGISTRATION_SUCCESS", "REGISTRATION_FAILURE"}
    BY DEF RegistrationFailure, RegistrationSuccess, Reads
<1>3. ASSUME NEW s, setState(s, media), s = "sip_incoming_call_ringing" => s = state,
             calls' = AutomaticCalls, cid' = cid
      PROVE  EventEffect
  <2>1. RingWhileRinging'
    BY <1>1, <1>3, setStateRing
  <2>2. \A c \in Cid : Keeps(c)
    BY <1>3, AutomaticKeeps DEF Keeps
  <2>3. state' = "sip_incoming_call_ringing" => state = "sip_incoming_call_ringing"
    BY <1>3 DEF setState
  <2>4. state = "sip_incoming_call_ringing" => cid \in Cid
    BY DEF RingingCallerWaits
  <2> QED BY <1>2, <1>3, <2>1, <2>2, <2>3, <2>4 DEF EventEffect, OthersKept, Ended
<1>4. CASE RegistrationFailure
  <2>1. PICK code, resent : setState(AfterRegistrationFailure(code, resent), media)
    BY <1>4 DEF RegistrationFailure
  <2>2. AfterRegistrationFailure(code, resent) = "sip_incoming_call_ringing"
            => AfterRegistrationFailure(code, resent) = state
    BY DEF AfterRegistrationFailure
  <2> QED BY <1>3, <1>4, <2>1, <2>2 DEF RegistrationFailure
<1>5. CASE RegistrationSuccess
  <2>1. CASE makeOutCall(AutomaticCalls)
    <3>1. /\ OthersKept /\ RingWhileRinging' /\ state' # "sip_incoming_call_ringing"
          /\ cid' = cid \/ Unused(cid')
      BY <1>1, <2>1, makeOutCallEffect, AutomaticKeeps
    <3> QED BY <1>2, <3>1 DEF EventEffect
  <2>2. CASE ~makeOutCall(AutomaticCalls)
    <3>1. /\ setState(AfterRegistrationSuccess, media) /\ calls' = AutomaticCalls /\ cid' = cid
      BY <1>5, <2>2 DEF RegistrationSuccess
    <3>2. AfterRegistrationSuccess = "sip_incoming_call_ringing" => AfterRegistrationSuccess = state
      BY DEF AfterRegistrationSuccess
    <3> QED BY <1>3, <3>1, <3>2
  <2> QED BY <2>1, <2>2
<1> QED BY <1>4, <1>5

\* INVITEs and events of other calls have that effect.
LEMMA OtherCallEffect ==
    ASSUME TypeOK, RingInv, RefuseInvite \/ AcceptInvite \/ OtherCallEvent
    PROVE  EventEffect
<1> USE DEF RingInv
<1>1. media \in Media /\ calls \in [Cid -> Call] /\ AutomaticCalls \in [Cid -> Call]
    BY AutomaticTypes DEF TypeOK, PhoneTypes, StackTypes
<1>2. fifo # << >> /\ fifo' = Tail(fifo) /\ Head(fifo).id # cid
    BY DEF RefuseInvite, AcceptInvite, OtherCallEvent, Reads
<1>3. state = "sip_incoming_call_ringing" => cid \in Cid
    BY DEF RingingCallerWaits
<1>4. ASSUME UNCHANGED <<state, media, cid>>, \A c \in Cid : Keeps(c)
      PROVE  EventEffect
    BY <1>2, <1>3, <1>4 DEF EventEffect, OthersKept, Ended, RingWhileRinging
<1>5. CASE RefuseInvite
  <2>1. \A c \in Cid : Keeps(c)
    BY <1>1, <1>5, AutomaticKeeps DEF RefuseInvite, SendFinal, Keeps, Waiting, Call
  <2> QED BY <1>4, <1>5, <2>1 DEF RefuseInvite, fsmVars
<1>6. CASE OtherCallEvent
  <2>1. \A c \in Cid : Keeps(c)
    BY <1>6, AutomaticKeeps DEF OtherCallEvent, Keeps
  <2> QED BY <1>4, <1>6, <2>1 DEF OtherCallEvent, fsmVars
<1>7. CASE AcceptInvite
  <2> DEFINE c == Head(fifo).id
             m == setupAndGetLocalSdp(media)
             n == setupIncoming(m, c)
  <2>1. c \in Cid /\ c = Head(fifo).id /\ Head(fifo).type = "CALL_INVITE" /\ cid' = c
    BY <1>2, <1>7, HeadTypes DEF AcceptInvite, Reads, CallEvent
  <2>2. m \in Media /\ m.ring = media.ring
    BY <1>1, setupTypes, RingOfSetup
  <2>3. \A b \in Cid : Keeps(b)
    BY <1>7, AutomaticKeeps DEF AcceptInvite, Keeps
  <2> DEFINE left == [setupWithLocalSdp(m, c) EXCEPT !.faulty = TRUE]
  <2>4. \/ media' \in {m, left} /\ UNCHANGED state
        \/ setState("sip_incoming_call_ringing", n)
    BY <1>7 DEF AcceptInvite
  <2> HIDE DEF c, m
  <2>8. left.ring = media.ring
    BY <2>1, <2>2, RingOf
  <2> HIDE DEF left
  <2>5. n \in Media /\ n.ring = media.ring
    <3>1. n \in Media
      BY <2>1, <2>2, MediaTypes
    <3>2. n.ring = m.ring
      BY <2>1, <2>2, RingOf
    <3> QED BY <2>2, <3>1, <3>2
  <2> HIDE DEF n
  <2>6. RingWhileRinging'
    <3>1. CASE media' \in {m, left} /\ UNCHANGED state
      BY <2>2, <2>8, <3>1 DEF RingWhileRinging
    <3>2. CASE setState("sip_incoming_call_ringing", n)
      BY <1>1, <2>5, <3>2, setStateRing
    <3> QED BY <2>4, <3>1, <3>2
  <2>7. OthersKept /\ Keeps(c)
    BY <2>1, <2>3 DEF OthersKept
  <2> QED BY <1>2, <2>1, <2>6, <2>7 DEF EventEffect
<1> QED BY <1>5, <1>6, <1>7

\* Events of the phone's own call have that effect.
LEMMA CurrentCallEffect ==
    ASSUME TypeOK, RingInv,
           \/ CallRinging \/ CallRequestFailure \/ CallServerOrGlobalFailure
           \/ CallAnswered \/ CallReleased \/ CallClosed \/ CallAck
    PROVE  EventEffect
<1> USE DEF RingInv
<1>1. media \in Media
    BY DEF TypeOK, PhoneTypes
<1>2. fifo # << >> /\ fifo' = Tail(fifo) /\ cid' = cid
    BY DEF CallRinging, CallRequestFailure, CallServerOrGlobalFailure, CallAnswered,
           CallReleased, CallClosed, CallAck, ReadsCurrent, Reads, fsmVars
<1>3. cid \in Cid
    BY <1>2, HeadTypes
    DEF CallRinging, CallRequestFailure, CallServerOrGlobalFailure, CallAnswered,
        CallReleased, CallClosed, CallAck, ReadsCurrent, Reads, CallEvent
<1>4. setupWithLocalSdp(media, cid) \in Media /\ setupWithLocalSdp(media, cid).ring = media.ring
    BY <1>1, <1>3, MediaTypes, RingOf
<1>5. ASSUME EndCall PROVE EventEffect
    BY <1>2, <1>5, EndCallEffect DEF EventEffect
<1>6. ASSUME calls' = AutomaticCalls, RingWhileRinging', state' = "sip_incoming_call_ringing" => state' = state,
             Head(fifo).type \notin {"CALL_CLOSED", "CALL_RELEASED"}
      PROVE  EventEffect
  <2>1. \A c \in Cid : Keeps(c)
    BY <1>6, AutomaticKeeps DEF Keeps
  <2> QED BY <1>2, <1>3, <1>6, <2>1 DEF EventEffect, OthersKept, Ended
<1>7. CASE CallRinging
  <2>1. PICK m \in {media, setupWithLocalSdp(media, cid)} :
            setState("sip_outgoing_call_ringing", m)
    BY <1>7 DEF CallRinging
  <2>2. RingWhileRinging' /\ state' = "sip_outgoing_call_ringing"
    BY <1>1, <1>4, <2>1, setStateRing DEF setState
  <2> QED BY <1>6, <1>7, <2>2 DEF CallRinging, ReadsCurrent, Reads
<1>8. CASE CallRequestFailure
  <2>1. CASE EndCall
    BY <1>5, <2>1
  <2>2. CASE ~EndCall
    BY <1>6, <1>8, <2>2 DEF CallRequestFailure, ReadsCurrent, Reads, RingWhileRinging
  <2> QED BY <2>1, <2>2
<1>9. CASE CallServerOrGlobalFailure
    BY <1>6, <1>9 DEF CallServerOrGlobalFailure, ReadsCurrent, Reads, fsmVars, RingWhileRinging
<1>10. CASE CallAnswered
  <2>1. \/ setState("sip_online", setupWithLocalSdp(media, cid))
        \/ UNCHANGED state /\ media' \in {media, setupWithLocalSdp(media, cid)}
    BY <1>10 DEF CallAnswered
  <2>2. CASE setState("sip_online", setupWithLocalSdp(media, cid))
    <3>1. RingWhileRinging' /\ state' = "sip_online"
      BY <1>1, <1>4, <2>2, setStateRing DEF setState
    <3> QED BY <1>6, <1>10, <3>1 DEF CallAnswered, ReadsCurrent, Reads
  <2>3. CASE UNCHANGED state /\ media' \in {media, setupWithLocalSdp(media, cid)}
    <3>1. RingWhileRinging'
      BY <1>4, <2>3 DEF RingWhileRinging
    <3> QED BY <1>6, <1>10, <2>3, <3>1 DEF CallAnswered, ReadsCurrent, Reads
  <2> QED BY <2>1, <2>2, <2>3
<1>11. CASE CallReleased \/ CallClosed
    BY <1>5, <1>11 DEF CallReleased, CallClosed
<1>12. CASE CallAck
  <2>1. setState("sip_online", media) \/ UNCHANGED <<state, media>>
    BY <1>12 DEF CallAck
  <2>2. RingWhileRinging'
    BY <1>1, <2>1, setStateRing DEF RingWhileRinging
  <2>3. state' = "sip_incoming_call_ringing" => state' = state
    BY <2>1 DEF setState
  <2> QED BY <1>6, <1>12, <2>2, <2>3 DEF CallAck, ReadsCurrent, Reads
<1> QED BY <1>7, <1>8, <1>9, <1>10, <1>11, <1>12

-----------------------------------------------------------------------------
\* RingsForCaller: the theorem.

\* Every step keeps the invariant.
LEMMA RingStep == TypeOK /\ RingInv /\ [Next]_vars => RingInv'
<1> SUFFICES ASSUME TypeOK, RingInv, [Next]_vars PROVE RingInv'
    OBVIOUS
<1>1. CASE UNCHANGED vars
    BY <1>1 DEF RingInv, RingWhileRinging, RingingCallerWaits, InviteIsNews, CallerWaits, Ended,
                vars, sipVars, phoneVars, fsmVars
<1>2. CASE pollExosip /\ ~CrashOnEvent
    BY <1>2, EventRing, RegistrationEffect, OtherCallEffect, CurrentCallEffect DEF pollExosip
<1>3. CASE User \/ System \/ Preferences \/ Sound
    BY <1>3, CommandRing, UserEffect, SystemEffect, PreferencesEffect, SoundEffect DEF User, RingInv
<1>4. CASE Stack \/ EmptyPoll
    BY <1>4, StackRing
<1>5. CASE CrashOnEvent \/ CrashOnCommand
    BY <1>5 DEF RingInv, RingWhileRinging, RingingCallerWaits, InviteIsNews, CallerWaits, Ended,
                CrashOnEvent, CrashOnCommand, Crash, sipVars, fsmVars
<1> QED BY <1>1, <1>2, <1>3, <1>4, <1>5 DEF Next, Running, Terminated, MainThread

\* The invariant says what RingsForCaller says.
LEMMA RingInvRings == TypeOK /\ RingInv => RingsForCaller
<1> SUFFICES ASSUME RingInv, media.ring = "caller" PROVE RingsForCaller
    BY DEF RingsForCaller
<1>1. state = "sip_incoming_call_ringing" /\ CallerWaits(cid, 0)
    BY DEF RingInv, RingWhileRinging, RingingCallerWaits
<1> QED BY <1>1 DEF RingsForCaller, CallerWaits, Ended, Queued

\* The phone rings of itself only for a caller who still waits, or whose end is queued
\* (sipPhone.m, pollExosip and setState:), whatever the audio test and the debug window
\* do with the ring meanwhile.
THEOREM RingsOnlyForCaller == Spec => []RingsForCaller
<1>1. Init => RingInv
    BY DEF Init, MediaInit, EXosipInit, RingInv, RingWhileRinging, RingingCallerWaits, InviteIsNews
<1>2. Spec => [](TypeOK /\ RingInv)
    BY <1>1, RingStep, TypeCorrect, PTL DEF Spec
<1> QED BY <1>2, RingInvRings, PTL
=============================================================================
