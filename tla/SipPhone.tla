------------------------------- MODULE SipPhone ------------------------------
(***************************************************************************)
(* The phone's finite state machine (sipPhone.m): registration and call    *)
(* state in one variable, driven by the user and by the events pollExosip  *)
(* reads from eXosip.  One action handles one event or one user command    *)
(* from beginning to end, with every method it calls.                      *)
(*                                                                         *)
(* setState is called several times in some handlers.  The states passed   *)
(* through have no hook of their own, so that a handler's effect is that   *)
(* of the change from the first state to the last.                         *)
(***************************************************************************)
EXTENDS EXosip, UserPlane, CallTicketHandler, AppHelper

VARIABLES state,    \* sipState_t
          cid,      \* _cid: the last call the phone made or accepted
          did,      \* _did > 0: the phone knows the dialog of _cid
          rid,      \* _rid: the registration the phone used last
          polling   \* pollExosip is at work: the main thread does nothing else

ASSUME NoAccountAssumption == NoAccount \notin Rid

fsmVars == <<state, cid, did, rid>>
ticketVars == <<ticket, history>>

-----------------------------------------------------------------------------
\* sipState_t.  The code compares states by rank: the states of a call are those
\* above sip_registered.

Registering == {"sip_unregister_in_progress", "sip_unregister_retry",
                "sip_register2call_in_progress", "sip_register2call_retry",
                "sip_register_in_progress", "sip_register_retry"}
Off == {"sip_off", "sip_ondemand"}
BelowRegistered == Off \cup Registering
HangUpStates == {"sip_online", "sip_outgoing_call_ringing", "sip_outgoing_call_sent",
                 "sip_incoming_call_ringing"}

\* Mutant: clearing is not a state of a call.
AboveRegisteredActive == HangUpStates \cup {"sip_incoming_call_acccepted"}

AboveRegistered == HangUpStates \cup {"sip_initiated_clearing", "sip_incoming_call_acccepted"}

SipState == BelowRegistered \cup {"sip_registered"} \cup AboveRegistered

\* Entry and exit hooks of setState, on the media record m the handler has made.
setState(s, m) ==
    /\ state' = s
    /\ media' = IF s = state THEN m
                ELSE IF s = "sip_incoming_call_ringing" THEN startRing(m, "caller")
                ELSE IF state = "sip_incoming_call_ringing" THEN stopRing(m)
                ELSE m

\* Mutant: sip_ondemand does not count as off.
PowerOnOff(p, s) == IF s # state /\ s = "sip_off" THEN phoneIsOff(p) ELSE p

\* The hook of setState that tells AppHelper the phone is off, p being its requests when
\* the state is set.
PowerOn(p, s) == IF s # state /\ s \in Off THEN phoneIsOff(p) ELSE p

-----------------------------------------------------------------------------
\* Registration commands.

\* Without a complete account the phone is off at once, in the caller's own step.  A
\* REGISTER that cannot be built would have the same end, but for a complete account
\* the stack always builds it.
registerPhoneOnDemand(forCall, dur) ==
    /\ IF account = NoAccount
       THEN setState("sip_off", media) /\ UNCHANGED <<reg, rid>>
       ELSE /\ reg' = InitialRegister(reg, account, dur)
            /\ rid' = account
            /\ setState(IF dur = 0 THEN "sip_unregister_in_progress"
                        ELSE IF forCall THEN "sip_register2call_in_progress"
                        ELSE "sip_register_in_progress", media)
    /\ UNCHANGED <<calls, fifo, bound, cid, did, ticketVars>>

\* On demand, the phone only makes sure that it is not registered, and leaves a call
\* alone.  Otherwise it registers whatever it is doing.
registerPhone ==
    IF onDemand
    THEN IF state \in BelowRegistered
         THEN registerPhoneOnDemand(FALSE, 0)
         ELSE UNCHANGED <<sipVars, fsmVars, ticketVars, media>>
    ELSE registerPhoneOnDemand(FALSE, Expires)

\* The un-REGISTER of unregisterPhone: on _rid if that is possible, on the account if not.
UnregisterRid(rs) == IF CannotBuildRegister(rs, rid) THEN account ELSE rid

Unregister(rs) ==
    IF CannotBuildRegister(rs, rid)
    THEN InitialRegister(BuildUnregister(rs, rid), account, 0)
    ELSE SendRegister(BuildUnregister(rs, rid), rid)

\* hangUpCall as far as the call and its ticket go; the caller sets the state.
HangUp ==
    IF state \in HangUpStates /\ CanTerminate(calls, cid, did)
    THEN calls' = Terminate(calls, cid, did) /\ tickHangupCause
    ELSE UNCHANGED <<calls, ticketVars>>

\* Building it from an incomplete account passes a NULL address to eXosip.
CanUnregister(rs) == CannotBuildRegister(rs, rid) => account # NoAccount

\* The un-REGISTER is sent whether or not the call could be hung up.
unregisterPhone ==
    IF state \in BelowRegistered
    THEN registerPhoneOnDemand(FALSE, 0)
    ELSE /\ CanUnregister(reg)
         /\ HangUp
         /\ reg' = Unregister(reg)
         /\ rid' = UnregisterRid(reg)
         /\ setState("sip_unregister_in_progress", media)
         /\ UNCHANGED <<fifo, bound, cid, did>>

-----------------------------------------------------------------------------
\* Calls.

\* terminateCall, inside the handling of an event: tables and media as the handler
\* has left them.  On demand the phone unregisters at once.
terminateCall(cs, rs) ==
    /\ calls' = IF state \in HangUpStates THEN Terminate(cs, cid, did) ELSE cs
    /\ setState(IF onDemand THEN "sip_unregister_in_progress" ELSE "sip_registered",
                endUserPlane(media))
    /\ reg' = IF onDemand THEN Unregister(rs) ELSE rs
    /\ rid' = IF onDemand THEN UnregisterRid(rs) ELSE rid

\* An id eXosip may give to a new call.
Unused(c) ==
    /\ calls[c].tr = "free" /\ c # cid
    /\ c # media.session /\ c # ticket.call
    /\ ~Unread(c)

\* makeOutCall: the INVITE is not built (bad number), not sent, or sent.  Building it
\* takes a complete account.
makeOutCall(cs) ==
    \/ /\ tickStart(NoCall)
       /\ setState("sip_registered", media)
       /\ calls' = cs /\ UNCHANGED <<cid, did>>
    \/ /\ account # NoAccount
       /\ tickStart(NoCall)
       /\ setState("sip_registered", setupAndGetLocalSdp(endUserPlane(media)))
       /\ calls' = cs /\ UNCHANGED <<cid, did>>
    \/ \E c \in Cid :
       /\ account # NoAccount /\ Unused(c)
       /\ tickStart(c)
       /\ setState("sip_outgoing_call_sent", setupAndGetLocalSdp(endUserPlane(media)))
       /\ calls' = [cs EXCEPT ![c] = [FreeCall EXCEPT !.tr = "calling"]]
       /\ cid' = c /\ did' = FALSE

dialOutCall ==
    \/ /\ state = "sip_ondemand"
       /\ registerPhoneOnDemand(TRUE, Expires)
       /\ power' = PowerOn(power, state')
       /\ UNCHANGED <<onDemand, account, network>>
    \/ /\ state = "sip_registered"
       /\ makeOutCall(calls)
       /\ UNCHANGED <<reg, fifo, bound, rid, helperVars>>

\* The user's hang-up does nothing when eXosip finds nothing to terminate.
hangUpCall ==
    /\ state \in HangUpStates /\ CanTerminate(calls, cid, did)
    /\ HangUp
    /\ setState("sip_initiated_clearing", media)
    /\ UNCHANGED <<reg, fifo, bound, cid, did, rid, helperVars>>

\* The result of sending the 200 is only logged.
acceptCall ==
    /\ state = "sip_incoming_call_ringing"
    /\ calls' = SendFinal(calls, cid, "accepted")
    /\ setState("sip_incoming_call_acccepted", media)
    /\ UNCHANGED <<reg, fifo, bound, cid, did, rid, ticketVars, helperVars>>

\* What CLOSED, RELEASED and a final 4xx have in common: the media end at once, and a
\* phone in a call leaves it.
EndCall ==
    IF state \in AboveRegistered
    THEN /\ onDemand => CanUnregister(AutomaticRegs)
         /\ terminateCall(AutomaticCalls, AutomaticRegs)
    ELSE /\ media' = endUserPlane(media)
         /\ calls' = AutomaticCalls /\ reg' = AutomaticRegs
         /\ UNCHANGED <<state, rid>>

-----------------------------------------------------------------------------
\* pollExosip: one iteration of its loop.  The event is read, eXosip_automatic_action
\* answers the challenges it finds, and then the event is handled.

\* The loop goes on until the FIFO is empty, unless a break or an exception leaves it.
Reads(type) == fifo # << >> /\ Head(fifo).type = type /\ fifo' = Tail(fifo)

ReadsCurrent(type) == Reads(type) /\ Head(fifo).id = cid

Continue == polling' = (Len(fifo) > 1)

Leave == polling' = FALSE

\* Where a failed REGISTER leads; resent: eXosip_default_action sent another one.
AfterRegistrationFailure(code, resent) ==
    CASE code = "403" -> "sip_off"
      [] code # "403" /\ state = "sip_register_retry" -> "sip_off"
      [] code # "403" /\ state = "sip_register_in_progress" -> "sip_register_retry"
      [] code # "403" /\ state = "sip_register2call_retry" -> "sip_ondemand"
      [] code # "403" /\ state = "sip_register2call_in_progress" ->
            IF resent \/ code = "401" THEN "sip_register2call_retry" ELSE "sip_ondemand"
      [] code # "403" /\ state = "sip_unregister_retry" ->
            IF code = "404" /\ onDemand THEN "sip_ondemand" ELSE "sip_off"
      [] code # "403" /\ state = "sip_unregister_in_progress" ->
            IF code = "404" /\ onDemand THEN "sip_ondemand"
            ELSE IF resent \/ code = "401" THEN "sip_unregister_retry" ELSE "sip_off"
      [] OTHER -> state

FirstTry == {"sip_register_in_progress", "sip_register2call_in_progress",
             "sip_unregister_in_progress"}

\* The event is taken for an answer to the last REGISTER, whichever it answers.
RegistrationFailure ==
    /\ Reads("REGISTRATION_FAILURE")
    /\ LET code == Head(fifo).info
           r == Head(fifo).id
           challenge == state \in FirstTry /\ code \in {"401", "407"}
           next == AfterRegistrationFailure(code, challenge /\ CanResend(AutomaticRegs, r))
       IN /\ reg' = IF challenge THEN DefaultAction(AutomaticRegs, r) ELSE AutomaticRegs
          /\ setState(next, media)
          /\ power' = PowerOn(power, next)
    /\ calls' = AutomaticCalls
    /\ Continue
    /\ UNCHANGED <<bound, cid, did, rid, ticketVars, onDemand, account, network>>

\* Mutant: the second un-REGISTER, sent after a challenge, is forgotten.
AfterRegistrationSuccessFirstTry ==
    CASE state \in {"sip_off", "sip_register_retry", "sip_register_in_progress"} -> "sip_registered"
      [] state = "sip_unregister_in_progress" -> IF onDemand THEN "sip_ondemand" ELSE "sip_off"
      [] OTHER -> state

AfterRegistrationSuccess ==
    CASE state \in {"sip_off", "sip_register_retry", "sip_register_in_progress"} -> "sip_registered"
      [] state \in {"sip_unregister_retry", "sip_unregister_in_progress"} ->
            IF onDemand THEN "sip_ondemand" ELSE "sip_off"
      [] OTHER -> state

RegistrationSuccess ==
    /\ Reads("REGISTRATION_SUCCESS")
    /\ reg' = AutomaticRegs
    /\ IF state \in {"sip_register2call_retry", "sip_register2call_in_progress"}
       THEN makeOutCall(AutomaticCalls) /\ UNCHANGED power
       ELSE /\ setState(AfterRegistrationSuccess, media)
            /\ power' = PowerOn(power, AfterRegistrationSuccess)
            /\ calls' = AutomaticCalls
            /\ UNCHANGED <<cid, did, ticketVars>>
    /\ Continue
    /\ UNCHANGED <<bound, rid, onDemand, account, network>>

\* Mutant: only a conversation keeps the phone from taking another call.
CanTakeCallUnlessOnline == state # "sip_online" /\ Head(fifo).info # "anonymous"

\* An INVITE is taken by an idle phone, unless it lacks what the phone needs of it.
CanTakeCall == state = "sip_registered" /\ Head(fifo).info # "anonymous"

RefuseInvite ==
    /\ Reads("CALL_INVITE") /\ Head(fifo).id # cid
    /\ ~CanTakeCall
    /\ calls' = SendFinal(AutomaticCalls, Head(fifo).id, "refusing")
    /\ reg' = AutomaticRegs
    /\ Continue
    /\ UNCHANGED <<bound, fsmVars, ticketVars, media, helperVars>>

\* The INVITE becomes the phone's call.  If the media cannot be set up an exception
\* leaves the handler: the call is the phone's but nothing answers it, and if it was
\* the device that failed its session stays, under a phone that looks idle.
AcceptInvite ==
    /\ Reads("CALL_INVITE") /\ Head(fifo).id # cid /\ Leave
    /\ CanTakeCall
    /\ cid' = Head(fifo).id /\ did' = Head(fifo).did
    /\ LET m == setupAndGetLocalSdp(media)
           sdp == Head(fifo).info = "sdp"
       IN \/ /\ setupThrows(m, sdp)
             /\ media' = m /\ UNCHANGED <<state, ticketVars>>
          \/ \E fails \in DeviceFails :
             /\ ~setupThrows(m, sdp)
             /\ IF deviceThrows(m, fails)
                THEN /\ media' = [setupWithLocalSdp(m, Head(fifo).id) EXCEPT !.faulty = TRUE]
                     /\ UNCHANGED <<state, ticketVars>>
                ELSE /\ setState("sip_incoming_call_ringing", setupIncoming(m, Head(fifo).id))
                     /\ tickStart(Head(fifo).id)
    /\ calls' = AutomaticCalls /\ reg' = AutomaticRegs
    /\ UNCHANGED <<bound, rid, helperVars>>

\* Any other event of a call that is not the current one.
OtherCallEvent ==
    /\ fifo # << >> /\ fifo' = Tail(fifo) /\ Continue
    /\ Head(fifo).id \in Cid \ {cid} /\ Head(fifo).type # "CALL_INVITE"
    /\ calls' = AutomaticCalls /\ reg' = AutomaticRegs
    /\ UNCHANGED <<bound, fsmVars, ticketVars, media, helperVars>>

\* The state is set first and _did before the media, so an exception there loses neither.
CallRinging ==
    /\ ReadsCurrent("CALL_RINGING")
    /\ LET withMedia == Head(fifo).info = "sdp"
       IN \/ /\ withMedia /\ setupThrows(media, TRUE)
             /\ setState("sip_outgoing_call_ringing", media) /\ Leave
          \/ \E fails \in DeviceFails :
             /\ withMedia /\ ~setupThrows(media, TRUE) /\ ~setupCrashes(media, TRUE)
             /\ setState("sip_outgoing_call_ringing", setupWithLocalSdp(media, cid))
             /\ IF deviceThrows(media, fails) THEN Leave ELSE Continue
          \/ /\ ~withMedia
             /\ setState("sip_outgoing_call_ringing", media) /\ Continue
    /\ did' = Head(fifo).did
    /\ calls' = AutomaticCalls /\ reg' = AutomaticRegs
    /\ UNCHANGED <<bound, cid, rid, ticketVars, helperVars>>

\* A challenge keeps the call, any other 4xx ends it.
CallRequestFailure ==
    /\ ReadsCurrent("CALL_REQUESTFAILURE")
    /\ IF Head(fifo).info = "challenge"
       THEN /\ calls' = AutomaticCalls /\ reg' = AutomaticRegs
            /\ UNCHANGED <<state, media, rid, ticketVars>>
       ELSE tickHangupCause /\ EndCall
    /\ Continue
    /\ UNCHANGED <<bound, cid, did, helperVars>>

\* 5xx and 6xx only close the ticket; the call goes with its RELEASED event.
CallServerOrGlobalFailure ==
    /\ ReadsCurrent("CALL_SERVERFAILURE") \/ ReadsCurrent("CALL_GLOBALFAILURE")
    /\ tickHangupCause
    /\ calls' = AutomaticCalls /\ reg' = AutomaticRegs
    /\ Continue
    /\ UNCHANGED <<bound, fsmVars, media, helperVars>>

\* The media come first, then the ACK, for which the dialog must still be there, then
\* the state.
CallAnswered ==
    /\ ReadsCurrent("CALL_ANSWERED")
    /\ did' = Head(fifo).did
    /\ LET sdp == Head(fifo).info = "sdp"
       IN \/ /\ setupThrows(media, sdp)
             /\ Leave /\ UNCHANGED <<state, media, ticketVars>>
          \/ \E fails \in DeviceFails :
             /\ ~setupThrows(media, sdp) /\ ~setupCrashes(media, sdp)
             /\ IF deviceThrows(media, fails) THEN Leave ELSE Continue
             /\ IF ~deviceThrows(media, fails) /\ HasDialog(AutomaticCalls, cid, Head(fifo).did)
                THEN /\ setState("sip_online", setupWithLocalSdp(media, cid))
                     /\ IF state = "sip_online" THEN UNCHANGED ticketVars ELSE tickOnline
                ELSE /\ media' = setupWithLocalSdp(media, cid)
                     /\ UNCHANGED <<state, ticketVars>>
    /\ calls' = AutomaticCalls /\ reg' = AutomaticRegs
    /\ UNCHANGED <<bound, cid, rid, helperVars>>

CallReleased ==
    /\ ReadsCurrent("CALL_RELEASED")
    /\ IF state = "sip_outgoing_call_sent" THEN tickHangupCause ELSE UNCHANGED ticketVars
    /\ EndCall
    /\ Continue
    /\ UNCHANGED <<bound, cid, did, helperVars>>

CallClosed ==
    /\ ReadsCurrent("CALL_CLOSED")
    /\ tickHangupCause
    /\ EndCall
    /\ Continue
    /\ UNCHANGED <<bound, cid, did, helperVars>>

CallAck ==
    /\ ReadsCurrent("CALL_ACK")
    /\ IF state = "sip_incoming_call_acccepted"
       THEN setState("sip_online", media) /\ tickOnline
       ELSE UNCHANGED <<state, media, ticketVars>>
    /\ calls' = AutomaticCalls /\ reg' = AutomaticRegs
    /\ Continue
    /\ UNCHANGED <<bound, cid, did, rid, helperVars>>

-----------------------------------------------------------------------------
\* A NULL pointer ends the process, whatever it was doing.
Crash == /\ power' = [power EXCEPT !.terminated = TRUE]
         /\ UNCHANGED <<sipVars, media, ticketVars, fsmVars, polling, onDemand, account, network>>

\* An SDP without a transport, an un-REGISTER or an INVITE from an incomplete account.
CrashOnEvent ==
    /\ fifo # << >>
    /\ \/ /\ Head(fifo).id = cid /\ Head(fifo).type \in {"CALL_RINGING", "CALL_ANSWERED"}
          /\ setupCrashes(media, Head(fifo).info = "sdp")
       \/ /\ Head(fifo).id = cid
          /\ Head(fifo).type \in {"CALL_REQUESTFAILURE", "CALL_RELEASED", "CALL_CLOSED"}
          /\ Head(fifo).info # "challenge"
          /\ state \in AboveRegistered /\ onDemand /\ ~CanUnregister(AutomaticRegs)
       \/ /\ Head(fifo).type = "REGISTRATION_SUCCESS" /\ account = NoAccount
          /\ state \in {"sip_register2call_retry", "sip_register2call_in_progress"}
    /\ Crash

pollExosip ==
    \/ RegistrationFailure \/ RegistrationSuccess
    \/ RefuseInvite \/ AcceptInvite \/ OtherCallEvent
    \/ CallRinging \/ CallRequestFailure \/ CallServerOrGlobalFailure
    \/ CallAnswered \/ CallReleased \/ CallClosed \/ CallAck
    \/ CrashOnEvent
=============================================================================
