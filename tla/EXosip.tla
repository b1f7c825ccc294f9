-------------------------------- MODULE EXosip -------------------------------
(***************************************************************************)
(* The SIP stack below the phone (libeXosip2) as the phone sees it: calls, *)
(* registrations and the FIFO of events that pollExosip reads.  The stack  *)
(* runs in a thread of its own; its actions here are the arrival of a SIP  *)
(* message and the expiry of a timer.  The functions the phone calls are   *)
(* operators from the stack's tables to the tables after the call.         *)
(***************************************************************************)
EXTENDS CallIds, Naturals, Sequences

CONSTANTS Rid,        \* registrations: one per account (address of record, registrar)
          MaxFifo,    \* bound on the events a talkative peer piles up in the FIFO
          MaxRetry,   \* challenges answered per request: 3 in the code
          RegCodes,   \* how the registrar may end a REGISTER transaction
          FailTypes,  \* how the peer may refuse an INVITE
          Bodies      \* what INVITE, 18x and 200 may carry

VARIABLES calls,      \* calls[c]: eXosip_call_t of call c
          reg,        \* reg[r]: eXosip_reg_t of registration r
          fifo,       \* events the phone has not read
          bound       \* bound[r]: the registrar holds a binding for account r

sipVars == <<calls, reg, fifo, bound>>

ASSUME EXosipAssumption ==
    /\ MaxFifo \in Nat /\ MaxRetry \in Nat /\ Rid # {}
    /\ RegCodes \subseteq {"200", "401", "407", "403", "404", "500", "noreply"}
    /\ FailTypes \subseteq {"CALL_REQUESTFAILURE", "CALL_SERVERFAILURE", "CALL_GLOBALFAILURE", "challenge"}
    /\ Bodies \subseteq {"sdp", "nosdp", "anonymous"}

-----------------------------------------------------------------------------
\* Types.

\* State of the INVITE transaction of a call.  Outgoing: calling (no answer yet),
\* proceeding (1xx), challenged (401/407), failed (other >= 300), answered (2xx).
\* Incoming: invited (101 or 180 sent), refusing (a final refusal is handed to the
\* transaction), refused (it is sent), accepted (200 sent).
TransactionState == {"free", "calling", "proceeding", "challenged", "failed", "answered",
                     "invited", "refusing", "refused", "accepted"}

\* dlg is "dead" when the eXosip_dialog_t is still listed but its d_dialog is freed:
\* eXosip_update then gives it the id -1.
Call == [tr : TransactionState, dlg : {"none", "live", "dead"}, retry : 0..MaxRetry]

FreeCall == [tr |-> "free", dlg |-> "none", retry |-> 0]

\* The durations the phone asks for, in seconds; 0 removes the binding.
Expires == 1800

Period == {0, Expires}

\* r_last_tr, r_reg_period and r_retry; tr is "none" when the entry is not in j_reg.
Reg == [tr : {"none", "sent", "ok", "challenged", "failed"}, period : Period, retry : 0..MaxRetry]

NoReg == [tr |-> "none", period |-> 0, retry |-> 0]

CallEventType == {"CALL_INVITE", "CALL_RINGING", "CALL_ANSWERED", "CALL_REQUESTFAILURE",
                  "CALL_SERVERFAILURE", "CALL_GLOBALFAILURE", "CALL_ACK", "CALL_CLOSED",
                  "CALL_RELEASED"}

\* What the phone looks at in the message: its body, whether the caller is known, and
\* whether an answer is a challenge.
CallInfo == {"sdp", "nosdp", "anonymous", "challenge", "failure", ""}

\* did says whether the event carries a positive dialog id.
CallEvent == [type : CallEventType, id : Cid, did : BOOLEAN, info : CallInfo]

RegEvent == [type : {"REGISTRATION_SUCCESS", "REGISTRATION_FAILURE"},
             id : Rid, did : BOOLEAN,
             info : {"200", "401", "407", "403", "404", "500", "noreply"}]

EXosipInit == /\ calls = [c \in Cid |-> FreeCall]
              /\ reg = [r \in Rid |-> NoReg]
              /\ fifo = << >>
              /\ bound = [r \in Rid |-> FALSE]

-----------------------------------------------------------------------------
\* API used by the phone.

\* Mutant: a pending transaction is waited for.
InitialRegisterUnlessPending(rs, r, expires) ==
    IF rs[r].tr = "sent" THEN rs
    ELSE [rs EXCEPT ![r] = [tr |-> "sent", period |-> expires, retry |-> 0]]

\* eXosip_register_build_initial_register followed by eXosip_register_send_register:
\* the entry of the account is reused with its retry counter and its last
\* transaction forgotten, so that a pending transaction never blocks it.
InitialRegister(rs, r, expires) ==
    [rs EXCEPT ![r] = [tr |-> "sent", period |-> expires, retry |-> 0]]

\* eXosip_register_build_register(rid, 0) fails on an unknown rid or on one with a
\* pending transaction, but has set the period by then.
CannotBuildRegister(rs, r) == rs[r].tr \in {"none", "sent"}

BuildUnregister(rs, r) == IF rs[r].tr = "none" THEN rs ELSE [rs EXCEPT ![r].period = 0]

SendRegister(rs, r) == [rs EXCEPT ![r].tr = "sent"]

\* eXosip_default_action on a registration event: a challenge is answered while the
\* retry counter allows it, unless a transaction is pending.
CanResend(rs, r) == rs[r].tr \notin {"none", "sent"} /\ rs[r].retry < MaxRetry

DefaultAction(rs, r) ==
    IF rs[r].tr = "none" \/ rs[r].retry = MaxRetry THEN rs
    ELSE [rs EXCEPT ![r].tr = "sent", ![r].retry = @ + 1]

\* The part of eXosip_automatic_action that answers challenges.  pollExosip runs it
\* between reading an event and handling it.
AutomaticRegs ==
    [r \in Rid |-> IF reg[r].tr = "challenged" /\ reg[r].retry < MaxRetry
                   THEN [reg[r] EXCEPT !.tr = "sent", !.retry = @ + 1]
                   ELSE reg[r]]

\* Mutant: every challenge is answered.
AutomaticCallsForever ==
    [c \in Cid |-> IF calls[c].tr = "challenged"
                   THEN [calls[c] EXCEPT !.tr = "calling", !.retry = @ + 1]
                   ELSE calls[c]]

AutomaticCalls ==
    [c \in Cid |-> IF calls[c].tr = "challenged" /\ calls[c].retry < MaxRetry
                   THEN [calls[c] EXCEPT !.tr = "calling", !.retry = @ + 1]
                   ELSE calls[c]]

\* eXosip_call_terminate(cid, did), did a positive dialog id or not.  Without one the
\* call is found but no dialog, and then only a CANCEL is possible.
HasDialog(cs, c, did) == did /\ cs[c].dlg = "live"

CanTerminate(cs, c, did) ==
    HasDialog(cs, c, did) \/ (~did /\ cs[c].tr = "proceeding")

Terminate(cs, c, did) ==
    IF ~CanTerminate(cs, c, did) THEN cs
    ELSE IF ~did THEN cs                                              \* CANCEL
    ELSE IF cs[c].tr \in {"invited", "refusing"}
         THEN [cs EXCEPT ![c].tr = "refusing"]                        \* 603
    ELSE [cs EXCEPT ![c].dlg = "dead"]                                \* CANCEL or BYE

\* eXosip_call_send_answer with a final answer: an answered transaction keeps its answer.
SendFinal(cs, c, tr) == IF cs[c].tr = "invited" THEN [cs EXCEPT ![c].tr = tr] ELSE cs

-----------------------------------------------------------------------------
\* The stack's thread.

Report(type, id, did, info) ==
    fifo' = Append(fifo, [type |-> type, id |-> id, did |-> did, info |-> info])

\* What a peer may send again and again waits for room; what the stack reports once
\* per call or request is always reported.
Room == Len(fifo) < MaxFifo

\* The phone polls ten times a second: timers of 30 seconds and more never beat the
\* reading of the event that precedes them.
Unread(id) == \E i \in 1..Len(fifo) : fifo[i].id = id

\* 100 Trying only changes the transaction: PROCEEDING is ignored by the phone.
Rcv100(c) ==
    /\ calls[c].tr = "calling"
    /\ calls' = [calls EXCEPT ![c].tr = "proceeding"]
    /\ UNCHANGED <<reg, fifo, bound>>

\* 18x creates the early dialog; one that was freed meanwhile stays freed.
Rcv18x(c, body) ==
    /\ calls[c].tr \in {"calling", "proceeding"} /\ Room
    /\ LET dlg == IF calls[c].dlg = "none" THEN "live" ELSE calls[c].dlg
       IN /\ calls' = [calls EXCEPT ![c].tr = "proceeding", ![c].dlg = dlg]
          /\ Report("CALL_RINGING", c, dlg = "live", body)
    /\ UNCHANGED <<reg, bound>>

\* A 200 for a dialog that was freed meanwhile is silently discarded.  Either way the
\* retry counter starts again.
Rcv200(c, body) ==
    /\ calls[c].tr \in {"calling", "proceeding"}
    /\ IF calls[c].dlg = "dead"
       THEN /\ calls' = [calls EXCEPT ![c].tr = "answered", ![c].retry = 0]
            /\ UNCHANGED fifo
       ELSE /\ calls' = [calls EXCEPT ![c] = [tr |-> "answered", dlg |-> "live", retry |-> 0]]
            /\ Report("CALL_ANSWERED", c, TRUE, body)
    /\ UNCHANGED <<reg, bound>>

\* A proxy challenges an INVITE before any dialog exists.
RcvChallenge(c) ==
    /\ "challenge" \in FailTypes
    /\ calls[c].tr \in {"calling", "proceeding"} /\ calls[c].dlg = "none"
    /\ calls' = [calls EXCEPT ![c].tr = "challenged"]
    /\ Report("CALL_REQUESTFAILURE", c, FALSE, "challenge")
    /\ UNCHANGED <<reg, bound>>

\* Any other 4xx, 5xx or 6xx deletes the early dialog after reporting it.
RcvFailure(c, type) ==
    /\ calls[c].tr \in {"calling", "proceeding"}
    /\ calls' = [calls EXCEPT ![c].tr = "failed",
                              ![c].dlg = IF @ = "none" THEN "none" ELSE "dead"]
    /\ Report(type, c, calls[c].dlg = "live", "failure")
    /\ UNCHANGED <<reg, bound>>

\* A new INVITE is answered with 101, which creates its dialog.
RcvInvite(c, body) ==
    /\ calls[c].tr = "free" /\ Room
    /\ calls' = [calls EXCEPT ![c] = [FreeCall EXCEPT !.tr = "invited", !.dlg = "live"]]
    /\ Report("CALL_INVITE", c, TRUE, body)
    /\ UNCHANGED <<reg, bound>>

\* CANCEL before the final answer: 487 is handed to the INVITE transaction.
RcvCancel(c) ==
    /\ calls[c].tr = "invited"
    /\ calls' = [calls EXCEPT ![c].tr = "refusing"]
    /\ UNCHANGED <<reg, fifo, bound>>

\* The refusal goes out: the early dialog is deleted and the call reported closed.
SndRefusal(c) ==
    /\ calls[c].tr = "refusing"
    /\ calls' = [calls EXCEPT ![c].tr = "refused", ![c].dlg = "dead"]
    /\ Report("CALL_CLOSED", c, FALSE, "failure")
    /\ UNCHANGED <<reg, bound>>

RcvBye(c) ==
    /\ calls[c].tr \in {"answered", "accepted"} /\ calls[c].dlg = "live"
    /\ calls' = [calls EXCEPT ![c].dlg = "dead"]
    /\ Report("CALL_CLOSED", c, TRUE, "")
    /\ UNCHANGED <<reg, bound>>

\* The ACK of our 200; it may be lost, and it comes again with each 200 repeated.
RcvAck(c) ==
    /\ calls[c].tr = "accepted" /\ calls[c].dlg = "live" /\ Room
    /\ Report("CALL_ACK", c, TRUE, "")
    /\ UNCHANGED <<calls, reg, bound>>

\* A call goes once its INVITE transaction is over (or 180 seconds old without a final
\* answer) and it has no live dialog, whose BYE is over too.
Releasable(c) ==
    \/ calls[c].tr \in {"calling", "proceeding", "failed", "invited", "refused"}
    \/ calls[c].tr = "challenged" /\ ~Unread(c)
    \/ calls[c].tr \in {"answered", "accepted"} /\ calls[c].dlg = "dead"

ReleaseCall(c) ==
    /\ Releasable(c)
    /\ calls' = [calls EXCEPT ![c] = FreeCall]
    /\ Report("CALL_RELEASED", c, FALSE, "")
    /\ UNCHANGED <<reg, bound>>

\* The registrar carries out the pending REGISTER.
Bind(r) == bound' = [bound EXCEPT ![r] = (reg[r].period # 0)]

\* The registrar answers the pending REGISTER, or the transaction times out, the
\* request or only its answer being lost.  A phone that registers again and again
\* without reading would pile up answers: MaxFifo bounds them too.
RcvRegisterAnswer(r, code) ==
    /\ reg[r].tr = "sent"
    /\ ~Unread(r) \/ Len(fifo) <= MaxFifo
    /\ IF code = "200"
       THEN /\ reg' = [reg EXCEPT ![r].tr = "ok", ![r].retry = 0]
            /\ Bind(r)
            /\ Report("REGISTRATION_SUCCESS", r, FALSE, code)
       ELSE /\ reg' = [reg EXCEPT ![r].tr =
                          IF code \in {"401", "407"} THEN "challenged" ELSE "failed"]
            /\ \/ UNCHANGED bound
               \/ code = "noreply" /\ Bind(r)
            /\ Report("REGISTRATION_FAILURE", r, FALSE, code)
    /\ UNCHANGED calls

\* The timed part of eXosip_automatic_action: 900 seconds after a success or 120
\* after a failure a REGISTER that asks for a binding is sent again.
RefreshRegister(r) ==
    /\ reg[r].period # 0 /\ reg[r].tr \in {"ok", "challenged", "failed"}
    /\ ~Unread(r)
    /\ reg' = SendRegister(reg, r)
    /\ UNCHANGED <<calls, fifo, bound>>

\* An un-REGISTER that got its 2xx, or is 60 seconds old, is removed from j_reg.
ReleaseRegister(r) ==
    /\ reg[r].period = 0
    /\ reg[r].tr = "ok" \/ (reg[r].tr \in {"challenged", "failed"} /\ ~Unread(r))
    /\ reg' = [reg EXCEPT ![r] = NoReg]
    /\ UNCHANGED <<calls, fifo, bound>>

\* RcvInvite is not here: it needs to know which ids the phone still refers to.
EXosipThread ==
    \/ \E c \in Cid :
          \/ Rcv100(c) \/ RcvChallenge(c) \/ RcvCancel(c) \/ SndRefusal(c)
          \/ RcvBye(c) \/ RcvAck(c) \/ ReleaseCall(c)
          \/ \E body \in Bodies \ {"anonymous"} : Rcv18x(c, body) \/ Rcv200(c, body)
          \/ \E type \in FailTypes \ {"challenge"} : RcvFailure(c, type)
    \/ \E r \in Rid :
          \/ RefreshRegister(r) \/ ReleaseRegister(r)
          \/ \E code \in RegCodes : RcvRegisterAnswer(r, code)
=============================================================================
