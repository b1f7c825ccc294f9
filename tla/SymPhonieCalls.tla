---------------------------- MODULE SymPhonieCalls ----------------------------
(***************************************************************************)
(* One call at a time, for every value of the constants: the phone never   *)
(* has two established calls, the media serve the phone's call, every      *)
(* conversation is logged, and the whole application implements a single   *)
(* line (PhoneLine).  The sound device may fail and be tested at any       *)
(* moment: what is claimed of the media excepts the time from such a fault *)
(* to the next end of the media, the rest is claimed all the time.         *)
(*                                                                         *)
(* All of it rests on one hypothesis, CallKept: the phone leaves the       *)
(* states of a call only for an event of a call.  A command to register or *)
(* to un-register, or a 403 from the registrar, in the middle of a call    *)
(* does otherwise, and then the call is forgotten and not ended (the run   *)
(* singlecall).  Without such commands and without 403 the hypothesis      *)
(* holds of every behaviour: lemma UndisturbedKept.                        *)
(***************************************************************************)
EXTENDS SymPhonieSafety

-----------------------------------------------------------------------------
\* The hypothesis.

\* A phone that leaves the states of a call does so for an event of a call.
CallKept ==
    (state \in AboveRegistered /\ state' \notin AboveRegistered)
        => fifo # << >> /\ fifo' = Tail(fifo) /\ Head(fifo).type \in CallEventType

\* Nobody asks the phone to register or to un-register, except through the registration
\* mode, whose control is disabled during a call, and the registrar does not answer 403.
\* The sound device may fail, and be tested in a call.
Undisturbed == Events \subseteq {"mode", "test", "debug"} /\ "403" \notin RegCodes

-----------------------------------------------------------------------------
\* The inductive invariant.

\* An outgoing call without a final answer.
Pending == {"calling", "proceeding", "challenged"}

\* A call that is over; a call that is over or that nobody has answered yet.
Over(k) == \/ k.tr \in {"free", "failed", "refused"}
           \/ k.tr \in {"answered", "accepted"} /\ k.dlg = "dead"
Idle(k) == k.tr \in {"invited", "refusing"} \/ Over(k)

\* A call whose 200 was received, or whose dialog is gone: no other 200 will come.
PastAnswer(k) == k.tr \notin Pending /\ (k.tr = "answered" \/ k.dlg # "live")

\* The states of a phone that made the call it has.
Outgoing == {"sip_outgoing_call_sent", "sip_outgoing_call_ringing", "sip_initiated_clearing"}

\* Events that end the phone's call, that move it forward, and the latter of its own call.
Terminal(e) == \/ e.type \in {"CALL_CLOSED", "CALL_RELEASED"}
               \/ e.type = "CALL_REQUESTFAILURE" /\ e.info # "challenge"
Progress(e) == e.type \in {"CALL_RINGING", "CALL_ANSWERED", "CALL_ACK"}
OfOutgoing(e) == e.type \in {"CALL_RINGING", "CALL_ANSWERED"}

\* What a queued event says of the record k of its call, whatever happened since.
Fits(e, k) == /\ Terminal(e) => Over(k)
              /\ e.type = "CALL_RELEASED" => k.tr = "free"
              /\ e.type = "CALL_ANSWERED" => PastAnswer(k)

\* Event f of a call may be queued behind event e of the same call.
MayFollow(e, f) == /\ e.type # "CALL_RELEASED"
                   /\ Terminal(e) => ~Progress(f)
                   /\ e.type = "CALL_ANSWERED" => ~OfOutgoing(f)

IsCallEvent(e) == e.type \in CallEventType

\* A call the phone is not busy with is idle.
OthersIdle == \A c \in Cid : c # cid \/ state \notin AboveRegistered => Idle(calls[c])

HasCall == state \in AboveRegistered => cid \in Cid

\* Queued events tell the truth, and only the phone's own call moves forward.
EventsFit ==
    \A i \in 1..Len(fifo) : IsCallEvent(fifo[i]) =>
        /\ Fits(fifo[i], calls[fifo[i].id])
        /\ Progress(fifo[i]) => fifo[i].id = cid /\ state \in AboveRegistered
        /\ OfOutgoing(fifo[i]) => state \in Outgoing

\* The events of a call are queued in the order of its life.
EventsOrdered ==
    \A i, j \in 1..Len(fifo) :
        i < j /\ IsCallEvent(fifo[i]) /\ IsCallEvent(fifo[j]) /\ fifo[i].id = fifo[j].id
            => MayFollow(fifo[i], fifo[j])

\* A call that is under way outwards is known to the phone as such.
PendingIsOutgoing ==
    state \in AboveRegistered /\ calls[cid].tr \in Pending => state \in Outgoing

\* The phone will hear of a release: of its own call, and of one it may still ring for.
ReleaseQueued ==
    /\ state \in AboveRegistered /\ calls[cid].tr = "free" => Queued("CALL_RELEASED", cid)
    /\ \A c \in Cid : Queued("CALL_INVITE", c) /\ calls[c].tr = "free"
                          => Queued("CALL_RELEASED", c)

QueueInv == /\ OthersIdle /\ HasCall /\ EventsFit /\ EventsOrdered
            /\ PendingIsOutgoing /\ ReleaseQueued

\* States in which the media session is there.
WithSession == {"sip_online", "sip_incoming_call_ringing", "sip_incoming_call_acccepted"}

\* Unless the sound is disturbed, the session is that of the phone's call and has a
\* transport to run on.
PlaneInv ==
    \/ media.faulty
    \/ /\ state \notin AboveRegistered => media.session = NoCall
       /\ media.session # NoCall => media.session = cid /\ media.transport
       /\ state \in WithSession => media.session = cid
       /\ state \in AboveRegistered /\ media.localSdp => media.transport

\* The phone's call has its ticket or its entry, and a conversation with a ticket is on
\* or the event that closes the ticket is queued.
TicketInv ==
    state \in AboveRegistered =>
        /\ \/ ticket.started /\ ticket.call = cid /\ history[cid] = 0
           \/ ~ticket.started /\ history[cid] = 1
        /\ state = "sip_initiated_clearing" => ~ticket.started
        /\ ticket.started /\ (state = "sip_online" \/ Queued("CALL_ACK", cid))
              => Established(cid) \/ Queued("CALL_CLOSED", cid)

CallInv == QueueInv /\ PlaneInv /\ TicketInv

-----------------------------------------------------------------------------
\* What the invariant says.

\* Established calls are not idle, so that they are the phone's.
LEMMA InvSingleCall == QueueInv => SingleCall
BY DEF QueueInv, OthersIdle, Idle, Over, SingleCall, Established

\* The session is that of the call, and a released call is about to be reported.
LEMMA InvMedia == QueueInv /\ PlaneInv => MediaFollowsCall
<1> SUFFICES ASSUME QueueInv, PlaneInv, ~media.faulty PROVE MediaFollowsCall
    BY DEF MediaFollowsCall
<1>1. state = "sip_online" => media.session = cid
    BY DEF PlaneInv, WithSession
<1> QED BY <1>1 DEF PlaneInv, QueueInv, ReleaseQueued, MediaFollowsCall

-----------------------------------------------------------------------------
\* The FIFO.

\* What is queued after an event was appended.
LEMMA QueuedAppend ==
    ASSUME TypeOK, NEW e \in CallEvent \cup RegEvent, fifo' = Append(fifo, e), NEW type, NEW c
    PROVE  Queued(type, c)' <=> Queued(type, c) \/ (e.type = type /\ e.id = c)
<1>1. /\ Len(fifo) \in Nat /\ Len(fifo') = Len(fifo) + 1 /\ fifo'[Len(fifo) + 1] = e
      /\ \A i \in 1..Len(fifo) : fifo'[i] = fifo[i]
    BY AppendAt DEF TypeOK, StackTypes
<1>2. ASSUME Queued(type, c)
      PROVE  Queued(type, c)'
  <2>1. PICK i \in 1..Len(fifo) : fifo[i].type = type /\ fifo[i].id = c
    BY <1>2 DEF Queued
  <2>2. i \in 1..Len(fifo') /\ fifo'[i] = fifo[i]
    BY <1>1
  <2> QED BY <2>1, <2>2 DEF Queued
<1>3. ASSUME e.type = type /\ e.id = c
      PROVE  Queued(type, c)'
  <2>1. Len(fifo) + 1 \in 1..Len(fifo')
    BY <1>1
  <2> QED BY <1>1, <1>3, <2>1 DEF Queued
<1>4. ASSUME Queued(type, c)'
      PROVE  Queued(type, c) \/ (e.type = type /\ e.id = c)
  <2>1. PICK i \in 1..Len(fifo') : fifo'[i].type = type /\ fifo'[i].id = c
    BY <1>4 DEF Queued
  <2>2. i \in 1..Len(fifo) \/ i = Len(fifo) + 1
    BY <1>1
  <2> QED BY <1>1, <2>1, <2>2 DEF Queued
<1> QED BY <1>2, <1>3, <1>4

Read == fifo # << >> /\ fifo' = Tail(fifo)

\* A step that leaves the FIFO as it was has read nothing.
LEMMA NothingRead ==
    ASSUME TypeOK, UNCHANGED fifo
    PROVE  ~Read
<1>1. ASSUME Read PROVE Len(fifo) \in Nat /\ Len(fifo) = Len(fifo) - 1
    BY <1>1, TailAt DEF TypeOK, StackTypes, Read
<1> QED BY <1>1

\* After a step that reads at most one event, the positions are shifted by zero or one.
LEMMA Shifted ==
    ASSUME TypeOK, UNCHANGED fifo \/ Read
    PROVE  \E d \in {0, 1} :
              /\ d = 1 <=> Read
              /\ \A i \in 1..Len(fifo') : i + d \in 1..Len(fifo) /\ fifo'[i] = fifo[i + d]
<1>0. Len(fifo) \in Nat
    BY DEF TypeOK, StackTypes
<1>1. CASE UNCHANGED fifo
  <2>1. ~Read
    BY <1>1, NothingRead
  <2>2. \A i \in 1..Len(fifo') : i + 0 \in 1..Len(fifo) /\ fifo'[i] = fifo[i + 0]
    BY <1>0, <1>1
  <2> QED BY <2>1, <2>2
<1>2. CASE Read
  <2>1. \A i \in 1..Len(fifo') : i + 1 \in 1..Len(fifo) /\ fifo'[i] = fifo[i + 1]
    BY <1>2, TailAt DEF TypeOK, StackTypes, Read
  <2> QED BY <1>2, <2>1
<1> QED BY <1>1, <1>2

\* What is queued after such a step: nothing new, and all but the event read.
LEMMA QueuedRead ==
    ASSUME TypeOK, UNCHANGED fifo \/ Read, NEW type, NEW c
    PROVE  /\ Queued(type, c)' => Queued(type, c)
           /\ Queued(type, c) => Queued(type, c)' \/ (Read /\ Head(fifo).type = type /\ Head(fifo).id = c)
<1>1. CASE UNCHANGED fifo
    BY <1>1 DEF Queued
<1>2. CASE Read
  <2>1. /\ Len(fifo) \in Nat \ {0} /\ Head(fifo) = fifo[1] /\ Len(fifo') = Len(fifo) - 1
        /\ \A i \in 1..Len(fifo') : i + 1 \in 2..Len(fifo) /\ fifo'[i] = fifo[i + 1]
    BY <1>2, TailAt DEF TypeOK, StackTypes, Read
  <2>2. ASSUME Queued(type, c)' PROVE Queued(type, c)
    <3>1. PICK i \in 1..Len(fifo') : fifo'[i].type = type /\ fifo'[i].id = c
      BY <2>2 DEF Queued
    <3>2. i + 1 \in 1..Len(fifo) /\ fifo'[i] = fifo[i + 1]
      BY <2>1
    <3> QED BY <3>1, <3>2 DEF Queued
  <2>3. ASSUME Queued(type, c), ~(Head(fifo).type = type /\ Head(fifo).id = c)
        PROVE  Queued(type, c)'
    <3>1. PICK i \in 1..Len(fifo) : fifo[i].type = type /\ fifo[i].id = c
      BY <2>3 DEF Queued
    <3>2. i # 1
      BY <2>1, <2>3, <3>1
    <3>3. i - 1 \in 1..Len(fifo') /\ fifo'[i - 1] = fifo[i]
      BY <2>1, <3>2
    <3> QED BY <3>1, <3>3 DEF Queued
  <2> QED BY <1>2, <2>2, <2>3
<1> QED BY <1>1, <1>2

\* The event that is read is queued.
LEMMA HeadQueued ==
    ASSUME TypeOK, Read
    PROVE  /\ 1 \in 1..Len(fifo) /\ fifo[1] = Head(fifo)
           /\ Queued(Head(fifo).type, Head(fifo).id)
<1>1. Len(fifo) \in Nat \ {0} /\ Head(fifo) = fifo[1]
    BY TailAt DEF TypeOK, StackTypes, Read
<1>2. 1 \in 1..Len(fifo)
    BY <1>1
<1> QED BY <1>1, <1>2 DEF Queued

\* An event of a call has the id of a call.
LEMMA CallEventId ==
    ASSUME TypeOK, NEW i \in 1..Len(fifo), IsCallEvent(fifo[i])
    PROVE  fifo[i].id \in Cid
<1>1. fifo[i] \in CallEvent \cup RegEvent
    BY DEF TypeOK, StackTypes
<1> QED BY <1>1 DEF CallEvent, CallEventType, RegEvent, IsCallEvent
-----------------------------------------------------------------------------
\* The stack's thread.

\* How the record of a call may change during its life.
Evolves(k, l) == /\ Over(k) => Over(l)
                 /\ k.tr = "free" => l.tr = "free"
                 /\ PastAnswer(k) => PastAnswer(l)
                 /\ l.tr \in Pending => k.tr \in Pending

\* Every call goes on with its life, unless its id is given to a new call.
Evolve == \A c \in Cid : Unused(c) \/ Evolves(calls[c], calls'[c])

IdleKept(c) == Idle(calls[c]) => Idle(calls'[c])

\* What a queued event says stays true while its call goes on with its life.
LEMMA FitsEvolves ==
    ASSUME NEW e, NEW k, NEW l, Fits(e, k), Evolves(k, l)
    PROVE  Fits(e, l)
BY DEF Fits, Evolves

\* A call with a queued event is not unused, so that the event goes on fitting it.
LEMMA QueuedFits ==
    ASSUME TypeOK, EventsFit, Evolve, NEW i \in 1..Len(fifo), IsCallEvent(fifo[i])
    PROVE  Fits(fifo[i], calls'[fifo[i].id])
<1>1. fifo[i].id \in Cid /\ ~Unused(fifo[i].id)
    BY CallEventId, UnusedUnread
<1>2. Evolves(calls[fifo[i].id], calls'[fifo[i].id])
    BY <1>1 DEF Evolve
<1>3. Fits(fifo[i], calls[fifo[i].id])
    BY DEF EventsFit
<1> QED BY <1>2, <1>3, FitsEvolves

\* Event e is reported for a call whose life allows it.
Reported(e) ==
    /\ fifo' = Append(fifo, e)
    /\ IsCallEvent(e) =>
          /\ Fits(e, calls'[e.id])
          /\ Progress(e) => ~Idle(calls[e.id])
          /\ OfOutgoing(e) => calls[e.id].tr \in Pending
          /\ e.type = "CALL_ACK" => Established(e.id)'
          /\ e.type = "CALL_INVITE" => calls'[e.id].tr # "free"
          /\ calls[e.id].tr = "free" => Unused(e.id)

\* What a step of the stack does: calls go on with their lives, those that were idle stay
\* idle, and the end of a conversation and a release are reported.
ThreadEffect ==
    /\ Evolve
    /\ \A c \in Cid : IdleKept(c)
    /\ \/ /\ UNCHANGED fifo
          /\ \A c \in Cid : /\ calls'[c].tr = "free" => calls[c].tr = "free"
                            /\ Established(c) => Established(c)'
       \/ \E e \in CallEvent \cup RegEvent :
             /\ Reported(e)
             /\ \A c \in Cid :
                   /\ calls'[c].tr = "free" =>
                         calls[c].tr = "free" \/ (e.type = "CALL_RELEASED" /\ e.id = c)
                   /\ Established(c) => Established(c)' \/ (e.type = "CALL_CLOSED" /\ e.id = c)

\* A reported event may follow everything queued for its call.
LEMMA ReportedFollows ==
    ASSUME TypeOK, EventsFit, NEW e \in CallEvent \cup RegEvent, Reported(e), IsCallEvent(e),
           NEW i \in 1..Len(fifo), IsCallEvent(fifo[i]), fifo[i].id = e.id
    PROVE  MayFollow(fifo[i], e)
<1>1. Fits(fifo[i], calls[e.id]) /\ ~Unused(e.id)
    BY UnusedUnread DEF EventsFit
<1>2. /\ Progress(e) => ~Idle(calls[e.id])
      /\ OfOutgoing(e) => calls[e.id].tr \in Pending
      /\ calls[e.id].tr # "free"
    BY <1>1 DEF Reported
<1> QED BY <1>1, <1>2 DEF Fits, MayFollow, Idle, PastAnswer

\* The queue stays in order when an event is reported.
LEMMA ReportedQueue ==
    ASSUME TypeOK, QueueInv, Evolve, NEW e \in CallEvent \cup RegEvent, Reported(e),
           UNCHANGED <<state, cid>>
    PROVE  EventsFit' /\ EventsOrdered'
<1>1. /\ Len(fifo) \in Nat /\ Len(fifo') = Len(fifo) + 1 /\ fifo'[Len(fifo) + 1] = e
      /\ \A i \in 1..Len(fifo) : fifo'[i] = fifo[i]
    BY AppendAt DEF TypeOK, StackTypes, Reported
<1>2. \A i \in 1..Len(fifo') : i \in 1..Len(fifo) \/ i = Len(fifo) + 1
    BY <1>1
<1>3. EventsFit'
  <2> SUFFICES ASSUME NEW i \in 1..Len(fifo'), IsCallEvent(fifo'[i])
               PROVE  /\ Fits(fifo'[i], calls'[fifo'[i].id])
                      /\ Progress(fifo'[i]) => fifo'[i].id = cid /\ state \in AboveRegistered
                      /\ OfOutgoing(fifo'[i]) => state \in Outgoing
      BY DEF EventsFit, IsCallEvent, Fits, Progress, OfOutgoing, Terminal, Over, PastAnswer
  <2>1. CASE i \in 1..Len(fifo)
    BY <1>1, <2>1, QueuedFits DEF QueueInv, EventsFit
  <2>2. CASE i = Len(fifo) + 1
    <3>1. e.id \in Cid
      BY <1>1, <2>2 DEF CallEvent, RegEvent, CallEventType, IsCallEvent
    <3>2. Progress(e) => e.id = cid /\ state \in AboveRegistered
      BY <1>1, <2>2, <3>1 DEF Reported, QueueInv, OthersIdle
    <3>3. OfOutgoing(e) => Progress(e) /\ calls[e.id].tr \in Pending
      BY <1>1, <2>2 DEF Reported, OfOutgoing, Progress
    <3>4. OfOutgoing(e) => state \in Outgoing
      BY <3>2, <3>3 DEF QueueInv, PendingIsOutgoing
    <3> QED BY <1>1, <2>2, <3>2, <3>4 DEF Reported
  <2> QED BY <1>2, <2>1, <2>2
<1>4. EventsOrdered'
  <2> SUFFICES ASSUME NEW i \in 1..Len(fifo'), NEW j \in 1..Len(fifo'), i < j,
                      IsCallEvent(fifo'[i]), IsCallEvent(fifo'[j]), fifo'[i].id = fifo'[j].id
               PROVE  MayFollow(fifo'[i], fifo'[j])
      BY DEF EventsOrdered, IsCallEvent, MayFollow, Terminal, Progress, OfOutgoing
  <2>1. i \in 1..Len(fifo)
    BY <1>1
  <2>2. CASE j \in 1..Len(fifo)
    BY <1>1, <2>1, <2>2 DEF QueueInv, EventsOrdered
  <2>3. CASE j = Len(fifo) + 1
    BY <1>1, <2>1, <2>3, ReportedFollows DEF QueueInv
  <2> QED BY <1>2, <2>2, <2>3
<1> QED BY <1>3, <1>4

\* A call the phone has, and every idle one, stays what the phone takes it for.
LEMMA KeptIdle ==
    ASSUME TypeOK, QueueInv, Evolve, \A c \in Cid : IdleKept(c), UNCHANGED <<state, cid>>
    PROVE  OthersIdle' /\ HasCall' /\ PendingIsOutgoing'
<1>1. OthersIdle'
    BY DEF QueueInv, OthersIdle, IdleKept, Idle, Over
<1>2. HasCall'
    BY DEF QueueInv, HasCall
<1>3. PendingIsOutgoing'
  <2> SUFFICES ASSUME state \in AboveRegistered, calls'[cid].tr \in Pending
               PROVE  state \in Outgoing
      BY DEF PendingIsOutgoing
  <2>1. cid \in Cid /\ ~Unused(cid)
    BY DEF QueueInv, HasCall, Unused
  <2>2. calls[cid].tr \in Pending
    BY <2>1 DEF Evolve, Evolves
  <2> QED BY <2>2 DEF QueueInv, PendingIsOutgoing
<1> QED BY <1>1, <1>2, <1>3

\* The stack's thread keeps the invariant.
LEMMA ThreadCalls ==
    ASSUME TypeOK, CallInv, ThreadEffect, UNCHANGED <<state, cid, media, ticketVars>>
    PROVE  CallInv'
<1> USE DEF CallInv
<1>1. OthersIdle' /\ HasCall' /\ PendingIsOutgoing'
    BY KeptIdle DEF ThreadEffect
<1>2. PlaneInv'
    BY DEF PlaneInv
<1>3. state \in AboveRegistered => cid \in Cid
    BY DEF QueueInv, HasCall
<1>4. CASE UNCHANGED fifo /\ \A c \in Cid : /\ calls'[c].tr = "free" => calls[c].tr = "free"
                                            /\ Established(c) => Established(c)'
  <2>1. EventsFit'
    BY <1>4, QueuedFits DEF ThreadEffect, QueueInv, EventsFit, IsCallEvent, Fits, Progress,
                            OfOutgoing, Terminal, Over, PastAnswer
  <2>2. EventsOrdered'
    BY <1>4 DEF QueueInv, EventsOrdered, IsCallEvent, MayFollow, Terminal, Progress, OfOutgoing
  <2>3. \A type, c : Queued(type, c)' <=> Queued(type, c)
    BY <1>4 DEF Queued
  <2>4. ReleaseQueued'
    BY <1>3, <1>4, <2>3 DEF QueueInv, ReleaseQueued
  <2>5. TicketInv'
    BY <1>3, <1>4, <2>3 DEF TicketInv, ticketVars, Established
  <2> QED BY <1>1, <1>2, <2>1, <2>2, <2>4, <2>5 DEF QueueInv
<1>5. ASSUME NEW e \in CallEvent \cup RegEvent, Reported(e),
             \A c \in Cid :
                /\ calls'[c].tr = "free" =>
                      calls[c].tr = "free" \/ (e.type = "CALL_RELEASED" /\ e.id = c)
                /\ Established(c) => Established(c)' \/ (e.type = "CALL_CLOSED" /\ e.id = c)
      PROVE  CallInv'
  <2>1. EventsFit' /\ EventsOrdered'
    BY <1>5, ReportedQueue DEF ThreadEffect
  <2>2. \A type, c : Queued(type, c)' <=> Queued(type, c) \/ (e.type = type /\ e.id = c)
    BY <1>5, QueuedAppend DEF Reported
  <2>3. ReleaseQueued'
    <3>1. state \in AboveRegistered /\ calls'[cid].tr = "free" => Queued("CALL_RELEASED", cid)'
      BY <1>3, <1>5, <2>2 DEF QueueInv, ReleaseQueued
    <3>2. ASSUME NEW c \in Cid, Queued("CALL_INVITE", c)', calls'[c].tr = "free"
          PROVE  Queued("CALL_RELEASED", c)'
      <4>1. CASE Queued("CALL_INVITE", c)
        BY <1>5, <2>2, <3>2, <4>1 DEF QueueInv, ReleaseQueued
      <4>2. CASE e.type = "CALL_INVITE" /\ e.id = c
        BY <1>5, <3>2, <4>2, EventNames DEF Reported, IsCallEvent
      <4> QED BY <2>2, <3>2, <4>1, <4>2
    <3> QED BY <3>1, <3>2 DEF ReleaseQueued
  <2>4. TicketInv'
    <3> SUFFICES ASSUME state \in AboveRegistered, ticket.started,
                        state = "sip_online" \/ Queued("CALL_ACK", cid)'
                 PROVE  Established(cid)' \/ Queued("CALL_CLOSED", cid)'
        BY DEF TicketInv, ticketVars
    <3>1. CASE state = "sip_online" \/ Queued("CALL_ACK", cid)
      BY <1>3, <1>5, <2>2, <3>1 DEF TicketInv
    <3>2. CASE e.type = "CALL_ACK" /\ e.id = cid
      BY <1>5, <3>2, EventNames DEF Reported, IsCallEvent
    <3> QED BY <2>2, <3>1, <3>2
  <2> QED BY <1>1, <1>2, <2>1, <2>3, <2>4 DEF QueueInv
<1> QED BY <1>4, <1>5 DEF ThreadEffect

\* A step of the stack that concerns one call and reports nothing.
LEMMA SilentEffect ==
    ASSUME TypeOK, NEW c \in Cid, UNCHANGED fifo,
           \A b \in Cid : b # c => calls'[b] = calls[b],
           Evolves(calls[c], calls'[c]), IdleKept(c),
           calls'[c].tr # "free", Established(c) => Established(c)'
    PROVE  ThreadEffect
<1>1. \A b \in Cid : b # c => Evolves(calls[b], calls'[b]) /\ IdleKept(b)
    BY DEF Evolves, IdleKept
<1>2. \A b \in Cid : b # c => (Established(b) => Established(b)')
    BY DEF Established
<1> QED BY <1>1, <1>2 DEF ThreadEffect, Evolve

\* A step of the stack that concerns one call and reports an event of it.
LEMMA ReportEffect ==
    ASSUME TypeOK, NEW c \in Cid, NEW e \in CallEvent \cup RegEvent, e.id = c, Reported(e),
           \A b \in Cid : b # c => calls'[b] = calls[b],
           Unused(c) \/ Evolves(calls[c], calls'[c]), IdleKept(c),
           calls'[c].tr = "free" => e.type = "CALL_RELEASED",
           Established(c) => Established(c)' \/ e.type = "CALL_CLOSED"
    PROVE  ThreadEffect
<1>1. \A b \in Cid : b # c => Evolves(calls[b], calls'[b]) /\ IdleKept(b)
    BY DEF Evolves, IdleKept
<1>2. \A b \in Cid : b # c => (Established(b) => Established(b)')
    BY DEF Established
<1>3. Evolve /\ \A b \in Cid : IdleKept(b)
    BY <1>1 DEF Evolve
<1> QED BY <1>2, <1>3 DEF ThreadEffect

\* Every message and timer of a call has that effect.
LEMMA CallThreadEffect ==
    ASSUME TypeOK, NEW c \in Cid,
           \/ Rcv100(c) \/ RcvChallenge(c) \/ RcvCancel(c) \/ SndRefusal(c)
           \/ RcvBye(c) \/ RcvAck(c) \/ ReleaseCall(c)
           \/ \E body \in Bodies \ {"anonymous"} : Rcv18x(c, body) \/ Rcv200(c, body)
           \/ \E type \in FailTypes \ {"challenge"} : RcvFailure(c, type)
    PROVE  ThreadEffect
<1>0. calls \in [Cid -> Call] /\ calls[c] \in Call
    BY DEF TypeOK, StackTypes
<1> DEFINE k == calls[c]
           l == calls'[c]
<1>1. CASE Rcv100(c) \/ RcvCancel(c)
  <2>1. /\ \A b \in Cid : b # c => calls'[b] = calls[b]
        /\ UNCHANGED fifo /\ l.dlg = k.dlg
        /\ \/ k.tr = "calling" /\ l.tr = "proceeding"
           \/ k.tr = "invited" /\ l.tr = "refusing"
    BY <1>0, <1>1 DEF Rcv100, RcvCancel, Call
  <2>2. Evolves(k, l) /\ IdleKept(c) /\ l.tr # "free" /\ (Established(c) => Established(c)')
    BY <2>1 DEF Evolves, IdleKept, Idle, Over, PastAnswer, Pending, Established
  <2> QED BY <2>1, <2>2, SilentEffect
<1>2. CASE RcvChallenge(c)
  <2>1. PICK e \in CallEvent \cup RegEvent :
            /\ fifo' = Append(fifo, e) /\ e.type = "CALL_REQUESTFAILURE"
            /\ e.id = c /\ e.info = "challenge"
    <3> DEFINE e == [type |-> "CALL_REQUESTFAILURE", id |-> c, did |-> FALSE, info |-> "challenge"]
    <3>1. e \in CallEvent
      BY EventNames DEF CallEvent
    <3>2. fifo' = Append(fifo, e)
      BY <1>2 DEF RcvChallenge, Report
    <3> QED BY <3>1, <3>2
  <2>2. /\ \A b \in Cid : b # c => calls'[b] = calls[b]
        /\ k.tr \in {"calling", "proceeding"} /\ l.tr = "challenged"
    BY <1>0, <1>2 DEF RcvChallenge, Call
  <2>3. Evolves(k, l) /\ IdleKept(c) /\ l.tr # "free" /\ ~Established(c)
    BY <2>2 DEF Evolves, IdleKept, Idle, Over, PastAnswer, Pending, Established
  <2>4. Reported(e)
    BY <2>1, <2>2 DEF Reported, Fits, Terminal, Progress, OfOutgoing
  <2> QED BY <2>1, <2>2, <2>3, <2>4, ReportEffect
<1>3. CASE SndRefusal(c)
  <2>1. PICK e \in CallEvent \cup RegEvent :
                fifo' = Append(fifo, e) /\ e.type = "CALL_CLOSED" /\ e.id = c
    BY <1>3, ReportedCall, EventNames DEF SndRefusal
  <2>2. /\ \A b \in Cid : b # c => calls'[b] = calls[b]
        /\ k.tr = "refusing" /\ l.tr = "refused" /\ l.dlg = "dead"
    BY <1>0, <1>3 DEF SndRefusal, Call
  <2>3. Evolves(k, l) /\ IdleKept(c) /\ l.tr # "free" /\ ~Established(c)
    BY <2>2 DEF Evolves, IdleKept, Idle, Over, PastAnswer, Pending, Established
  <2>4. Reported(e)
    BY <2>1, <2>2 DEF Reported, Fits, Terminal, Progress, OfOutgoing, Over
  <2> QED BY <2>1, <2>2, <2>3, <2>4, ReportEffect
<1>4. CASE RcvBye(c)
  <2>1. PICK e \in CallEvent \cup RegEvent :
                fifo' = Append(fifo, e) /\ e.type = "CALL_CLOSED" /\ e.id = c
    BY <1>4, ReportedCall, EventNames DEF RcvBye
  <2>2. /\ \A b \in Cid : b # c => calls'[b] = calls[b]
        /\ k.tr \in {"answered", "accepted"} /\ l.tr = k.tr /\ l.dlg = "dead"
    BY <1>0, <1>4 DEF RcvBye, Call
  <2>3. Evolves(k, l) /\ IdleKept(c) /\ l.tr # "free"
    BY <2>2 DEF Evolves, IdleKept, Idle, Over, PastAnswer, Pending
  <2>4. Reported(e)
    BY <2>1, <2>2 DEF Reported, Fits, Terminal, Progress, OfOutgoing, Over
  <2> QED BY <2>1, <2>2, <2>3, <2>4, ReportEffect
<1>5. CASE RcvAck(c)
  <2>1. PICK e \in CallEvent \cup RegEvent :
                fifo' = Append(fifo, e) /\ e.type = "CALL_ACK" /\ e.id = c
    BY <1>5, ReportedCall, EventNames DEF RcvAck
  <2>2. calls' = calls /\ k.tr = "accepted" /\ k.dlg = "live"
    BY <1>5 DEF RcvAck
  <2>3. Evolves(k, l) /\ IdleKept(c) /\ l.tr # "free" /\ ~Idle(k) /\ Established(c)'
    BY <2>2 DEF Evolves, IdleKept, Idle, Over, Established
  <2>4. Reported(e)
    BY <2>1, <2>2, <2>3 DEF Reported, Fits, Terminal, Progress, OfOutgoing
  <2> QED BY <2>1, <2>2, <2>3, <2>4, ReportEffect
<1>6. CASE ReleaseCall(c)
  <2>1. PICK e \in CallEvent \cup RegEvent :
                fifo' = Append(fifo, e) /\ e.type = "CALL_RELEASED" /\ e.id = c
    BY <1>6, ReportedCall, EventNames DEF ReleaseCall
  <2>2. /\ \A b \in Cid : b # c => calls'[b] = calls[b]
        /\ l.tr = "free" /\ l.dlg = "none" /\ k.tr # "free" /\ ~Established(c)
    BY <1>0, <1>6 DEF ReleaseCall, Releasable, FreeCall, Established
  <2>3. Evolves(k, l) /\ IdleKept(c)
    BY <2>2 DEF Evolves, IdleKept, Idle, Over, PastAnswer, Pending
  <2>4. Reported(e)
    BY <2>1, <2>2 DEF Reported, Fits, Terminal, Progress, OfOutgoing, Over
  <2> QED BY <2>1, <2>2, <2>3, <2>4, ReportEffect
<1>7. ASSUME NEW body \in Bodies \ {"anonymous"}, Rcv18x(c, body)
      PROVE  ThreadEffect
  <2>1. body \in CallInfo
    BY EXosipAssumption DEF CallInfo
  <2>2. PICK d \in BOOLEAN : Report("CALL_RINGING", c, d, body)
    BY <1>7 DEF Rcv18x
  <2>3. PICK e \in CallEvent \cup RegEvent :
                fifo' = Append(fifo, e) /\ e.type = "CALL_RINGING" /\ e.id = c
    <3>1. [type |-> "CALL_RINGING", id |-> c, did |-> d, info |-> body] \in CallEvent
      BY <2>1, EventNames DEF CallEvent
    <3> QED BY <2>2, <3>1 DEF Report
  <2>4. /\ \A b \in Cid : b # c => calls'[b] = calls[b]
        /\ k.tr \in {"calling", "proceeding"} /\ l.tr = "proceeding"
    BY <1>0, <1>7 DEF Rcv18x, Call
  <2>5. Evolves(k, l) /\ IdleKept(c) /\ l.tr # "free" /\ ~Established(c) /\ ~Idle(k)
    BY <2>4 DEF Evolves, IdleKept, Idle, Over, PastAnswer, Pending, Established
  <2>6. Reported(e)
    BY <2>3, <2>4, <2>5 DEF Reported, Fits, Terminal, Progress, OfOutgoing, Pending
  <2> QED BY <2>3, <2>4, <2>5, <2>6, ReportEffect
<1>8. ASSUME NEW body \in Bodies \ {"anonymous"}, Rcv200(c, body)
      PROVE  ThreadEffect
  <2>1. body \in CallInfo /\ k.tr \in {"calling", "proceeding"}
    BY <1>8, EXosipAssumption DEF CallInfo, Rcv200
  <2>2. CASE k.dlg = "dead"
    <3>1. /\ \A b \in Cid : b # c => calls'[b] = calls[b]
          /\ UNCHANGED fifo /\ l.tr = "answered" /\ l.dlg = "dead"
      BY <1>0, <1>8, <2>2 DEF Rcv200, Call
    <3>2. Evolves(k, l) /\ IdleKept(c) /\ l.tr # "free" /\ ~Established(c)
      BY <2>1, <3>1 DEF Evolves, IdleKept, Idle, Over, PastAnswer, Pending, Established
    <3> QED BY <3>1, <3>2, SilentEffect
  <2>3. CASE k.dlg # "dead"
    <3>1. PICK e \in CallEvent \cup RegEvent :
                fifo' = Append(fifo, e) /\ e.type = "CALL_ANSWERED" /\ e.id = c
      <4>1. [type |-> "CALL_ANSWERED", id |-> c, did |-> TRUE, info |-> body] \in CallEvent
        BY <2>1, EventNames DEF CallEvent
      <4>2. Report("CALL_ANSWERED", c, TRUE, body)
        BY <1>8, <2>3 DEF Rcv200
      <4> QED BY <4>1, <4>2 DEF Report
    <3>2. /\ \A b \in Cid : b # c => calls'[b] = calls[b]
          /\ l.tr = "answered" /\ l.dlg = "live"
      BY <1>0, <1>8, <2>3 DEF Rcv200, Call
    <3>3. Evolves(k, l) /\ IdleKept(c) /\ l.tr # "free" /\ ~Established(c) /\ ~Idle(k)
      BY <2>1, <3>2 DEF Evolves, IdleKept, Idle, Over, PastAnswer, Pending, Established
    <3>4. Reported(e)
      BY <2>1, <3>1, <3>2, <3>3
      DEF Reported, Fits, Terminal, Progress, OfOutgoing, Pending, PastAnswer
    <3> QED BY <3>1, <3>2, <3>3, <3>4, ReportEffect
  <2> QED BY <2>2, <2>3
<1>9. ASSUME NEW type \in FailTypes \ {"challenge"}, RcvFailure(c, type)
      PROVE  ThreadEffect
  <2>1. type \in {"CALL_REQUESTFAILURE", "CALL_SERVERFAILURE", "CALL_GLOBALFAILURE"}
    BY EXosipAssumption
  <2>2. PICK d \in BOOLEAN : Report(type, c, d, "failure")
    BY <1>9 DEF RcvFailure
  <2>3. PICK e \in CallEvent \cup RegEvent :
                fifo' = Append(fifo, e) /\ e.type = type /\ e.id = c
    <3>1. [type |-> type, id |-> c, did |-> d, info |-> "failure"] \in CallEvent
      BY <2>1, EventNames DEF CallEvent
    <3> QED BY <2>2, <3>1 DEF Report
  <2>4. /\ \A b \in Cid : b # c => calls'[b] = calls[b]
        /\ k.tr \in {"calling", "proceeding"} /\ l.tr = "failed" /\ l.dlg # "live"
    BY <1>0, <1>9 DEF RcvFailure, Call
  <2>5. Evolves(k, l) /\ IdleKept(c) /\ l.tr # "free" /\ ~Established(c)
    BY <2>4 DEF Evolves, IdleKept, Idle, Over, PastAnswer, Pending, Established
  <2>6. Reported(e)
    BY <2>1, <2>3, <2>4 DEF Reported, Fits, Terminal, Progress, OfOutgoing, Over
  <2> QED BY <2>3, <2>4, <2>5, <2>6, ReportEffect
<1> QED BY <1>1, <1>2, <1>3, <1>4, <1>5, <1>6, <1>7, <1>8, <1>9

\* eXosip_automatic_action only turns challenged calls into calling ones.
LEMMA AutomaticLife ==
    ASSUME TypeOK, NEW c \in Cid
    PROVE  \/ AutomaticCalls[c] = calls[c]
           \/ calls[c].tr = "challenged" /\ AutomaticCalls[c].tr = "calling"
BY DEF AutomaticCalls, TypeOK, StackTypes, Call

\* So it leaves every call in the life it had.
LEMMA AutomaticEvolves ==
    ASSUME TypeOK, NEW c \in Cid
    PROVE  /\ Evolves(calls[c], AutomaticCalls[c])
           /\ Idle(calls[c]) => Idle(AutomaticCalls[c])
           /\ AutomaticCalls[c].tr = "free" <=> calls[c].tr = "free"
           /\ Established(c) => /\ AutomaticCalls[c].tr \in {"answered", "accepted"}
                                /\ AutomaticCalls[c].dlg = "live"
<1>1. CASE AutomaticCalls[c] = calls[c]
    BY <1>1 DEF Evolves, Established
<1>2. CASE calls[c].tr = "challenged" /\ AutomaticCalls[c].tr = "calling"
    BY <1>2 DEF Evolves, Established, Idle, Over, PastAnswer, Pending
<1> QED BY <1>1, <1>2, AutomaticLife

\* Every step of the stack, and a poll that reads nothing, has that effect.
LEMMA StackThreadEffect ==
    ASSUME TypeOK, Stack \/ EmptyPoll
    PROVE  ThreadEffect /\ UNCHANGED <<state, cid, media, ticketVars>>
<1>0. UNCHANGED <<state, cid, media, ticketVars>>
    BY DEF Stack, NewInvite, EmptyPoll, phoneVars, fsmVars, ticketVars
<1>1. ASSUME NEW c \in Cid, NEW body \in Bodies, Unused(c), RcvInvite(c, body)
      PROVE  ThreadEffect
  <2>1. body \in CallInfo
    BY EXosipAssumption DEF CallInfo
  <2>2. PICK e \in CallEvent \cup RegEvent :
            fifo' = Append(fifo, e) /\ e.type = "CALL_INVITE" /\ e.id = c
    BY <1>1, <2>1, ReportedCall, EventNames DEF RcvInvite
  <2>3. /\ \A b \in Cid : b # c => calls'[b] = calls[b]
        /\ calls[c].tr = "free" /\ calls'[c].tr = "invited"
    BY <1>1 DEF RcvInvite, FreeCall, TypeOK, StackTypes
  <2>4. IdleKept(c) /\ ~Established(c)
    BY <2>3 DEF IdleKept, Idle, Established
  <2>5. Reported(e)
    BY <1>1, <2>2, <2>3 DEF Reported, Fits, Terminal, Progress, OfOutgoing
  <2> QED BY <1>1, <2>2, <2>3, <2>4, <2>5, ReportEffect
<1>2. ASSUME NEW e \in CallEvent \cup RegEvent, ~IsCallEvent(e), UNCHANGED calls,
             UNCHANGED fifo \/ fifo' = Append(fifo, e)
      PROVE  ThreadEffect
  <2>1. Evolve /\ \A c \in Cid : IdleKept(c) /\ (Established(c) => Established(c)')
    BY <1>2 DEF Evolve, Evolves, IdleKept, Established
  <2>2. fifo' = Append(fifo, e) => Reported(e)
    BY <1>2 DEF Reported
  <2> QED BY <1>2, <2>1, <2>2 DEF ThreadEffect
<1>3. ASSUME NEW r \in Rid, NEW type \in {"REGISTRATION_SUCCESS", "REGISTRATION_FAILURE"},
             NEW info \in {"200", "401", "407", "403", "404", "500", "noreply"}
      PROVE  LET e == [type |-> type, id |-> r, did |-> FALSE, info |-> info]
             IN  e \in CallEvent \cup RegEvent /\ ~IsCallEvent(e)
    BY DEF RegEvent, IsCallEvent, CallEventType
<1>4. ASSUME NEW r \in Rid, RefreshRegister(r) \/ ReleaseRegister(r)
      PROVE  ThreadEffect
  <2>1. PICK e \in CallEvent \cup RegEvent : ~IsCallEvent(e)
    BY <1>3
  <2> QED BY <1>2, <1>4, <2>1 DEF RefreshRegister, ReleaseRegister
<1>5. ASSUME NEW r \in Rid, NEW code \in RegCodes, RcvRegisterAnswer(r, code)
      PROVE  ThreadEffect
  <2>1. code \in {"200", "401", "407", "403", "404", "500", "noreply"}
    BY EXosipAssumption
  <2>2. PICK type \in {"REGISTRATION_SUCCESS", "REGISTRATION_FAILURE"} :
            Report(type, r, FALSE, code)
    BY <1>5 DEF RcvRegisterAnswer
  <2> DEFINE e == [type |-> type, id |-> r, did |-> FALSE, info |-> code]
  <2>3. e \in CallEvent \cup RegEvent /\ ~IsCallEvent(e)
    BY <1>3, <2>1
  <2>4. fifo' = Append(fifo, e) /\ UNCHANGED calls
    BY <1>5, <2>2 DEF Report, RcvRegisterAnswer
  <2> HIDE DEF e
  <2> QED BY <1>2, <2>3, <2>4
<1>6. ASSUME EmptyPoll PROVE ThreadEffect
  <2>1. calls' = AutomaticCalls /\ UNCHANGED fifo
    BY <1>6 DEF EmptyPoll
  <2>2. Evolve /\ \A c \in Cid : IdleKept(c)
    BY <2>1, AutomaticEvolves DEF Evolve, IdleKept
  <2>3. \A c \in Cid : /\ calls'[c].tr = "free" => calls[c].tr = "free"
                       /\ Established(c) => Established(c)'
    BY <2>1, AutomaticEvolves DEF Established
  <2> QED BY <2>1, <2>2, <2>3 DEF ThreadEffect
<1> QED BY <1>0, <1>1, <1>4, <1>5, <1>6, CallThreadEffect DEF Stack, NewInvite, EXosipThread

-----------------------------------------------------------------------------
\* The phone: what its commands and the handling of an event may do.

\* The end of the phone's call is what is read.
ReadsEnd == Read /\ Terminal(Head(fifo)) /\ Head(fifo).id = cid

TicketKept == ticket'.started = ticket.started /\ ticket'.call = ticket.call /\ history' = history

\* A phone without a call goes on without one, and nobody is heard unless the device failed.
StaysFree ==
    /\ state \notin AboveRegistered /\ state' \notin AboveRegistered
    /\ media'.faulty \/ media'.session = NoCall
    /\ \A c \in Cid : IdleKept(c)

\* A phone without a call calls out, on a new id and with a new ticket.
CallsOut ==
    /\ state \notin AboveRegistered /\ state' = "sip_outgoing_call_sent"
    /\ cid' \in Cid /\ Unused(cid') /\ calls'[cid'].tr = "calling"
    /\ \A c \in Cid : c # cid' => IdleKept(c)
    /\ media'.session = NoCall /\ (media'.localSdp => media'.transport)
    /\ ~media'.faulty
    /\ ticket'.started /\ ticket'.call = cid' /\ history'[cid'] = 0

\* A phone without a call rings for the caller whose INVITE it reads.
StartsRinging ==
    /\ state \notin AboveRegistered /\ state' = "sip_incoming_call_ringing"
    /\ Read /\ Head(fifo).type = "CALL_INVITE" /\ cid' = Head(fifo).id
    /\ \A c \in Cid : IdleKept(c)
    /\ media'.faulty = media.faulty
    /\ media.faulty \/ (media'.session = cid' /\ media'.transport)
    /\ ticket'.started /\ ticket'.call = cid' /\ history'[cid'] = 0

\* How a phone with a call may go on with it.
Advance ==
    \/ state' = state
    \/ state \in Outgoing /\ state' = "sip_outgoing_call_ringing"
    \/ /\ state \in Outgoing /\ state' = "sip_online"
       /\ media.faulty \/ media'.session = cid
       /\ Established(cid)' /\ Read /\ Head(fifo).type = "CALL_ANSWERED" /\ Head(fifo).id = cid
    \/ /\ state = "sip_incoming_call_acccepted" /\ state' = "sip_online"
       /\ Queued("CALL_ACK", cid)
    \/ state = "sip_incoming_call_ringing" /\ state' = "sip_incoming_call_acccepted"

GoesOn ==
    /\ state \in AboveRegistered /\ cid' = cid /\ ~ReadsEnd
    /\ Advance
    /\ \A c \in Cid : c # cid => IdleKept(c)
    /\ Established(cid) => Established(cid)'
    /\ media'.transport = media.transport /\ media'.localSdp = media.localSdp
    /\ media'.faulty = media.faulty
    /\ \/ media'.session = media.session
       \/ state \in Outgoing /\ media'.session = cid /\ media.localSdp
    /\ TicketKept \/ tickHangupCause

\* The user hangs up.
HangsUp ==
    /\ state \in HangUpStates /\ state' = "sip_initiated_clearing"
    /\ UNCHANGED fifo /\ cid' = cid
    /\ \A c \in Cid : IdleKept(c)
    /\ media'.transport = media.transport /\ media'.localSdp = media.localSdp
    /\ media'.session = media.session /\ media'.faulty = media.faulty
    /\ tickHangupCause

\* The phone leaves its call for the event that ends it.
LeavesCall ==
    /\ state \in AboveRegistered /\ state' \notin AboveRegistered /\ cid' = cid /\ ReadsEnd
    /\ \A c \in Cid : IdleKept(c)
    /\ media'.session = NoCall /\ ~media'.faulty
    /\ tickHangupCause \/ (UNCHANGED ticketVars /\ Head(fifo).type = "CALL_RELEASED")

PhoneEffect ==
    /\ UNCHANGED fifo \/ Read
    /\ Evolve
    /\ \A c \in Cid : calls'[c].tr = "free" => calls[c].tr = "free"
    /\ StaysFree \/ CallsOut \/ StartsRinging \/ GoesOn \/ HangsUp \/ LeavesCall

\* A step that has nothing to do with calls leaves the media alone, or ends them, which
\* disturbs a phone with a call.
SoundStep ==
    /\ UNCHANGED <<calls, fifo, state, cid, ticketVars>>
    /\ \/ /\ media'.session = media.session /\ media'.transport = media.transport
          /\ media'.localSdp = media.localSdp /\ media'.faulty = media.faulty
       \/ media'.session = NoCall /\ (media'.faulty <=> state \in AboveRegistered)

\* An answer is the last that is queued of an outgoing call on its way.
LEMMA AnswerIsLast ==
    ASSUME TypeOK, QueueInv, Read, Head(fifo).type = "CALL_ANSWERED", Head(fifo).id = cid,
           NEW i \in 1..Len(fifo'), IsCallEvent(fifo'[i])
    PROVE  ~OfOutgoing(fifo'[i])
<1>1. /\ 1 \in 1..Len(fifo) /\ fifo[1] = Head(fifo) /\ i + 1 \in 1..Len(fifo) /\ 1 < i + 1
      /\ fifo'[i] = fifo[i + 1]
    BY TailAt DEF TypeOK, StackTypes, Read
<1> SUFFICES ASSUME OfOutgoing(fifo[i + 1]) PROVE FALSE
    BY <1>1
<1>2. IsCallEvent(fifo[1]) /\ IsCallEvent(fifo[i + 1])
    BY <1>1, EventNames DEF IsCallEvent
<1>3. fifo[i + 1].id = cid
    BY <1>1, <1>2 DEF QueueInv, EventsFit, OfOutgoing, Progress
<1>4. MayFollow(fifo[1], fifo[i + 1])
    BY <1>1, <1>2, <1>3 DEF QueueInv, EventsOrdered
<1> QED BY <1>1, <1>4 DEF MayFollow

\* Nothing is queued behind the release of a call.
LEMMA ReleaseIsLast ==
    ASSUME TypeOK, QueueInv, Read, NEW c, Head(fifo).type = "CALL_RELEASED", Head(fifo).id = c,
           NEW type \in CallEventType
    PROVE  ~Queued(type, c)'
<1> SUFFICES ASSUME NEW i \in 1..Len(fifo'), fifo'[i].type = type, fifo'[i].id = c
             PROVE  FALSE
    BY DEF Queued
<1>1. /\ 1 \in 1..Len(fifo) /\ fifo[1] = Head(fifo) /\ i + 1 \in 1..Len(fifo) /\ 1 < i + 1
      /\ fifo'[i] = fifo[i + 1]
    BY TailAt DEF TypeOK, StackTypes, Read
<1>2. IsCallEvent(fifo[1]) /\ IsCallEvent(fifo[i + 1])
    BY <1>1, EventNames DEF IsCallEvent
<1>3. MayFollow(fifo[1], fifo[i + 1])
    BY <1>1, <1>2 DEF QueueInv, EventsOrdered
<1> QED BY <1>1, <1>3 DEF MayFollow

\* When the end of the phone's call is read, nothing that moves a call forward is queued.
LEMMA EndIsLast ==
    ASSUME TypeOK, QueueInv, ReadsEnd, NEW i \in 1..Len(fifo'), IsCallEvent(fifo'[i])
    PROVE  ~Progress(fifo'[i])
<1>1. /\ 1 \in 1..Len(fifo) /\ fifo[1] = Head(fifo) /\ i + 1 \in 1..Len(fifo) /\ 1 < i + 1
      /\ fifo'[i] = fifo[i + 1]
    BY TailAt DEF TypeOK, StackTypes, Read, ReadsEnd
<1> SUFFICES ASSUME Progress(fifo[i + 1]) PROVE FALSE
    BY <1>1
<1>2. IsCallEvent(fifo[1]) /\ IsCallEvent(fifo[i + 1])
    BY <1>1, EventNames DEF IsCallEvent, ReadsEnd, Terminal
<1>3. fifo[i + 1].id = cid
    BY <1>1, <1>2 DEF QueueInv, EventsFit
<1>4. MayFollow(fifo[1], fifo[i + 1])
    BY <1>1, <1>2, <1>3 DEF QueueInv, EventsOrdered, ReadsEnd
<1> QED BY <1>1, <1>4 DEF MayFollow, ReadsEnd

\* A step of the phone keeps the queue's part of the invariant.
LEMMA PhoneQueue ==
    ASSUME TypeOK, QueueInv, PhoneEffect
    PROVE  QueueInv'
<1> USE DEF QueueInv
<1>1. PICK d \in {0, 1} :
          \A i \in 1..Len(fifo') : i + d \in 1..Len(fifo) /\ fifo'[i] = fifo[i + d]
    BY Shifted DEF PhoneEffect
<1>2. state \in AboveRegistered => cid \in Cid /\ ~Unused(cid) /\ Evolves(calls[cid], calls'[cid])
    BY DEF HasCall, PhoneEffect, Evolve, Unused
<1>3. ReadsEnd => Over(calls[cid])
  <2> SUFFICES ASSUME ReadsEnd PROVE Over(calls[cid])
      OBVIOUS
  <2>1. /\ 1 \in 1..Len(fifo) /\ fifo[1] = Head(fifo) /\ IsCallEvent(fifo[1])
    BY HeadQueued, EventNames DEF ReadsEnd, Terminal, IsCallEvent
  <2>2. Fits(fifo[1], calls[fifo[1].id])
    BY <2>1 DEF EventsFit
  <2> QED BY <2>1, <2>2 DEF Fits, ReadsEnd
<1>4. StartsRinging => cid' \in Cid
  <2> SUFFICES ASSUME StartsRinging PROVE cid' \in Cid
      OBVIOUS
  <2>1. /\ 1 \in 1..Len(fifo) /\ fifo[1] = Head(fifo)
    BY HeadQueued DEF StartsRinging
  <2> QED BY <2>1, InviteTypes DEF StartsRinging
<1>5. OthersIdle'
  <2>1. CASE StaysFree \/ StartsRinging
    BY <2>1 DEF StaysFree, StartsRinging, OthersIdle, IdleKept, Idle, Over
  <2>2. CASE CallsOut
    BY <2>2 DEF CallsOut, OthersIdle, IdleKept, Idle, Over, AboveRegistered, HangUpStates
  <2>3. CASE GoesOn
    <3>1. state' \in AboveRegistered
      BY <2>3 DEF GoesOn, Advance, AboveRegistered, HangUpStates
    <3> QED BY <2>3, <3>1 DEF GoesOn, OthersIdle, IdleKept, Idle, Over
  <2>4. CASE HangsUp
    BY <2>4 DEF HangsUp, OthersIdle, IdleKept, Idle, Over, AboveRegistered
  <2>5. CASE LeavesCall
    <3>1. \A c \in Cid : Idle(calls[c])
      BY <1>3, <2>5 DEF LeavesCall, OthersIdle, Idle
    <3> QED BY <2>5, <3>1 DEF LeavesCall, OthersIdle, IdleKept, Idle, Over
  <2> QED BY <2>1, <2>2, <2>3, <2>4, <2>5 DEF PhoneEffect
<1>6. HasCall'
    BY <1>2, <1>4 DEF PhoneEffect, StaysFree, CallsOut, StartsRinging, GoesOn, HangsUp, LeavesCall,
                      HasCall, AboveRegistered, HangUpStates
<1>7. EventsFit'
  <2> SUFFICES ASSUME NEW i \in 1..Len(fifo'), IsCallEvent(fifo'[i])
               PROVE  /\ Fits(fifo'[i], calls'[fifo'[i].id])
                      /\ Progress(fifo'[i]) => fifo'[i].id = cid' /\ state' \in AboveRegistered
                      /\ OfOutgoing(fifo'[i]) => state' \in Outgoing
      BY DEF EventsFit, IsCallEvent, Fits, Progress, OfOutgoing, Terminal, Over, PastAnswer
  <2>1. i + d \in 1..Len(fifo) /\ fifo'[i] = fifo[i + d] /\ IsCallEvent(fifo[i + d])
    BY <1>1
  <2>2. Fits(fifo'[i], calls'[fifo'[i].id])
    BY <2>1, QueuedFits DEF PhoneEffect
  <2>3. /\ Progress(fifo'[i]) => fifo'[i].id = cid /\ state \in AboveRegistered
        /\ OfOutgoing(fifo'[i]) => Progress(fifo'[i]) /\ state \in Outgoing
    BY <2>1 DEF EventsFit, OfOutgoing, Progress
  <2>4. CASE StaysFree \/ CallsOut \/ StartsRinging
    BY <2>2, <2>3, <2>4 DEF StaysFree, CallsOut, StartsRinging
  <2>5. CASE GoesOn
    <3>1. state' \in AboveRegistered /\ cid' = cid
      BY <2>5 DEF GoesOn, Advance, AboveRegistered, HangUpStates
    <3>2. CASE state' = state \/ state' \in Outgoing
      BY <2>2, <2>3, <3>1, <3>2
    <3>3. CASE Read /\ Head(fifo).type = "CALL_ANSWERED" /\ Head(fifo).id = cid
      BY <2>2, <2>3, <3>1, <3>3, AnswerIsLast
    <3>4. CASE state \notin Outgoing
      BY <2>2, <2>3, <3>1, <3>4
    <3> QED BY <2>5, <3>2, <3>3, <3>4 DEF GoesOn, Advance, Outgoing
  <2>6. CASE HangsUp
    BY <2>2, <2>3, <2>6 DEF HangsUp, AboveRegistered, Outgoing
  <2>7. CASE LeavesCall
    BY <2>2, <2>3, <2>7, EndIsLast DEF LeavesCall
  <2> QED BY <2>4, <2>5, <2>6, <2>7 DEF PhoneEffect
<1>8. EventsOrdered'
  <2> SUFFICES ASSUME NEW i \in 1..Len(fifo'), NEW j \in 1..Len(fifo'), i < j,
                      IsCallEvent(fifo'[i]), IsCallEvent(fifo'[j]), fifo'[i].id = fifo'[j].id
               PROVE  MayFollow(fifo'[i], fifo'[j])
      BY DEF EventsOrdered, IsCallEvent, MayFollow, Terminal, Progress, OfOutgoing
  <2>1. /\ i + d \in 1..Len(fifo) /\ fifo'[i] = fifo[i + d]
        /\ j + d \in 1..Len(fifo) /\ fifo'[j] = fifo[j + d] /\ i + d < j + d
    BY <1>1
  <2> QED BY <2>1 DEF EventsOrdered
<1>9. PendingIsOutgoing'
  <2> SUFFICES ASSUME state' \in AboveRegistered, calls'[cid'].tr \in Pending
               PROVE  state' \in Outgoing
      BY DEF PendingIsOutgoing
  <2>1. CASE CallsOut \/ HangsUp
    BY <2>1 DEF CallsOut, HangsUp, Outgoing
  <2>2. CASE StartsRinging
    <3>1. Idle(calls'[cid'])
      BY <1>4, <2>2 DEF StartsRinging, OthersIdle, IdleKept
    <3> QED BY <3>1 DEF Idle, Over, Pending
  <2>3. CASE GoesOn
    <3>1. state \in Outgoing
      BY <1>2, <2>3 DEF GoesOn, Evolves, PendingIsOutgoing
    <3>2. CASE Read /\ Head(fifo).type = "CALL_ANSWERED" /\ Head(fifo).id = cid
      <4>1. 1 \in 1..Len(fifo) /\ fifo[1] = Head(fifo) /\ IsCallEvent(fifo[1])
        BY <3>2, HeadQueued, EventNames DEF IsCallEvent
      <4>2. Fits(fifo[1], calls[cid])
        BY <3>2, <4>1 DEF EventsFit
      <4> QED BY <1>2, <2>3, <3>2, <4>1, <4>2 DEF Fits, PastAnswer, Evolves, GoesOn
    <3> QED BY <2>3, <3>1, <3>2 DEF GoesOn, Advance, Outgoing
  <2> QED BY <2>1, <2>2, <2>3 DEF PhoneEffect, StaysFree, LeavesCall
<1>10. ReleaseQueued'
  <2>1. ASSUME NEW c \in Cid, Queued("CALL_INVITE", c)', calls'[c].tr = "free"
        PROVE  Queued("CALL_RELEASED", c)'
    <3>1. Queued("CALL_INVITE", c) /\ calls[c].tr = "free"
      BY <2>1, QueuedRead DEF PhoneEffect
    <3>2. Queued("CALL_RELEASED", c)
      BY <3>1 DEF ReleaseQueued
    <3>3. ~(Read /\ Head(fifo).type = "CALL_RELEASED" /\ Head(fifo).id = c)
      BY <2>1, ReleaseIsLast, EventNames
    <3> QED BY <3>2, <3>3, QueuedRead DEF PhoneEffect
  <2>2. ASSUME state' \in AboveRegistered, NEW c, c = cid', calls'[c].tr = "free"
        PROVE  Queued("CALL_RELEASED", c)'
    <3>1. c \in Cid
      BY <1>6, <2>2 DEF HasCall
    <3>2. calls[c].tr = "free"
      BY <2>2, <3>1 DEF PhoneEffect
    <3>3. CASE CallsOut
      BY <2>2, <3>3 DEF CallsOut
    <3>4. CASE StartsRinging
      <4>1. Queued("CALL_INVITE", c)
        BY <2>2, <3>4, HeadQueued DEF StartsRinging
      <4>2. Queued("CALL_RELEASED", c)
        BY <3>1, <3>2, <4>1 DEF ReleaseQueued
      <4> QED BY <3>4, <4>2, QueuedRead DEF StartsRinging
    <3>5. CASE GoesOn \/ HangsUp
      <4>1. state \in AboveRegistered /\ c = cid /\ (UNCHANGED fifo \/ ~ReadsEnd)
        BY <2>2, <3>5 DEF GoesOn, HangsUp, AboveRegistered
      <4>2. Queued("CALL_RELEASED", c)
        BY <3>2, <4>1 DEF ReleaseQueued
      <4>3. CASE UNCHANGED fifo
        BY <4>2, <4>3 DEF Queued
      <4>4. CASE ~ReadsEnd
        BY <4>1, <4>2, <4>4, QueuedRead DEF PhoneEffect, ReadsEnd, Terminal
      <4> QED BY <4>1, <4>3, <4>4
    <3> QED BY <2>2, <3>3, <3>4, <3>5 DEF PhoneEffect, StaysFree, LeavesCall
  <2>3. state' \in AboveRegistered /\ calls'[cid'].tr = "free" => Queued("CALL_RELEASED", cid)'
    BY <2>2
  <2> QED BY <2>1, <2>3 DEF ReleaseQueued
<1> QED BY <1>5, <1>6, <1>7, <1>8, <1>9, <1>10

\* A step of the phone keeps the session that of the phone's call.
LEMMA PhonePlane ==
    ASSUME TypeOK, CallInv, PhoneEffect
    PROVE  PlaneInv'
<1> USE DEF CallInv
<1> SUFFICES ASSUME ~media'.faulty PROVE PlaneInv'
    BY DEF PlaneInv
<1>1. CASE StaysFree \/ LeavesCall
    BY <1>1 DEF StaysFree, LeavesCall, PlaneInv, WithSession, AboveRegistered, HangUpStates
<1>2. CASE CallsOut
    BY <1>2 DEF CallsOut, PlaneInv, WithSession, AboveRegistered, HangUpStates
<1>3. CASE StartsRinging
    BY <1>3 DEF StartsRinging, PlaneInv, WithSession, AboveRegistered, HangUpStates
<1>4. CASE HangsUp
  <2>1. state \in AboveRegistered /\ state' \in AboveRegistered /\ state' \notin WithSession
    BY <1>4 DEF HangsUp, AboveRegistered, WithSession
  <2> QED BY <1>4, <2>1 DEF HangsUp, PlaneInv
<1>5. CASE GoesOn
  <2>0. ~media.faulty
    BY <1>5 DEF GoesOn
  <2>1. state' \in AboveRegistered
    BY <1>5 DEF GoesOn, Advance, AboveRegistered, HangUpStates
  <2>2. media'.session # NoCall => media'.session = cid /\ media'.transport
    BY <1>5, <2>0 DEF GoesOn, PlaneInv
  <2>3. state' \in WithSession => media'.session = cid
    BY <1>5, <2>0 DEF GoesOn, Advance, PlaneInv, WithSession, Outgoing
  <2> QED BY <1>5, <2>0, <2>1, <2>2, <2>3 DEF GoesOn, PlaneInv
<1> QED BY <1>1, <1>2, <1>3, <1>4, <1>5 DEF PhoneEffect

\* The device has no part in the queue and in the tickets.
LEMMA SoundCalls ==
    ASSUME CallInv, SoundStep
    PROVE  CallInv'
<1> USE DEF CallInv
<1>1. UNCHANGED <<calls, fifo, state, cid, ticket, history>>
    BY DEF SoundStep, ticketVars
<1>2. QueueInv'
    BY <1>1 DEF QueueInv, OthersIdle, HasCall, EventsFit, EventsOrdered, PendingIsOutgoing,
                ReleaseQueued, Queued
<1>3. TicketInv'
    BY <1>1 DEF TicketInv, Queued, Established
<1>4. PlaneInv'
  <2>1. CASE /\ media'.session = media.session /\ media'.transport = media.transport
             /\ media'.localSdp = media.localSdp /\ media'.faulty = media.faulty
    BY <1>1, <2>1 DEF PlaneInv
  <2>2. CASE media'.session = NoCall /\ (media'.faulty <=> state \in AboveRegistered)
    BY <1>1, <2>2 DEF PlaneInv, WithSession, AboveRegistered, HangUpStates
  <2> QED BY <2>1, <2>2 DEF SoundStep
<1> QED BY <1>2, <1>3, <1>4

\* tickHangupCause, whether or not the ticket was closed before, leaves the phone's call
\* with exactly one entry.
LEMMA HangupLogs ==
    ASSUME TypeOK, QueueInv, TicketInv, state \in AboveRegistered, tickHangupCause
    PROVE  ~ticket'.started /\ history'[cid] = 1
<1>1. cid \in Cid /\ cid # NoCall
    BY NoCallAssumption DEF QueueInv, HasCall
<1>2. CASE ticket.started
  <2>1. ticket.call = cid /\ history[cid] = 0
    BY <1>2 DEF TicketInv
  <2>2. history' = [history EXCEPT ![cid] = @ + 1] /\ ticket' = clearInfo
    BY <1>1, <1>2, <2>1 DEF tickHangupCause
  <2> QED BY <1>1, <2>1, <2>2 DEF clearInfo, TypeOK, PhoneTypes
<1>3. CASE ~ticket.started
    BY <1>3 DEF TicketInv, tickHangupCause
<1> QED BY <1>2, <1>3

\* A step of the phone keeps the ticket that of the phone's call.
LEMMA PhoneTicket ==
    ASSUME TypeOK, CallInv, PhoneEffect
    PROVE  TicketInv'
<1> USE DEF CallInv
<1>1. CASE StaysFree \/ LeavesCall
    BY <1>1 DEF StaysFree, LeavesCall, TicketInv
<1>2. CASE CallsOut
  <2>1. ASSUME NEW c, c = cid' PROVE ~Queued("CALL_ACK", c)'
    <3>1. ~Queued("CALL_ACK", c)
      BY <1>2, <2>1, UnusedUnread DEF CallsOut, Queued
    <3> QED BY <3>1, QueuedRead DEF PhoneEffect
  <2>2. ~Queued("CALL_ACK", cid)'
    BY <2>1
  <2> QED BY <1>2, <2>2 DEF CallsOut, TicketInv
<1>3. CASE StartsRinging
  <2>1. ASSUME NEW c PROVE ~Queued("CALL_ACK", c)'
    <3>1. ~Queued("CALL_ACK", c)
      BY <1>3, EventNames DEF StartsRinging, Queued, QueueInv, EventsFit, Progress, IsCallEvent
    <3> QED BY <3>1, QueuedRead DEF PhoneEffect
  <2>2. ~Queued("CALL_ACK", cid)'
    BY <2>1
  <2> QED BY <1>3, <2>2 DEF StartsRinging, TicketInv
<1>4. ASSUME state \in AboveRegistered, cid' = cid, tickHangupCause
      PROVE  TicketInv'
    BY <1>4, HangupLogs DEF TicketInv
<1>5. CASE HangsUp
    BY <1>4, <1>5 DEF HangsUp, AboveRegistered
<1>6. CASE GoesOn /\ TicketKept
  <2>1. state' = "sip_initiated_clearing" => state = "sip_initiated_clearing"
    BY <1>6 DEF GoesOn, Advance
  <2>2. ASSUME NEW c, c = cid, ticket.started, state' = "sip_online" \/ Queued("CALL_ACK", c)'
        PROVE  Established(c)' \/ Queued("CALL_CLOSED", c)'
    <3>1. CASE Established(c)'
      BY <3>1
    <3>2. CASE state = "sip_online" \/ Queued("CALL_ACK", c)
      <4>1. Established(c) \/ Queued("CALL_CLOSED", c)
        BY <1>6, <2>2, <3>2 DEF GoesOn, TicketInv
      <4>2. Established(c) => Established(c)'
        BY <1>6, <2>2 DEF GoesOn, Established
      <4>3. Queued("CALL_CLOSED", c) => Queued("CALL_CLOSED", c)'
        BY <1>6, <2>2, QueuedRead DEF GoesOn, PhoneEffect, ReadsEnd, Terminal
      <4> QED BY <4>1, <4>2, <4>3
    <3>3. Queued("CALL_ACK", c)' => Queued("CALL_ACK", c)
      BY QueuedRead DEF PhoneEffect
    <3>4. state' = "sip_online" => state = "sip_online" \/ Queued("CALL_ACK", c) \/ Established(c)'
      BY <1>6, <2>2 DEF GoesOn, Advance, Established
    <3> QED BY <2>2, <3>1, <3>2, <3>3, <3>4
  <2>3. ticket.started /\ (state' = "sip_online" \/ Queued("CALL_ACK", cid)')
            => Established(cid)' \/ Queued("CALL_CLOSED", cid)'
    BY <1>6, <2>2 DEF GoesOn, Established, Queued
  <2> QED BY <1>6, <2>1, <2>3 DEF GoesOn, TicketInv, TicketKept
<1> QED BY <1>1, <1>2, <1>3, <1>4, <1>5, <1>6 DEF PhoneEffect, GoesOn

\* A step of the phone keeps the invariant.
LEMMA PhoneCalls ==
    ASSUME TypeOK, CallInv, PhoneEffect
    PROVE  CallInv'
BY PhoneQueue, PhonePlane, PhoneTicket DEF CallInv

\* A phone that leaves a conversation leaves it logged: a release that closes no ticket
\* comes only after the event that did.
LEMMA PhoneLogs ==
    ASSUME TypeOK, CallInv, PhoneEffect,
           state \in {"sip_online", "sip_initiated_clearing"}, state' \notin AboveRegistered
    PROVE  history'[cid] = 1
<1> USE DEF CallInv
<1>1. state \in AboveRegistered
    BY DEF AboveRegistered, HangUpStates
<1>2. LeavesCall
    BY <1>1 DEF PhoneEffect, StaysFree, CallsOut, StartsRinging, GoesOn, Advance, HangsUp,
                AboveRegistered, HangUpStates, Outgoing
<1>3. CASE tickHangupCause
    BY <1>1, <1>3, HangupLogs
<1>4. CASE UNCHANGED ticketVars /\ Head(fifo).type = "CALL_RELEASED"
  <2>1. Read /\ Head(fifo).id = cid
    BY <1>2 DEF LeavesCall, ReadsEnd
  <2>2. ~Established(cid)
    <3>1. 1 \in 1..Len(fifo) /\ fifo[1] = Head(fifo) /\ IsCallEvent(fifo[1])
      BY <1>4, <2>1, HeadQueued, EventNames DEF IsCallEvent
    <3>2. calls[cid].tr = "free"
      BY <1>4, <2>1, <3>1 DEF QueueInv, EventsFit, Fits
    <3> QED BY <3>2 DEF Established
  <2>3. ASSUME NEW c, c = cid PROVE ~Queued("CALL_CLOSED", c)
    <3>1. ~Queued("CALL_CLOSED", c)'
      BY <1>4, <2>1, <2>3, ReleaseIsLast, EventNames
    <3> QED BY <1>4, <2>1, <3>1, QueuedRead
  <2>4. ~ticket.started
    BY <1>1, <2>2, <2>3 DEF TicketInv
  <2> QED BY <1>1, <1>4, <2>4 DEF TicketInv, ticketVars
<1> QED BY <1>2, <1>3, <1>4 DEF LeavesCall

-----------------------------------------------------------------------------
\* The phone as a single line.

\* The line in each state of the phone.
LEMMA LineStates ==
    ASSUME NEW s \in SipState
    PROVE  /\ s \in {"sip_outgoing_call_sent", "sip_outgoing_call_ringing"} => LineOf(s) = "dialling"
           /\ s = "sip_incoming_call_ringing" => LineOf(s) = "alerting"
           /\ s = "sip_incoming_call_acccepted" => LineOf(s) = "accepted"
           /\ s = "sip_online" => LineOf(s) = "talking"
           /\ s = "sip_initiated_clearing" => LineOf(s) = "clearing"
           /\ s \notin AboveRegistered => LineOf(s) = "idle"
           /\ s \in AboveRegistered => LineOf(s) # "idle"
BY DEF LineOf, AboveRegistered, HangUpStates

\* An idle line is disturbed, put right, or left alone.
LEMMA IdleLineStep ==
    ASSUME state \notin AboveRegistered, state' \notin AboveRegistered,
           LineOf(state) = "idle", LineOf(state') = "idle",
           media.faulty \/ media.session = NoCall, media'.faulty \/ media'.session = NoCall,
           media.faulty \in BOOLEAN, media'.faulty \in BOOLEAN
    PROVE  [Line!LineNext]_(Line!lineVars)
<1>1. CASE media'.faulty
    BY <1>1 DEF Line!LineNext, Line!Disturb
<1>2. CASE ~media'.faulty /\ media.faulty
    BY <1>2 DEF Line!LineNext, Line!Repair, Line!Silent
<1>3. CASE ~media'.faulty /\ ~media.faulty
    BY <1>3 DEF Line!lineVars
<1> QED BY <1>1, <1>2, <1>3

\* Every step of the phone is one of the line, or none.
LEMMA PhoneLineStep ==
    ASSUME TypeOK, TypeOK', CallInv, CallInv', PhoneEffect
    PROVE  [Line!LineNext]_(Line!lineVars)
<1> USE DEF CallInv
<1>1. state \in SipState /\ state' \in SipState
    BY DEF TypeOK, PhoneTypes
<1>2. state \in AboveRegistered => cid \in Cid
    BY DEF QueueInv, HasCall
<1>3. CASE StaysFree
  <2>1. LineOf(state) = "idle" /\ LineOf(state') = "idle"
    BY <1>1, <1>3, LineStates DEF StaysFree
  <2>2. media.faulty \/ media.session = NoCall
    BY <1>3 DEF StaysFree, PlaneInv
  <2>3. media.faulty \in BOOLEAN /\ media'.faulty \in BOOLEAN
    BY DEF TypeOK, PhoneTypes, Media
  <2> QED BY <1>1, <1>3, <2>1, <2>2, <2>3, IdleLineStep DEF StaysFree
<1>4. CASE CallsOut
  <2>1. LineOf(state) = "idle" /\ LineOf(state') = "dialling" /\ state' \in AboveRegistered
    BY <1>1, <1>4, LineStates DEF CallsOut, AboveRegistered, HangUpStates
  <2> QED BY <1>4, <2>1 DEF CallsOut, Line!LineNext, Line!Take, Line!Silent
<1>5. CASE StartsRinging
  <2>1. LineOf(state) = "idle" /\ LineOf(state') = "alerting" /\ state' \in AboveRegistered
    BY <1>1, <1>5, LineStates DEF StartsRinging, AboveRegistered, HangUpStates
  <2>2. cid' \in Cid
    BY <2>1 DEF QueueInv, HasCall
  <2> QED BY <1>5, <2>1, <2>2 DEF StartsRinging, Line!LineNext, Line!Take, Line!Hears
<1>6. CASE HangsUp
  <2>1. /\ LineOf(state) \in {"dialling", "alerting", "talking"} /\ LineOf(state') = "clearing"
        /\ state \in AboveRegistered /\ state' \in AboveRegistered
    BY <1>1, <1>6, LineStates DEF HangsUp, AboveRegistered, HangUpStates
  <2> QED BY <1>6, <2>1 DEF HangsUp, Line!LineNext, Line!HangUp
<1>7. CASE LeavesCall
  <2>1. LineOf(state) # "idle" /\ LineOf(state') = "idle"
    BY <1>1, <1>7, LineStates DEF LeavesCall
  <2> QED BY <1>7, <2>1 DEF LeavesCall, Line!LineNext, Line!Release, Line!Silent
<1>8. CASE GoesOn
  <2>1. state \in AboveRegistered /\ state' \in AboveRegistered /\ cid' = cid
    BY <1>8 DEF GoesOn, Advance, AboveRegistered, HangUpStates
  <2>2. /\ media'.faulty = media.faulty
        /\ media'.session = media.session \/ (state \in Outgoing /\ media'.session = cid)
    BY <1>8 DEF GoesOn
  <2>3. CASE state' = state \/ (state \in Outgoing /\ state' = "sip_outgoing_call_ringing")
    <3>1. CASE state \in {"sip_outgoing_call_sent", "sip_outgoing_call_ringing"}
      <4>1. LineOf(state) = "dialling" /\ LineOf(state') = "dialling"
        BY <1>1, <2>3, <3>1, LineStates
      <4> QED BY <2>1, <2>2, <4>1 DEF Line!LineNext, Line!Progress, Line!Hears, Line!lineVars
    <3>2. CASE state = "sip_initiated_clearing"
      <4>1. LineOf(state) = "clearing" /\ LineOf(state') \in {"clearing", "dialling"}
        BY <1>1, <2>3, <3>2, LineStates
      <4> QED BY <2>1, <2>2, <4>1 DEF Line!LineNext, Line!Cross, Line!Hears
    <3>3. CASE state \notin Outgoing
      BY <2>1, <2>2, <2>3, <3>3 DEF Line!lineVars
    <3> QED BY <3>1, <3>2, <3>3 DEF Outgoing
  <2>4. CASE state \in Outgoing /\ state' = "sip_online" /\ (media.faulty \/ media'.session = cid)
    <3>1. LineOf(state) \in {"dialling", "clearing"} /\ LineOf(state') = "talking"
      BY <1>1, <2>4, LineStates DEF Outgoing
    <3> QED BY <2>1, <2>2, <2>4, <3>1 DEF Line!LineNext, Line!Talk, Line!Cross, Line!Hears
  <2>5. CASE state = "sip_incoming_call_acccepted" /\ state' = "sip_online"
    <3>1. LineOf(state) = "accepted" /\ LineOf(state') = "talking"
      BY <1>1, <2>5, LineStates
    <3>2. media.faulty \/ media'.session = cid
      BY <2>1, <2>2, <2>5 DEF PlaneInv, WithSession
    <3> QED BY <2>1, <2>2, <3>1, <3>2 DEF Line!LineNext, Line!Talk, Line!Hears
  <2>6. CASE state = "sip_incoming_call_ringing" /\ state' = "sip_incoming_call_acccepted"
    <3>1. LineOf(state) = "alerting" /\ LineOf(state') = "accepted"
      BY <1>1, <2>6, LineStates
    <3>2. media'.session = media.session
      BY <2>2, <2>6 DEF Outgoing
    <3> QED BY <2>1, <2>2, <3>1, <3>2 DEF Line!LineNext, Line!Accept
  <2> QED BY <1>8, <2>3, <2>4, <2>5, <2>6 DEF GoesOn, Advance
<1> QED BY <1>3, <1>4, <1>5, <1>6, <1>7, <1>8 DEF PhoneEffect

\* What the device and its test do is a disturbance of the line, its repair, or nothing.
LEMMA SoundLineStep ==
    ASSUME TypeOK, TypeOK', CallInv, SoundStep
    PROVE  [Line!LineNext]_(Line!lineVars)
<1>1. /\ UNCHANGED <<state, cid>> /\ state \in SipState
      /\ media.faulty \in BOOLEAN /\ media'.faulty \in BOOLEAN
    BY DEF SoundStep, TypeOK, PhoneTypes, Media
<1>2. CASE media'.session = media.session /\ media'.faulty = media.faulty
    BY <1>1, <1>2 DEF Line!lineVars
<1>3. CASE media'.session = NoCall /\ (media'.faulty <=> state \in AboveRegistered)
  <2>1. CASE state \in AboveRegistered
    BY <1>1, <1>3, <2>1 DEF Line!LineNext, Line!Disturb
  <2>2. CASE state \notin AboveRegistered
    <3>1. LineOf(state) = "idle" /\ (media.faulty \/ media.session = NoCall)
      BY <1>1, <2>2, LineStates DEF CallInv, PlaneInv
    <3> QED BY <1>1, <1>3, <2>2, <3>1, IdleLineStep
  <2> QED BY <2>1, <2>2
<1> QED BY <1>2, <1>3 DEF SoundStep

-----------------------------------------------------------------------------
\* What the methods do to the calls and to the media.

\* The table cs continues the lives of the calls and leaves conversations alone.
Continues(cs) ==
    \A c \in Cid : /\ Evolves(calls[c], cs[c])
                   /\ Idle(calls[c]) => Idle(cs[c])
                   /\ cs[c].tr = "free" => calls[c].tr = "free"
                   /\ Established(c) => cs[c].tr \in {"answered", "accepted"} /\ cs[c].dlg = "live"

\* So does the table itself, and the one eXosip_automatic_action leaves.
LEMMA ContinuesTables ==
    ASSUME TypeOK
    PROVE  /\ Continues(calls) /\ Continues(AutomaticCalls)
           /\ calls \in [Cid -> Call] /\ AutomaticCalls \in [Cid -> Call]
<1>1. Continues(calls)
    BY DEF Continues, Evolves, Established
<1>2. Continues(AutomaticCalls)
    BY AutomaticEvolves DEF Continues
<1> QED BY <1>1, <1>2, AutomaticTypes DEF TypeOK, StackTypes

\* What a step that leaves such a table does to the calls.
LEMMA ContinuesStep ==
    ASSUME NEW cs, Continues(cs), calls' = cs
    PROVE  /\ Evolve
           /\ \A c \in Cid : /\ IdleKept(c)
                             /\ calls'[c].tr = "free" => calls[c].tr = "free"
                             /\ Established(c) => Established(c)'
BY DEF Continues, Evolve, IdleKept, Established

\* eXosip_call_terminate refuses an INVITE, or frees the dialog.
LEMMA TerminateLife ==
    ASSUME NEW cs \in [Cid -> Call], NEW c \in Cid, NEW d
    PROVE  LET k == cs[c]
               l == Terminate(cs, c, d)[c]
           IN  \/ l = k
               \/ k.tr \in {"invited", "refusing"} /\ l.tr = "refusing" /\ l.dlg = k.dlg
               \/ l.tr = k.tr /\ l.dlg = "dead"
BY DEF Terminate, Call

\* Of the lives of the calls only a conversation ends that way.
LEMMA TerminateEvolves ==
    ASSUME TypeOK, NEW cs \in [Cid -> Call], Continues(cs), NEW b, NEW d,
           calls' = cs \/ calls' = Terminate(cs, b, d)
    PROVE  /\ Evolve
           /\ \A c \in Cid : IdleKept(c) /\ (calls'[c].tr = "free" => calls[c].tr = "free")
<1>1. ASSUME NEW c \in Cid
      PROVE  /\ Evolves(cs[c], calls'[c])
             /\ Idle(cs[c]) => Idle(calls'[c])
             /\ calls'[c].tr = "free" => cs[c].tr = "free"
  <2> DEFINE k == cs[c]
             l == calls'[c]
  <2>1. \/ l = k
        \/ k.tr \in {"invited", "refusing"} /\ l.tr = "refusing" /\ l.dlg = k.dlg
        \/ l.tr = k.tr /\ l.dlg = "dead"
    BY TerminateLife, TerminateKeeps
  <2> HIDE DEF k, l
  <2>2. Evolves(k, l) /\ (Idle(k) => Idle(l)) /\ (l.tr = "free" => k.tr = "free")
    BY <2>1 DEF Evolves, Idle, Over, PastAnswer, Pending
  <2> QED BY <2>2 DEF k, l
<1>2. \A c \in Cid : Evolves(calls[c], calls'[c])
    BY <1>1 DEF Continues, Evolves
<1> QED BY <1>1, <1>2 DEF Continues, Evolve, IdleKept

\* The hooks of setState: touch the ring only.
LEMMA setStatePlane ==
    ASSUME NEW s, NEW m \in Media, setState(s, m)
    PROVE  /\ state' = s /\ media'.session = m.session /\ media'.faulty = m.faulty
           /\ media'.transport = m.transport /\ media'.localSdp = m.localSdp
<1>1. media' \in {m, startRing(m, "caller"), stopRing(m)} /\ state' = s
    BY DEF setState
<1> QED BY <1>1 DEF startRing, stopRing, Media

\* What the methods of UserPlane.m leave of the session, its transport and the local SDP.
LEMMA PlaneOf ==
    ASSUME NEW m \in Media
    PROVE  /\ endUserPlane(m) \in Media /\ endUserPlane(m).session = NoCall
           /\ endUserPlane(m).faulty = FALSE
           /\ setupAndGetLocalSdp(m) \in Media /\ setupAndGetLocalSdp(m).session = m.session
           /\ setupAndGetLocalSdp(m).faulty = m.faulty
           /\ setupAndGetLocalSdp(m).localSdp => setupAndGetLocalSdp(m).transport
<1>1. endUserPlane(m) \in Media /\ endUserPlane(m).session = NoCall /\ endUserPlane(m).faulty = FALSE
    BY DEF endUserPlane, Media
<1>2. setupAndGetLocalSdp(m) \in Media
    BY setupTypes
<1> QED BY <1>1, <1>2 DEF setupAndGetLocalSdp, Media

LEMMA SetupOf ==
    ASSUME NEW m \in Media, NEW c \in Cid
    PROVE  /\ setupWithLocalSdp(m, c) \in Media
           /\ setupWithLocalSdp(m, c).session = IF m.session = NoCall THEN c ELSE m.session
           /\ setupWithLocalSdp(m, c).transport = m.transport
           /\ setupWithLocalSdp(m, c).localSdp = m.localSdp
           /\ setupWithLocalSdp(m, c).faulty = m.faulty
BY DEF setupWithLocalSdp, Media

LEMMA IncomingOf ==
    ASSUME NEW m \in Media, NEW c \in Cid
    PROVE  /\ setupIncoming(m, c) \in Media
           /\ setupIncoming(m, c).session = IF m.session = NoCall THEN c ELSE m.session
           /\ setupIncoming(m, c).transport = m.transport
           /\ setupIncoming(m, c).faulty = m.faulty
BY SetupOf DEF setupIncoming, Media

\* The media of a call whose device failed.
LEMMA FaultyPlane ==
    ASSUME NEW m \in Media
    PROVE  [m EXCEPT !.faulty = TRUE].faulty = TRUE
BY DEF Media

\* tickStart gives a call a ticket and no entry.
LEMMA tickStartTicket ==
    ASSUME TypeOK, NEW c \in Cid, tickStart(c)
    PROVE  ticket'.started /\ ticket'.call = c /\ history'[c] = 0
BY NoCallAssumption DEF tickStart, clearInfo, TypeOK, PhoneTypes

-----------------------------------------------------------------------------
\* Every command and every handler has that effect.

\* A step of a phone without a call that touches neither calls nor session, or in which
\* the device fails.
LEMMA FreePhone ==
    ASSUME TypeOK, CallInv, state \notin AboveRegistered, state' \notin AboveRegistered,
           UNCHANGED fifo \/ Read, NEW cs, Continues(cs), calls' = cs,
           media'.faulty \/ (media'.session = media.session /\ media'.faulty = media.faulty)
    PROVE  PhoneEffect
<1>1. /\ Evolve
      /\ \A c \in Cid : IdleKept(c) /\ (calls'[c].tr = "free" => calls[c].tr = "free")
    BY ContinuesStep
<1>2. StaysFree
    BY <1>1 DEF StaysFree, CallInv, PlaneInv
<1> QED BY <1>1, <1>2 DEF PhoneEffect

\* makeOutCall: either way nothing is heard yet.
LEMMA makeOutCallPhone ==
    ASSUME TypeOK, CallInv, state \notin AboveRegistered, UNCHANGED fifo \/ Read,
           NEW cs \in [Cid -> Call], Continues(cs), makeOutCall(cs)
    PROVE  PhoneEffect
<1> DEFINE m == endUserPlane(media)
           n == setupAndGetLocalSdp(m)
<1>1. media \in Media
    BY DEF TypeOK, PhoneTypes
<1>2. m \in Media /\ m.session = NoCall /\ m.faulty = FALSE
    BY <1>1 DEF endUserPlane, Media
<1>3. n \in Media
    BY <1>2, setupTypes
<1>4. n.session = NoCall /\ n.faulty = FALSE /\ (n.localSdp => n.transport)
    BY <1>2, <1>3 DEF setupAndGetLocalSdp, Media
<1> HIDE DEF m, n
<1>7. "sip_registered" \notin AboveRegistered
    BY DEF AboveRegistered, HangUpStates
<1>8. CASE calls' = cs /\ setState("sip_registered", media)
  <2>1. state' \notin AboveRegistered /\ media'.session = media.session
        /\ media'.faulty = media.faulty
    BY <1>1, <1>7, <1>8, setStatePlane
  <2> QED BY <1>8, <2>1, FreePhone
<1>5. CASE calls' = cs /\ setState("sip_registered", n)
  <2>1. state' \notin AboveRegistered /\ media'.session = NoCall
    BY <1>3, <1>4, <1>5, <1>7, setStatePlane
  <2>2. Evolve /\ \A c \in Cid : IdleKept(c) /\ (calls'[c].tr = "free" => calls[c].tr = "free")
    BY <1>5, ContinuesStep
  <2>3. StaysFree
    BY <2>1, <2>2 DEF StaysFree
  <2> QED BY <2>2, <2>3 DEF PhoneEffect
<1>6. ASSUME NEW c \in Cid, Unused(c), tickStart(c), setState("sip_outgoing_call_sent", n),
             calls' = [cs EXCEPT ![c] = [FreeCall EXCEPT !.tr = "calling"]], cid' = c
      PROVE  PhoneEffect
  <2>1. /\ state' = "sip_outgoing_call_sent" /\ media'.session = NoCall /\ ~media'.faulty
        /\ media'.localSdp => media'.transport
    BY <1>3, <1>4, <1>6, setStatePlane
  <2>2. calls'[c].tr = "calling" /\ \A b \in Cid : b # c => calls'[b] = cs[b]
    BY <1>6 DEF FreeCall
  <2>3. /\ Evolve
        /\ \A b \in Cid : /\ b # c => IdleKept(b)
                          /\ calls'[b].tr = "free" => calls[b].tr = "free"
    BY <1>6, <2>2 DEF Continues, Evolve, IdleKept
  <2>4. ticket'.started /\ ticket'.call = c /\ history'[c] = 0
    BY <1>6, tickStartTicket
  <2>5. CallsOut
    BY <1>6, <2>1, <2>2, <2>3, <2>4 DEF CallsOut
  <2> QED BY <2>3, <2>5 DEF PhoneEffect
<1> QED BY <1>5, <1>6, <1>8 DEF makeOutCall, m, n

\* A step that leaves a phone with a call alone, or closes its ticket.
LEMMA BusyPhone ==
    ASSUME TypeOK, state \in AboveRegistered, UNCHANGED <<state, cid, media>>,
           UNCHANGED ticketVars \/ tickHangupCause,
           UNCHANGED fifo \/ (Read /\ ~ReadsEnd), NEW cs, Continues(cs), calls' = cs, cid \in Cid
    PROVE  PhoneEffect
<1>1. /\ Evolve
      /\ \A c \in Cid : /\ IdleKept(c) /\ (calls'[c].tr = "free" => calls[c].tr = "free")
                        /\ Established(c) => Established(c)'
    BY ContinuesStep
<1>2. ~ReadsEnd
    BY NothingRead DEF ReadsEnd
<1>3. TicketKept \/ tickHangupCause
    BY DEF TicketKept, ticketVars
<1>4. Established(cid) => Established(cid)'
    BY <1>1 DEF Established
<1>5. GoesOn
    BY <1>1, <1>2, <1>3, <1>4 DEF GoesOn, Advance
<1> QED BY <1>1, <1>5 DEF PhoneEffect

\* The user's commands.
LEMMA UserPhone ==
    ASSUME TypeOK, CallInv, dialOutCall \/ hangUpCall \/ acceptCall
    PROVE  PhoneEffect
<1>0. /\ calls \in [Cid -> Call] /\ Continues(calls) /\ media \in Media
      /\ state \in AboveRegistered => cid \in Cid
    BY ContinuesTables DEF TypeOK, PhoneTypes, CallInv, QueueInv, HasCall
<1>1. CASE dialOutCall
  <2>1. state \notin AboveRegistered /\ UNCHANGED fifo
    BY <1>1 DEF dialOutCall, registerPhoneOnDemand, AboveRegistered, HangUpStates
  <2>2. CASE makeOutCall(calls)
    BY <1>0, <2>1, <2>2, makeOutCallPhone
  <2>3. CASE registerPhoneOnDemand(TRUE, Expires)
    <3>1. PICK s \in Registering \cup {"sip_off"} : setState(s, media)
      BY <2>3 DEF registerPhoneOnDemand, Registering
    <3>2. state' \notin AboveRegistered /\ media'.session = media.session
          /\ media'.faulty = media.faulty
      BY <1>0, <3>1, setStatePlane DEF Registering, AboveRegistered, HangUpStates
    <3> QED BY <1>0, <2>1, <2>3, <3>2, FreePhone DEF registerPhoneOnDemand
  <2> QED BY <1>1, <2>2, <2>3 DEF dialOutCall
<1>2. CASE hangUpCall
  <2>1. /\ UNCHANGED <<fifo, cid>> /\ state \in HangUpStates /\ tickHangupCause
        /\ calls' = Terminate(calls, cid, did)
        /\ setState("sip_initiated_clearing", media)
    BY <1>2 DEF hangUpCall, HangUp
  <2>2. /\ Evolve
        /\ \A c \in Cid : IdleKept(c) /\ (calls'[c].tr = "free" => calls[c].tr = "free")
    BY <1>0, <2>1, TerminateEvolves
  <2>3. /\ state' = "sip_initiated_clearing" /\ media'.session = media.session
        /\ media'.faulty = media.faulty
        /\ media'.transport = media.transport /\ media'.localSdp = media.localSdp
    BY <1>0, <2>1, setStatePlane
  <2>4. HangsUp
    BY <2>1, <2>2, <2>3 DEF HangsUp
  <2> QED BY <2>1, <2>2, <2>4 DEF PhoneEffect
<1>3. CASE acceptCall
  <2>1. /\ UNCHANGED <<fifo, cid, ticketVars>> /\ state = "sip_incoming_call_ringing"
        /\ calls' = SendFinal(calls, cid, "accepted")
        /\ setState("sip_incoming_call_acccepted", media)
    BY <1>3 DEF acceptCall
  <2>2. state \in AboveRegistered /\ cid \in Cid
    BY <1>0, <2>1 DEF AboveRegistered, HangUpStates
  <2>3. /\ \A c \in Cid : c # cid => calls'[c] = calls[c]
        /\ \/ calls'[cid] = calls[cid]
           \/ /\ calls[cid].tr = "invited" /\ calls'[cid].tr = "accepted"
              /\ calls'[cid].dlg = calls[cid].dlg
    BY <1>0, <2>1, <2>2 DEF SendFinal, Call
  <2>4. Evolves(calls[cid], calls'[cid]) /\ (calls'[cid].tr = "free" => calls[cid].tr = "free")
    BY <2>3 DEF Evolves, Over, PastAnswer, Pending
  <2>5. /\ Evolve
        /\ \A c \in Cid : /\ c # cid => IdleKept(c)
                          /\ calls'[c].tr = "free" => calls[c].tr = "free"
    BY <2>3, <2>4 DEF Evolve, Evolves, IdleKept
  <2>6. Established(cid) => Established(cid)'
    BY <2>1, <2>3 DEF Established
  <2>7. /\ state' = "sip_incoming_call_acccepted" /\ media'.session = media.session
        /\ media'.faulty = media.faulty
        /\ media'.transport = media.transport /\ media'.localSdp = media.localSdp
    BY <1>0, <2>1, setStatePlane
  <2>8. ~ReadsEnd /\ TicketKept
    BY <2>1, NothingRead DEF ReadsEnd, TicketKept, ticketVars
  <2>9. GoesOn
    BY <2>1, <2>2, <2>5, <2>6, <2>7, <2>8 DEF GoesOn, Advance
  <2> QED BY <2>1, <2>5, <2>9 DEF PhoneEffect
<1> QED BY <1>1, <1>2, <1>3

\* Registration events leave a phone with a call alone, unless a 403 turns it off.
LEMMA RegistrationPhone ==
    ASSUME TypeOK, CallInv, CallKept, RegistrationFailure \/ RegistrationSuccess
    PROVE  PhoneEffect
<1>0. /\ AutomaticCalls \in [Cid -> Call] /\ Continues(AutomaticCalls) /\ media \in Media
      /\ state \in AboveRegistered => cid \in Cid
    BY ContinuesTables DEF TypeOK, PhoneTypes, CallInv, QueueInv, HasCall
<1>1. Read /\ Head(fifo).type \in {"REGISTRATION_SUCCESS", "REGISTRATION_FAILURE"}
    BY DEF RegistrationFailure, RegistrationSuccess, Reads, Read
<1>2. ~ReadsEnd /\ Head(fifo).type \notin CallEventType
    BY <1>1 DEF ReadsEnd, Terminal, CallEventType
<1>3. ASSUME NEW s, setState(s, media), calls' = AutomaticCalls, UNCHANGED <<cid, ticketVars>>,
             s = state \/ s \notin AboveRegistered
      PROVE  PhoneEffect
  <2>1. state' = s /\ media'.session = media.session /\ media'.faulty = media.faulty
    BY <1>0, <1>3, setStatePlane
  <2>2. CASE state \in AboveRegistered
    <3>1. s = state
      BY <1>2, <1>3, <2>1, <2>2 DEF CallKept
    <3>2. UNCHANGED <<state, cid, media>>
      BY <1>3, <3>1 DEF setState
    <3> QED BY <1>0, <1>1, <1>2, <1>3, <2>2, <3>2, BusyPhone
  <2>3. CASE state \notin AboveRegistered
    BY <1>0, <1>1, <1>3, <2>1, <2>3, FreePhone
  <2> QED BY <2>2, <2>3
<1>4. CASE RegistrationFailure
  <2>1. PICK code, resent : setState(AfterRegistrationFailure(code, resent), media)
    BY <1>4 DEF RegistrationFailure
  <2>2. \/ AfterRegistrationFailure(code, resent) = state
        \/ AfterRegistrationFailure(code, resent) \notin AboveRegistered
    BY DEF AfterRegistrationFailure, AboveRegistered, HangUpStates
  <2> QED BY <1>3, <1>4, <2>1, <2>2 DEF RegistrationFailure
<1>5. CASE RegistrationSuccess
  <2>1. CASE state \in {"sip_register2call_retry", "sip_register2call_in_progress"}
    <3>1. makeOutCall(AutomaticCalls) /\ state \notin AboveRegistered
      BY <1>5, <2>1 DEF RegistrationSuccess, AboveRegistered, HangUpStates
    <3> QED BY <1>0, <1>1, <3>1, makeOutCallPhone
  <2>2. CASE state \notin {"sip_register2call_retry", "sip_register2call_in_progress"}
    <3>1. /\ setState(AfterRegistrationSuccess, media) /\ calls' = AutomaticCalls
          /\ UNCHANGED <<cid, ticketVars>>
      BY <1>5, <2>2 DEF RegistrationSuccess
    <3>2. AfterRegistrationSuccess = state \/ AfterRegistrationSuccess \notin AboveRegistered
      BY DEF AfterRegistrationSuccess, AboveRegistered, HangUpStates
    <3> QED BY <1>3, <3>1, <3>2
  <2> QED BY <2>1, <2>2
<1> QED BY <1>4, <1>5

\* INVITEs and events of other calls: a phone with a call refuses, and hears only of its own.
LEMMA OtherCallPhone ==
    ASSUME TypeOK, CallInv, RefuseInvite \/ AcceptInvite \/ OtherCallEvent
    PROVE  PhoneEffect
<1>0. /\ AutomaticCalls \in [Cid -> Call] /\ Continues(AutomaticCalls) /\ media \in Media
      /\ state \in AboveRegistered => cid \in Cid
    BY ContinuesTables DEF TypeOK, PhoneTypes, CallInv, QueueInv, HasCall
<1>1. Read /\ Head(fifo).id # cid /\ ~ReadsEnd
    BY DEF RefuseInvite, AcceptInvite, OtherCallEvent, Reads, Read, ReadsEnd
<1>2. ASSUME NEW cs, Continues(cs), calls' = cs, UNCHANGED <<state, cid, media, ticketVars>>
      PROVE  PhoneEffect
  <2>1. CASE state \in AboveRegistered
    BY <1>0, <1>1, <1>2, <2>1, BusyPhone
  <2>2. CASE state \notin AboveRegistered
    BY <1>0, <1>1, <1>2, <2>2, FreePhone
  <2> QED BY <2>1, <2>2
<1>3. CASE OtherCallEvent
    BY <1>0, <1>2, <1>3 DEF OtherCallEvent, fsmVars
<1>4. CASE RefuseInvite
  <2> DEFINE c == Head(fifo).id
             cs == SendFinal(AutomaticCalls, c, "refusing")
  <2>1. ASSUME NEW b \in Cid
        PROVE  \/ cs[b] = AutomaticCalls[b]
               \/ /\ AutomaticCalls[b].tr = "invited" /\ cs[b].tr = "refusing"
                  /\ cs[b].dlg = AutomaticCalls[b].dlg
    BY <1>0 DEF SendFinal, Call
  <2> HIDE DEF c, cs
  <2>2. ASSUME NEW b \in Cid
        PROVE  /\ Evolves(calls[b], cs[b])
               /\ Idle(calls[b]) => Idle(cs[b])
               /\ cs[b].tr = "free" => calls[b].tr = "free"
               /\ Established(b) => cs[b].tr \in {"answered", "accepted"} /\ cs[b].dlg = "live"
    <3>1. CASE cs[b] = AutomaticCalls[b]
      BY <1>0, <3>1 DEF Continues
    <3>2. CASE /\ AutomaticCalls[b].tr = "invited" /\ cs[b].tr = "refusing"
               /\ cs[b].dlg = AutomaticCalls[b].dlg
      BY <1>0, <3>2 DEF Continues, Evolves, Over, Idle, PastAnswer, Pending
    <3> QED BY <2>1, <3>1, <3>2
  <2>3. Continues(cs)
    BY <2>2 DEF Continues
  <2>4. calls' = cs /\ UNCHANGED <<state, cid, media, ticketVars>>
    BY <1>4 DEF RefuseInvite, fsmVars, c, cs
  <2> QED BY <1>2, <2>3, <2>4
<1>5. CASE AcceptInvite
  <2> DEFINE c == Head(fifo).id
             m == setupAndGetLocalSdp(media)
             n == setupIncoming(m, c)
  <2>1. /\ c \in Cid /\ Head(fifo).type = "CALL_INVITE" /\ cid' = c /\ c = Head(fifo).id
        /\ state = "sip_registered" /\ calls' = AutomaticCalls
    BY <1>1, <1>5, HeadTypes DEF AcceptInvite, Reads, CallEvent, CanTakeCall, Read
  <2> DEFINE left == [setupWithLocalSdp(m, c) EXCEPT !.faulty = TRUE]
  <2>2. \/ media' \in {m, left} /\ UNCHANGED state
        \/ /\ setState("sip_incoming_call_ringing", n) /\ tickStart(c)
           /\ ~setupThrows(m, Head(fifo).info = "sdp")
    BY <1>5 DEF AcceptInvite
  <2> HIDE DEF c
  <2>3. state \notin AboveRegistered /\ (media.faulty \/ media.session = NoCall)
    BY <2>1 DEF AboveRegistered, HangUpStates, CallInv, PlaneInv
  <2>4. /\ m \in Media /\ m.session = media.session /\ m.faulty = media.faulty
        /\ m.localSdp => m.transport
    BY <1>0, <2>1, PlaneOf
  <2> HIDE DEF m
  <2>7. left.faulty = TRUE
    <3>1. setupWithLocalSdp(m, c) \in Media
      BY <2>1, <2>4, SetupOf
    <3> QED BY <3>1, FaultyPlane
  <2> HIDE DEF left
  <2>5. CASE media' \in {m, left} /\ UNCHANGED state
    <3>1. media'.faulty \/ (media'.session = media.session /\ media'.faulty = media.faulty)
      BY <2>4, <2>5, <2>7
    <3>2. state' \notin AboveRegistered
      BY <2>3, <2>5
    <3> QED BY <1>0, <1>1, <2>1, <2>3, <3>1, <3>2, FreePhone
  <2>6. CASE /\ setState("sip_incoming_call_ringing", n) /\ tickStart(c)
             /\ ~setupThrows(m, Head(fifo).info = "sdp")
    <3>1. m.session = NoCall => m.transport
      BY <2>4, <2>6 DEF setupThrows, Media
    <3>2. /\ n \in Media /\ n.faulty = media.faulty
          /\ media.faulty \/ (n.session = c /\ n.transport)
      <4>1. /\ n \in Media /\ n.faulty = m.faulty /\ n.transport = m.transport
            /\ n.session = IF m.session = NoCall THEN c ELSE m.session
        BY <2>1, <2>4, IncomingOf
      <4> QED BY <2>3, <2>4, <3>1, <4>1
    <3> HIDE DEF n
    <3>3. /\ state' = "sip_incoming_call_ringing" /\ media'.faulty = media.faulty
          /\ media.faulty \/ (media'.session = c /\ media'.transport)
      BY <2>6, <3>2, setStatePlane
    <3>4. ticket'.started /\ ticket'.call = c /\ history'[c] = 0
      BY <2>1, <2>6, tickStartTicket
    <3>5. /\ Evolve
          /\ \A b \in Cid : IdleKept(b) /\ (calls'[b].tr = "free" => calls[b].tr = "free")
      BY <1>0, <2>1, ContinuesStep
    <3>6. StartsRinging
      BY <1>1, <2>1, <2>3, <3>3, <3>4, <3>5 DEF StartsRinging
    <3> QED BY <1>1, <3>5, <3>6 DEF PhoneEffect
  <2> QED BY <2>2, <2>5, <2>6
<1> QED BY <1>3, <1>4, <1>5

\* An event that moves a call forward finds the phone with that call.
LEMMA ProgressIsOwn ==
    ASSUME TypeOK, CallInv, Read, Progress(Head(fifo))
    PROVE  /\ state \in AboveRegistered /\ cid \in Cid /\ Head(fifo).id = cid
           /\ OfOutgoing(Head(fifo)) => state \in Outgoing
           /\ Head(fifo).type = "CALL_ANSWERED" => PastAnswer(calls[cid])
           /\ ~ReadsEnd
<1>1. 1 \in 1..Len(fifo) /\ fifo[1] = Head(fifo) /\ IsCallEvent(fifo[1])
    BY HeadQueued, EventNames DEF Progress, IsCallEvent
<1>2. /\ Fits(fifo[1], calls[fifo[1].id])
      /\ fifo[1].id = cid /\ state \in AboveRegistered
      /\ OfOutgoing(fifo[1]) => state \in Outgoing
    BY <1>1 DEF CallInv, QueueInv, EventsFit
<1> QED BY <1>1, <1>2 DEF Fits, CallInv, QueueInv, HasCall, ReadsEnd, Terminal, Progress

\* The phone goes on with its call, its calls as eXosip_automatic_action left them.
LEMMA OwnCallPhone ==
    ASSUME TypeOK, CallInv, Read, ~ReadsEnd, state \in AboveRegistered, cid' = cid,
           calls' = AutomaticCalls, Advance, TicketKept \/ tickHangupCause,
           media'.transport = media.transport, media'.localSdp = media.localSdp,
           media'.faulty = media.faulty,
           \/ media'.session = media.session
           \/ state \in Outgoing /\ media'.session = cid /\ media.localSdp
    PROVE  PhoneEffect
<1>1. /\ Evolve
      /\ \A c \in Cid : /\ IdleKept(c) /\ (calls'[c].tr = "free" => calls[c].tr = "free")
                        /\ Established(c) => Established(c)'
    BY ContinuesTables, ContinuesStep
<1>2. cid \in Cid
    BY DEF CallInv, QueueInv, HasCall
<1>3. Established(cid) => Established(cid)'
    BY <1>1, <1>2 DEF Established
<1>4. GoesOn
    BY <1>1, <1>3 DEF GoesOn
<1> QED BY <1>1, <1>4 DEF PhoneEffect

\* EndCall, at the event that ends the phone's call.
LEMMA EndCallPhone ==
    ASSUME TypeOK, CallInv, ReadsEnd, EndCall, cid' = cid,
           tickHangupCause \/ (UNCHANGED ticketVars /\ Head(fifo).type = "CALL_RELEASED")
    PROVE  PhoneEffect
<1>1. /\ AutomaticCalls \in [Cid -> Call] /\ Continues(AutomaticCalls) /\ media \in Media
      /\ Read
    BY ContinuesTables DEF TypeOK, PhoneTypes, ReadsEnd
<1>2. endUserPlane(media) \in Media /\ endUserPlane(media).session = NoCall
      /\ endUserPlane(media).faulty = FALSE
    BY <1>1 DEF endUserPlane, Media
<1>3. /\ Evolve
      /\ \A c \in Cid : IdleKept(c) /\ (calls'[c].tr = "free" => calls[c].tr = "free")
  <2>1. calls' = AutomaticCalls \/ calls' = Terminate(AutomaticCalls, cid, did)
    BY DEF EndCall, terminateCall
  <2> QED BY <1>1, <2>1, TerminateEvolves
<1>4. CASE state \in AboveRegistered
  <2>1. PICK s \in {"sip_unregister_in_progress", "sip_registered"} :
            setState(s, endUserPlane(media))
    BY <1>4 DEF EndCall, terminateCall
  <2>2. state' \notin AboveRegistered /\ media'.session = NoCall /\ ~media'.faulty
    BY <1>2, <2>1, setStatePlane DEF AboveRegistered, HangUpStates
  <2>3. LeavesCall
    BY <1>3, <1>4, <2>2 DEF LeavesCall
  <2> QED BY <1>1, <1>3, <2>3 DEF PhoneEffect
<1>5. CASE state \notin AboveRegistered
  <2>1. StaysFree
    BY <1>2, <1>3, <1>5 DEF EndCall, StaysFree
  <2> QED BY <1>1, <1>3, <2>1 DEF PhoneEffect
<1> QED BY <1>4, <1>5

\* CALL_RINGING, CALL_ANSWERED and CALL_ACK.
LEMMA ProgressPhone ==
    ASSUME TypeOK, CallInv, CallRinging \/ CallAnswered \/ CallAck
    PROVE  PhoneEffect
<1>1. /\ Read /\ Progress(Head(fifo)) /\ Head(fifo).id = cid
      /\ cid' = cid /\ calls' = AutomaticCalls
    BY DEF CallRinging, CallAnswered, CallAck, ReadsCurrent, Reads, Read, Progress
<1>2. state \in AboveRegistered /\ cid \in Cid /\ ~ReadsEnd /\ media \in Media
    BY <1>1, ProgressIsOwn DEF TypeOK, PhoneTypes
<1> DEFINE m == setupWithLocalSdp(media, cid)
<1>3. /\ m \in Media /\ m.session = IF media.session = NoCall THEN cid ELSE media.session
      /\ m.transport = media.transport /\ m.localSdp = media.localSdp
      /\ m.faulty = media.faulty
    BY <1>2, SetupOf
<1>4. media.session # NoCall => media.faulty \/ media.session = cid
    BY DEF CallInv, PlaneInv
<1>5. ASSUME NEW b, ~setupThrows(media, b)
      PROVE  /\ media.faulty \/ m.session = cid
             /\ m.session = media.session \/ (m.session = cid /\ media.localSdp)
  <2>1. media.session # NoCall \/ media.localSdp
    BY <1>5 DEF setupThrows
  <2>2. CASE media.session = NoCall
    BY <1>3, <2>1, <2>2
  <2>3. CASE media.session # NoCall
    BY <1>3, <1>4, <2>3
  <2> QED BY <2>2, <2>3
<1> HIDE DEF m
<1>6. CASE CallRinging
  <2>1. state \in Outgoing /\ UNCHANGED ticketVars
    BY <1>1, <1>6, ProgressIsOwn DEF CallRinging, ReadsCurrent, Reads, OfOutgoing
  <2>2. PICK x \in {media, m} : /\ setState("sip_outgoing_call_ringing", x)
                                /\ x = media \/ ~setupThrows(media, TRUE)
    BY <1>6 DEF CallRinging, m
  <2>3. /\ state' = "sip_outgoing_call_ringing" /\ media'.session = x.session
        /\ media'.faulty = media.faulty
        /\ media'.transport = media.transport /\ media'.localSdp = media.localSdp
    BY <1>2, <1>3, <2>2, setStatePlane
  <2>4. media'.session = media.session \/ (media'.session = cid /\ media.localSdp)
    BY <1>5, <2>2, <2>3
  <2>5. Advance /\ TicketKept
    BY <2>1, <2>3 DEF Advance, TicketKept, ticketVars
  <2> QED BY <1>1, <1>2, <2>1, <2>3, <2>4, <2>5, OwnCallPhone
<1>7. CASE CallAnswered
  <2>1. Head(fifo).type = "CALL_ANSWERED" /\ state \in Outgoing /\ PastAnswer(calls[cid])
    BY <1>1, <1>7, ProgressIsOwn DEF CallAnswered, ReadsCurrent, Reads, OfOutgoing
  <2>2. CASE UNCHANGED <<state, media, ticketVars>>
    <3>1. Advance /\ TicketKept
      BY <2>2 DEF Advance, TicketKept, ticketVars
    <3> QED BY <1>1, <1>2, <2>2, <3>1, OwnCallPhone
  <2>3. CASE /\ ~setupThrows(media, Head(fifo).info = "sdp")
             /\ media' = m /\ UNCHANGED <<state, ticketVars>>
    <3>1. Advance /\ TicketKept
      BY <2>3 DEF Advance, TicketKept, ticketVars
    <3>2. media'.session = media.session \/ (media'.session = cid /\ media.localSdp)
      BY <1>5, <2>3
    <3> QED BY <1>1, <1>2, <1>3, <2>1, <2>3, <3>1, <3>2, OwnCallPhone
  <2>4. CASE /\ ~setupThrows(media, Head(fifo).info = "sdp")
             /\ HasDialog(AutomaticCalls, cid, Head(fifo).did)
             /\ setState("sip_online", m)
             /\ IF state = "sip_online" THEN UNCHANGED ticketVars ELSE tickOnline
    <3>1. /\ state' = "sip_online" /\ media'.session = m.session /\ media'.faulty = media.faulty
          /\ media'.transport = media.transport /\ media'.localSdp = media.localSdp
      BY <1>3, <2>4, setStatePlane
    <3>2. TicketKept
      BY <2>4 DEF TicketKept, ticketVars, tickOnline, TypeOK, PhoneTypes, Ticket
    <3>3. AutomaticCalls[cid] = calls[cid] /\ calls[cid].dlg = "live"
      BY <1>2, <2>1, <2>4, AutomaticLife DEF PastAnswer, Pending, HasDialog
    <3>4. Established(cid)'
      BY <1>1, <2>1, <3>3 DEF Established, PastAnswer
    <3>5. Advance
      BY <1>1, <1>5, <2>1, <2>4, <3>1, <3>4 DEF Advance
    <3>6. media'.session = media.session \/ (media'.session = cid /\ media.localSdp)
      BY <1>5, <2>4, <3>1
    <3> QED BY <1>1, <1>2, <2>1, <3>1, <3>2, <3>5, <3>6, OwnCallPhone
  <2> QED BY <1>7, <2>2, <2>3, <2>4 DEF CallAnswered, m
<1>8. CASE CallAck
  <2>1. Queued("CALL_ACK", cid)
    BY <1>1, <1>8, HeadQueued DEF CallAck, ReadsCurrent, Reads
  <2>2. CASE UNCHANGED <<state, media, ticketVars>>
    <3>1. Advance /\ TicketKept
      BY <2>2 DEF Advance, TicketKept, ticketVars
    <3> QED BY <1>1, <1>2, <2>2, <3>1, OwnCallPhone
  <2>3. CASE state = "sip_incoming_call_acccepted" /\ setState("sip_online", media) /\ tickOnline
    <3>1. /\ state' = "sip_online" /\ media'.session = media.session
          /\ media'.faulty = media.faulty
          /\ media'.transport = media.transport /\ media'.localSdp = media.localSdp
      BY <1>2, <2>3, setStatePlane
    <3>2. Advance
      BY <2>1, <2>3, <3>1 DEF Advance
    <3>3. TicketKept
      BY <2>3 DEF TicketKept, tickOnline, TypeOK, PhoneTypes, Ticket
    <3> QED BY <1>1, <1>2, <3>1, <3>2, <3>3, OwnCallPhone
  <2> QED BY <1>8, <2>2, <2>3 DEF CallAck
<1> QED BY <1>6, <1>7, <1>8

\* Failures, CALL_CLOSED and CALL_RELEASED.
LEMMA EndingPhone ==
    ASSUME TypeOK, CallInv,
           CallRequestFailure \/ CallServerOrGlobalFailure \/ CallReleased \/ CallClosed
    PROVE  PhoneEffect
<1>1. Read /\ Head(fifo).id = cid /\ cid' = cid
    BY DEF CallRequestFailure, CallServerOrGlobalFailure, CallReleased, CallClosed,
           ReadsCurrent, Reads, Read, fsmVars
<1>2. ASSUME ~Terminal(Head(fifo)), calls' = AutomaticCalls, UNCHANGED <<state, media>>,
             UNCHANGED ticketVars \/ tickHangupCause
      PROVE  PhoneEffect
  <2>1. Continues(AutomaticCalls) /\ ~ReadsEnd /\ (state \in AboveRegistered => cid \in Cid)
    BY <1>2, ContinuesTables DEF ReadsEnd, CallInv, QueueInv, HasCall
  <2>2. CASE state \in AboveRegistered
    BY <1>1, <1>2, <2>1, <2>2, BusyPhone
  <2>3. CASE state \notin AboveRegistered
    BY <1>1, <1>2, <2>1, <2>3, FreePhone
  <2> QED BY <2>2, <2>3
<1>3. CASE CallRequestFailure
  <2>1. Head(fifo).type = "CALL_REQUESTFAILURE"
    BY <1>3 DEF CallRequestFailure, ReadsCurrent, Reads
  <2>2. CASE Head(fifo).info = "challenge"
    BY <1>2, <1>3, <2>1, <2>2 DEF CallRequestFailure, Terminal
  <2>3. CASE Head(fifo).info # "challenge"
    BY <1>1, <1>3, <2>1, <2>3, EndCallPhone DEF CallRequestFailure, Terminal, ReadsEnd
  <2> QED BY <2>2, <2>3
<1>4. CASE CallServerOrGlobalFailure
    BY <1>2, <1>4 DEF CallServerOrGlobalFailure, ReadsCurrent, Reads, Terminal, fsmVars
<1>5. CASE CallReleased \/ CallClosed
  <2>1. ReadsEnd /\ EndCall
    BY <1>1, <1>5 DEF CallReleased, CallClosed, ReadsCurrent, Reads, ReadsEnd, Terminal
  <2> QED BY <1>1, <1>5, <2>1, EndCallPhone DEF CallReleased, CallClosed, ReadsCurrent, Reads
<1> QED BY <1>3, <1>4, <1>5

-----------------------------------------------------------------------------
\* Commands of the system and of the preferences.

\* Such a command leaves the phone alone, or it sets a state of a phone without a call and
\* terminates no call but the one of a phone that has one.
CommandStep ==
    /\ UNCHANGED <<fifo, cid>>
    /\ \/ UNCHANGED <<calls, state, media, ticketVars>>
       \/ \E s \in Registering \cup {"sip_off", "sip_registered"} :
             setState(s, media) /\ (state \notin AboveRegistered => UNCHANGED calls)

\* Registering and un-registering.
LEMMA RegisterCommand ==
    /\ \A forCall \in BOOLEAN, dur \in Period : registerPhoneOnDemand(forCall, dur) => CommandStep
    /\ registerPhone => CommandStep
    /\ unregisterPhone => CommandStep
<1>1. ASSUME NEW forCall \in BOOLEAN, NEW dur \in Period, registerPhoneOnDemand(forCall, dur)
      PROVE  CommandStep
  <2>1. PICK s \in Registering \cup {"sip_off"} : setState(s, media)
    BY <1>1 DEF registerPhoneOnDemand, Registering
  <2> QED BY <1>1, <2>1 DEF registerPhoneOnDemand, CommandStep
<1>2. 0 \in Period /\ Expires \in Period
    BY DEF Period
<1>3. ASSUME registerPhone PROVE CommandStep
    BY <1>1, <1>2, <1>3 DEF registerPhone, CommandStep, sipVars, fsmVars
<1>4. ASSUME unregisterPhone PROVE CommandStep
  <2>1. CASE state \in BelowRegistered
    BY <1>1, <1>2, <1>4, <2>1 DEF unregisterPhone
  <2>2. CASE state \notin BelowRegistered
    <3>1. "sip_unregister_in_progress" \in Registering
      BY DEF Registering
    <3>2. state \notin AboveRegistered => UNCHANGED calls
      BY <1>4, <2>2 DEF unregisterPhone, HangUp, AboveRegistered
    <3> QED BY <1>4, <2>2, <3>1, <3>2 DEF unregisterPhone, CommandStep
  <2> QED BY <2>1, <2>2
<1> QED BY <1>1, <1>3, <1>4

\* Whatever the system and the preferences do is such a command.
LEMMA CommandSteps ==
    ASSUME System \/ Preferences
    PROVE  CommandStep
<1>1. Expires \in Period /\ TRUE \in BOOLEAN /\ FALSE \in BOOLEAN
    BY DEF Period
<1>2. ASSUME UNCHANGED <<sipVars, media, ticketVars, fsmVars>> PROVE CommandStep
    BY <1>2 DEF CommandStep, sipVars, fsmVars
<1>3. CASE System
    BY <1>2, <1>3, RegisterCommand
    DEF System, networkAvailable, _wakeUp, _goSleep, _sessionOut, applicationShouldTerminate
<1>4. CASE setOnDemandRegister
    BY <1>1, <1>2, <1>4, RegisterCommand DEF setOnDemandRegister
<1>5. CASE setPassword \/ RegisterMenu \/ UnregisterMenu
    BY <1>5, RegisterCommand DEF setPassword, RegisterMenu, UnregisterMenu
<1>6. ASSUME NEW a \in Accounts, setPhoneNumber(a) PROVE CommandStep
  <2>1. PICK s : setState(s, media) /\ (s \in Registering \cup {"sip_off"} \/ s = state)
    BY <1>6 DEF setPhoneNumber, authInfoChanged, Registering
  <2>2. s = state => UNCHANGED <<state, media>>
    BY <2>1 DEF setState
  <2> QED BY <1>6, <2>1, <2>2 DEF setPhoneNumber, CommandStep
<1>7. ASSUME NEW a \in Accounts, setProvider(a) PROVE CommandStep
  <2>1. PICK s \in Registering \cup {"sip_off"} : setState(s, media)
    BY <1>7 DEF setProvider, authInfoChanged, Unregistered, Registering
  <2>2. UNCHANGED <<fifo, cid>> /\ (state \notin AboveRegistered => UNCHANGED calls)
    BY <1>7 DEF setProvider, HangUp, AboveRegistered
  <2> QED BY <2>1, <2>2 DEF CommandStep
<1>8. CASE pretendRegistered
    BY <1>8 DEF pretendRegistered, CommandStep, sipVars
<1> QED BY <1>3, <1>4, <1>5, <1>6, <1>7, <1>8 DEF Preferences

\* A phone with a call is left alone, as it would otherwise lose its call.
LEMMA CommandsPhone ==
    ASSUME TypeOK, CallInv, CallKept, System \/ Preferences
    PROVE  PhoneEffect
<1>0. /\ Continues(calls) /\ media \in Media
      /\ state \in AboveRegistered => cid \in Cid
    BY ContinuesTables DEF TypeOK, PhoneTypes, CallInv, QueueInv, HasCall
<1>1. CommandStep
    BY CommandSteps
<1>2. UNCHANGED <<fifo, cid>> /\ ~Read
    BY <1>1, NothingRead DEF CommandStep
<1>3. CASE UNCHANGED <<calls, state, media, ticketVars>>
    BY <1>0, <1>2, <1>3, BusyPhone, FreePhone
<1>4. ASSUME NEW s \in Registering \cup {"sip_off", "sip_registered"}, setState(s, media),
             state \notin AboveRegistered => UNCHANGED calls
      PROVE  PhoneEffect
  <2>1. state' \notin AboveRegistered /\ media'.session = media.session
        /\ media'.faulty = media.faulty
    BY <1>0, <1>4, setStatePlane DEF Registering, AboveRegistered, HangUpStates
  <2>2. state \notin AboveRegistered
    BY <1>2, <2>1 DEF CallKept, Read
  <2> QED BY <1>0, <1>2, <1>4, <2>1, <2>2, FreePhone
<1> QED BY <1>1, <1>3, <1>4 DEF CommandStep

\* The audio test and the debug window, and the end of the process.
LEMMA SoundSteps ==
    ASSUME TypeOK, Sound \/ CrashOnEvent \/ CrashOnCommand
    PROVE  SoundStep
<1> USE DEF SoundStep
<1>1. media \in Media /\ endUserPlane(media) \in Media /\ endUserPlane(media).session = NoCall
    BY DEF TypeOK, PhoneTypes, endUserPlane, Media
<1>2. CASE stopAudioTest \/ test2
  <2>1. media' = [endUserPlane(media) EXCEPT !.faulty = (state \in AboveRegistered)]
    BY <1>2 DEF stopAudioTest, test2
  <2>2. media'.session = NoCall /\ (media'.faulty <=> state \in AboveRegistered)
    BY <1>1, <2>1 DEF Media
  <2> QED BY <1>2, <2>2 DEF stopAudioTest, test2, MediaOnly, sipVars, fsmVars
<1>3. CASE ring \/ endRing
  <2>1. /\ media'.session = media.session /\ media'.transport = media.transport
        /\ media'.localSdp = media.localSdp /\ media'.faulty = media.faulty
    BY <1>1, <1>3 DEF ring, endRing, startRing, stopRing, Media
  <2> QED BY <1>3, <2>1 DEF ring, endRing, MediaOnly, sipVars, fsmVars
<1>4. CASE CrashOnEvent \/ CrashOnCommand
    BY <1>4 DEF CrashOnEvent, CrashOnCommand, Crash, sipVars, fsmVars
<1> QED BY <1>2, <1>3, <1>4 DEF Sound

-----------------------------------------------------------------------------
\* The theorems.

\* Every step is one of the phone, of the sound device or of the stack, or none.
LEMMA NextEffect ==
    ASSUME TypeOK, CallInv, [Next]_vars, [CallKept]_vars
    PROVE  \/ PhoneEffect
           \/ SoundStep
           \/ ThreadEffect /\ UNCHANGED <<state, cid, media, ticketVars>>
           \/ UNCHANGED vars
<1>1. CASE UNCHANGED vars
    BY <1>1
<1>2. CASE Sound \/ CrashOnEvent \/ CrashOnCommand
    BY <1>2, SoundSteps
<1>3. CASE CallKept /\ ~CrashOnEvent /\ (pollExosip \/ User \/ System \/ Preferences)
    BY <1>3, RegistrationPhone, OtherCallPhone, ProgressPhone, EndingPhone, UserPhone, CommandsPhone
    DEF pollExosip, User
<1>4. CASE Stack \/ EmptyPoll
    BY <1>4, StackThreadEffect
<1> QED BY <1>1, <1>2, <1>3, <1>4 DEF Next, Running, Terminated, MainThread

\* The invariant is inductive.
LEMMA CallStep ==
    ASSUME TypeOK, CallInv, [Next]_vars, [CallKept]_vars
    PROVE  CallInv'
<1>1. CASE UNCHANGED vars
    BY <1>1 DEF vars, sipVars, phoneVars, fsmVars, ticketVars, CallInv, QueueInv, OthersIdle, HasCall,
        EventsFit, EventsOrdered, PendingIsOutgoing, ReleaseQueued, Queued, PlaneInv, TicketInv,
        Established
<1> QED BY <1>1, NextEffect, PhoneCalls, SoundCalls, ThreadCalls

\* The application starts without a call.
LEMMA CallStart == Init => CallInv
<1> SUFFICES ASSUME Init PROVE CallInv
    OBVIOUS
<1>1. /\ state \notin AboveRegistered /\ media.session = NoCall /\ fifo = << >>
      /\ \A c \in Cid : calls[c].tr = "free"
    BY DEF Init, EXosipInit, MediaInit, FreeCall, AboveRegistered, HangUpStates
<1>2. \A i : i \notin 1..Len(fifo)
    BY <1>1
<1>3. QueueInv
    BY <1>1, <1>2 DEF QueueInv, OthersIdle, HasCall, EventsFit, EventsOrdered, PendingIsOutgoing,
                      ReleaseQueued, Queued, Idle, Over
<1>4. PlaneInv /\ TicketInv
    BY <1>1 DEF PlaneInv, TicketInv, WithSession, AboveRegistered, HangUpStates
<1> QED BY <1>3, <1>4 DEF CallInv

\* Every state of a behaviour in which calls are kept satisfies the invariant.
LEMMA CallsInvariant == Spec /\ [][CallKept]_vars => [](TypeOK /\ CallInv)
<1>1. TypeOK /\ CallInv /\ [Next]_vars /\ [CallKept]_vars => CallInv'
    BY CallStep
<1> QED BY <1>1, TypeCorrect, CallStart, PTL DEF Spec

\* One call at a time: whatever overlaps (an INVITE during a call, an answer after a
\* hang-up, events reported late), pollExosip and the commands of sipPhone.m never leave
\* two established calls, as long as the phone leaves a call only for an event of a call.
THEOREM OneCallAtATime == Spec /\ [][CallKept]_vars => []SingleCall
<1>1. TypeOK /\ CallInv => SingleCall
    BY InvSingleCall DEF CallInv
<1> QED BY <1>1, CallsInvariant, PTL

\* UserPlane's session is that of the phone's call, is there while the phone is online,
\* and is still there after the stack released the call only until pollExosip reads it:
\* always, but from the failure of the device under an incoming call (UserPlane.m:511) or
\* the end of an audio test in a call (UserPlane.m:688) to the next end of the media.
THEOREM MediaServeTheCall == Spec /\ [][CallKept]_vars => []MediaFollowsCall
<1>1. TypeOK /\ CallInv => MediaFollowsCall
    BY InvMedia DEF CallInv
<1> QED BY <1>1, CallsInvariant, PTL

\* CallTicketHandler has exactly one entry for a conversation when the phone has left it,
\* whoever ended it and in whichever order the events of its end were read.
THEOREM ConversationsAreLogged == Spec /\ [][CallKept]_vars => ConversationLogged
<1> DEFINE Logs == (state \in {"sip_online", "sip_initiated_clearing"} /\ state' \notin AboveRegistered)
                        => history'[cid] = 1
<1>1. ASSUME TypeOK, CallInv, [Next]_vars, [CallKept]_vars PROVE [Logs]_vars
  <2>1. state \in {"sip_online", "sip_initiated_clearing"} => state \in AboveRegistered
    BY DEF AboveRegistered, HangUpStates
  <2>2. CASE UNCHANGED state
    BY <2>1, <2>2
  <2>3. CASE PhoneEffect
    BY <1>1, <2>3, PhoneLogs
  <2> QED BY <1>1, <2>2, <2>3, NextEffect DEF SoundStep
<1>2. TypeOK /\ CallInv /\ [Next]_vars /\ [CallKept]_vars => [Logs]_vars
    BY <1>1
<1> HIDE DEF Logs
<1>3. Spec /\ [][CallKept]_vars => [][Logs]_vars
    BY <1>2, CallsInvariant, PTL DEF Spec
<1> QED BY <1>3 DEF ConversationLogged, Logs

\* The application implements PhoneLine: to its user the phone is a single line, although
\* eXosip has several calls, sipPhone.m hears of them late, and the device may fail or be
\* tested in a call.
THEOREM PhoneIsALine == Spec /\ [][CallKept]_vars => ImplementsLine
<1>1. Init => Line!LineInit
    BY DEF Init, MediaInit, Line!LineInit, LineOf, AboveRegistered, HangUpStates
<1>2. ASSUME TypeOK, CallInv, [Next]_vars, [CallKept]_vars
      PROVE  [Line!LineNext]_(Line!lineVars)
  <2>1. TypeOK' /\ CallInv'
    BY <1>2, NextTypes, CallStep
  <2>2. CASE PhoneEffect
    BY <1>2, <2>1, <2>2, PhoneLineStep
  <2>5. CASE SoundStep
    BY <1>2, <2>1, <2>5, SoundLineStep
  <2>3. CASE UNCHANGED <<state, cid, media>>
    BY <2>3 DEF Line!lineVars
  <2>4. CASE UNCHANGED vars
    BY <2>3, <2>4 DEF vars, phoneVars, fsmVars
  <2> QED BY <1>2, <2>2, <2>3, <2>4, <2>5, NextEffect
<1>3. TypeOK /\ CallInv /\ [Next]_vars /\ [CallKept]_vars => [Line!LineNext]_(Line!lineVars)
    BY <1>2
<1> QED BY <1>1, <1>3, CallsInvariant, PTL DEF Spec, ImplementsLine, Line!LineSpec

-----------------------------------------------------------------------------
\* When nobody disturbs a call.

\* A queued answer of the registrar is one that it gives.
AnswersGiven == \A i \in 1..Len(fifo) : ~IsCallEvent(fifo[i]) => fifo[i].info \in RegCodes

\* What the stack appends is an event of a call or an answer of the registrar.
LEMMA StackReports ==
    ASSUME Stack \/ EmptyPoll
    PROVE  \/ UNCHANGED fifo
           \/ \E e \in CallEvent \cup RegEvent :
                 fifo' = Append(fifo, e) /\ (IsCallEvent(e) \/ e.info \in RegCodes)
<1> DEFINE Good == \/ UNCHANGED fifo
                   \/ \E e \in CallEvent \cup RegEvent :
                         fifo' = Append(fifo, e) /\ (IsCallEvent(e) \/ e.info \in RegCodes)
<1>1. ASSUME NEW c \in Cid, NEW d \in BOOLEAN, NEW type \in CallEventType, NEW info \in CallInfo,
             Report(type, c, d, info)
      PROVE  Good
  <2>1. PICK e \in CallEvent \cup RegEvent : fifo' = Append(fifo, e) /\ e.type = type /\ e.id = c
    BY <1>1, ReportedCall
  <2> QED BY <2>1 DEF IsCallEvent
<1>2. ASSUME NEW c \in Cid, NEW body \in Bodies,
             Rcv18x(c, body) \/ Rcv200(c, body) \/ RcvInvite(c, body)
      PROVE  Good
  <2> HIDE DEF Good
  <2>1. body \in CallInfo
    BY EXosipAssumption DEF CallInfo
  <2>2. CASE Rcv18x(c, body)
    <3>1. PICK d \in BOOLEAN : Report("CALL_RINGING", c, d, body)
      BY <2>2 DEF Rcv18x
    <3> QED BY <1>1, <2>1, <3>1, EventNames
  <2>3. CASE Rcv200(c, body)
    <3>1. CASE UNCHANGED fifo
      BY <3>1 DEF Good
    <3>2. CASE Report("CALL_ANSWERED", c, TRUE, body)
      BY <1>1, <2>1, <3>2, EventNames
    <3> QED BY <2>3, <3>1, <3>2 DEF Rcv200
  <2>4. CASE RcvInvite(c, body)
    BY <1>1, <2>1, <2>4, EventNames DEF RcvInvite
  <2> QED BY <1>2, <2>2, <2>3, <2>4
<1>3. ASSUME NEW c \in Cid, NEW type \in FailTypes \ {"challenge"}, RcvFailure(c, type)
      PROVE  Good
  <2>1. type \in CallEventType /\ "failure" \in CallInfo
    BY EXosipAssumption, EventNames DEF CallInfo
  <2> HIDE DEF Good
  <2> QED BY <1>1, <1>3, <2>1 DEF RcvFailure
<1>4. ASSUME NEW c \in Cid,
             RcvChallenge(c) \/ SndRefusal(c) \/ RcvBye(c) \/ RcvAck(c) \/ ReleaseCall(c)
      PROVE  Good
  <2> HIDE DEF Good
  <2>1. CASE RcvChallenge(c)
    BY <1>1, <2>1, EventNames DEF RcvChallenge
  <2>2. CASE SndRefusal(c)
    BY <1>1, <2>2, EventNames DEF SndRefusal
  <2>3. CASE RcvBye(c)
    BY <1>1, <2>3, EventNames DEF RcvBye
  <2>4. CASE RcvAck(c)
    BY <1>1, <2>4, EventNames DEF RcvAck
  <2>5. CASE ReleaseCall(c)
    BY <1>1, <2>5, EventNames DEF ReleaseCall
  <2> QED BY <1>4, <2>1, <2>2, <2>3, <2>4, <2>5
<1>5. ASSUME NEW c \in Cid, Rcv100(c) \/ RcvCancel(c)
      PROVE  Good
    BY <1>5 DEF Rcv100, RcvCancel
<1>6. ASSUME NEW r \in Rid, RefreshRegister(r) \/ ReleaseRegister(r)
      PROVE  Good
    BY <1>6 DEF RefreshRegister, ReleaseRegister
<1>7. ASSUME NEW r \in Rid, NEW code \in RegCodes, RcvRegisterAnswer(r, code)
      PROVE  Good
  <2>1. code \in {"200", "401", "407", "403", "404", "500", "noreply"}
    BY EXosipAssumption
  <2>2. PICK type \in {"REGISTRATION_SUCCESS", "REGISTRATION_FAILURE"} :
            Report(type, r, FALSE, code)
    BY <1>7 DEF RcvRegisterAnswer
  <2> DEFINE e == [type |-> type, id |-> r, did |-> FALSE, info |-> code]
  <2>3. e \in RegEvent /\ e.info \in RegCodes /\ fifo' = Append(fifo, e)
    BY <2>1, <2>2 DEF RegEvent, Report
  <2> HIDE DEF e
  <2> QED BY <2>3
<1>8. ASSUME EmptyPoll PROVE Good
    BY <1>8 DEF EmptyPoll
<1> HIDE DEF Good
<1>9. Good
    BY <1>2, <1>3, <1>4, <1>5, <1>6, <1>7, <1>8 DEF Stack, NewInvite, EXosipThread
<1> QED BY <1>9 DEF Good

\* Only the stack adds to the FIFO.
LEMMA MainThreadReads ==
    ASSUME TypeOK, pollExosip \/ User \/ System \/ Preferences \/ Sound \/ CrashOnCommand
    PROVE  UNCHANGED fifo \/ Read
<1>4. CASE Sound \/ CrashOnEvent \/ CrashOnCommand
    BY <1>4, SoundSteps DEF SoundStep
<1>1. CASE pollExosip /\ ~CrashOnEvent
    BY <1>1 DEF pollExosip, RegistrationFailure, RegistrationSuccess, RefuseInvite, AcceptInvite,
        OtherCallEvent, CallRinging, CallRequestFailure, CallServerOrGlobalFailure, CallAnswered,
        CallReleased, CallClosed, CallAck, ReadsCurrent, Reads, Read
<1>2. CASE User
    BY <1>2 DEF User, dialOutCall, registerPhoneOnDemand, hangUpCall, acceptCall
<1>3. CASE System \/ Preferences
    BY <1>3, CommandSteps DEF CommandStep
<1> QED BY <1>1, <1>2, <1>3, <1>4

\* An answer in the queue stays one: events move up and leave, and new ones come behind.
LEMMA AnswersStep ==
    ASSUME TypeOK, AnswersGiven, [Next]_vars
    PROVE  AnswersGiven'
<1>1. CASE UNCHANGED fifo \/ Read
  <2>1. PICK d \in {0, 1} :
            \A i \in 1..Len(fifo') : i + d \in 1..Len(fifo) /\ fifo'[i] = fifo[i + d]
    BY <1>1, Shifted
  <2> QED BY <2>1 DEF AnswersGiven, IsCallEvent
<1>2. ASSUME NEW e \in CallEvent \cup RegEvent, fifo' = Append(fifo, e),
             IsCallEvent(e) \/ e.info \in RegCodes
      PROVE  AnswersGiven'
  <2>1. /\ Len(fifo) \in Nat /\ Len(fifo') = Len(fifo) + 1 /\ fifo'[Len(fifo) + 1] = e
        /\ \A i \in 1..Len(fifo) : fifo'[i] = fifo[i]
    BY <1>2, AppendAt DEF TypeOK, StackTypes
  <2>2. \A i \in 1..Len(fifo') : i \in 1..Len(fifo) \/ i = Len(fifo) + 1
    BY <2>1
  <2> QED BY <1>2, <2>1, <2>2 DEF AnswersGiven, IsCallEvent
<1>3. CASE UNCHANGED vars
    BY <1>1, <1>3 DEF vars, sipVars
<1>4. CASE Stack \/ EmptyPoll
    BY <1>1, <1>2, <1>4, StackReports
<1> QED BY <1>1, <1>3, <1>4, MainThreadReads DEF Next, Running, Terminated, MainThread

\* No step but the handling of an event of a call takes the phone out of a call.
LEMMA UndisturbedStep ==
    ASSUME TypeOK, AnswersGiven, Undisturbed, [Next]_vars
    PROVE  [CallKept]_vars
<1> SUFFICES ASSUME state \in AboveRegistered, state' \notin AboveRegistered, ~UNCHANGED vars
             PROVE  Read /\ Head(fifo).type \in CallEventType
    BY DEF CallKept, Read
<1>1. CASE Stack \/ EmptyPoll
    BY <1>1, StackThreadEffect
<1>10. CASE Sound \/ CrashOnEvent \/ CrashOnCommand
    BY <1>10, SoundSteps DEF SoundStep
<1>2. CASE User
    BY <1>2 DEF User, dialOutCall, hangUpCall, acceptCall, setState, AboveRegistered, HangUpStates
<1>3. CASE System
    BY <1>3 DEF Undisturbed, System, networkAvailable, _wakeUp, _goSleep, _sessionOut,
                applicationShouldTerminate, AboveRegistered, HangUpStates
<1>4. CASE Preferences
    BY <1>4 DEF Undisturbed, Preferences, setOnDemandRegister, setPassword, setPhoneNumber,
                setProvider, RegisterMenu, UnregisterMenu, pretendRegistered,
                AboveRegistered, HangUpStates
<1>5. CASE RegistrationFailure
  <2>1. PICK resent : state' = AfterRegistrationFailure(Head(fifo).info, resent)
    BY <1>5 DEF RegistrationFailure, setState
  <2>2. Read /\ ~IsCallEvent(Head(fifo))
    BY <1>5 DEF RegistrationFailure, Reads, Read, IsCallEvent, CallEventType
  <2>3. Head(fifo).info # "403"
    BY <2>2, HeadQueued DEF AnswersGiven, Undisturbed
  <2>4. state' = state
    BY <2>1, <2>3 DEF AfterRegistrationFailure, AboveRegistered, HangUpStates
  <2> QED BY <2>4
<1>6. CASE RegistrationSuccess
    BY <1>6 DEF RegistrationSuccess, AfterRegistrationSuccess, setState, AboveRegistered, HangUpStates
<1>7. CASE RefuseInvite \/ OtherCallEvent
    BY <1>7 DEF RefuseInvite, OtherCallEvent, fsmVars
<1>8. CASE AcceptInvite
    BY <1>8 DEF AcceptInvite, Reads, Read, CallEventType
<1>9. CASE CallRinging \/ CallRequestFailure \/ CallServerOrGlobalFailure \/ CallAnswered
           \/ CallReleased \/ CallClosed \/ CallAck
    BY <1>9 DEF CallRinging, CallRequestFailure, CallServerOrGlobalFailure, CallAnswered,
        CallReleased, CallClosed, CallAck, ReadsCurrent, Reads, Read, CallEventType
<1> QED BY <1>1, <1>2, <1>3, <1>4, <1>5, <1>6, <1>7, <1>8, <1>9, <1>10
        DEF Next, Running, Terminated, MainThread, pollExosip

\* Without such commands and such answers calls are kept.
LEMMA UndisturbedKept == ASSUME Undisturbed PROVE Spec => [][CallKept]_vars
<1>1. Init => AnswersGiven
    BY DEF Init, EXosipInit, AnswersGiven
<1>2. TypeOK /\ AnswersGiven /\ [Next]_vars => AnswersGiven' /\ [CallKept]_vars
    BY AnswersStep, UndisturbedStep
<1> QED BY <1>1, <1>2, TypeCorrect, PTL DEF Spec

\* An undisturbed phone (nobody registers or un-registers it during a call, the registrar
\* never answers 403) has one call at a time, with its media unless the device fails or is
\* tested, logs every conversation and is a single line to its user.
THEOREM UndisturbedPhone ==
    ASSUME Undisturbed
    PROVE  Spec => /\ []SingleCall
                   /\ []MediaFollowsCall
                   /\ ConversationLogged
                   /\ ImplementsLine
BY UndisturbedKept, OneCallAtATime, MediaServeTheCall, ConversationsAreLogged, PhoneIsALine, PTL
=============================================================================
