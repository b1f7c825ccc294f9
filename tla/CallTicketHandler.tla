-------------------------- MODULE CallTicketHandler --------------------------
(***************************************************************************)
(* The call history writer (CallTicketHandler.m).  One ticket describes    *)
(* the call the phone is busy with; hanging up turns it into an entry of   *)
(* the history.  The handler does not know call ids: the field "call" and  *)
(* the variable history, the number of entries written for each call, only *)
(* record which call an entry belongs to.                                  *)
(***************************************************************************)
EXTENDS CallIds, Naturals

VARIABLES ticket,   \* [started |-> startCall # nil, online |-> startOnline # nil,
                    \*  call |-> the call it was started for]
          history   \* history[c]: entries written for call c

Ticket == [started : BOOLEAN, online : BOOLEAN, call : Cid \cup {NoCall}]

clearInfo == [started |-> FALSE, online |-> FALSE, call |-> NoCall]

TicketInit == /\ ticket = clearInfo
              /\ history = [c \in Cid |-> 0]

\* tickStartInRing and tickStartOutCall: the previous ticket is forgotten.
\* A call gets its ticket once, so this is also where its entries start at 0.
tickStart(c) ==
    /\ ticket' = [clearInfo EXCEPT !.started = TRUE, !.call = c]
    /\ history' = IF c = NoCall THEN history ELSE [history EXCEPT ![c] = 0]

tickOnline == /\ ticket' = [ticket EXCEPT !.online = TRUE]
              /\ UNCHANGED history

\* Mutant: the ticket is not cleared.
tickHangupCauseAgain ==
    /\ history' = IF ticket.call = NoCall THEN history ELSE [history EXCEPT ![ticket.call] = @ + 1]
    /\ UNCHANGED ticket

\* A second hang-up of the same call finds startCall nil and writes nothing.
tickHangupCause ==
    IF ~ticket.started
    THEN UNCHANGED <<ticket, history>>
    ELSE /\ ticket' = clearInfo
         /\ history' = IF ticket.call = NoCall THEN history
                       ELSE [history EXCEPT ![ticket.call] = @ + 1]
=============================================================================
