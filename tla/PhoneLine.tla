----------------------------- MODULE PhoneLine -----------------------------
(***************************************************************************)
(* What the phone promises its user: a single line.  A call takes an idle  *)
(* line and has it until it is given back; nobody else is heard in between, *)
(* and nobody is heard on an idle line.  A conversation comes after one of *)
(* the two parties has called and the other one has answered.              *)
(***************************************************************************)
EXTENDS CallIds

VARIABLES line,     \* what the line is doing
          party,    \* the call that has it
          heard,    \* the call whose media are played
          faulty    \* the sound is disturbed: what is heard is not promised

lineVars == <<line, party, heard, faulty>>

LineInit == line = "idle" /\ party = NoCall /\ heard = NoCall /\ ~faulty

\* A disturbance only goes with the media.
Hears(c) == faulty' = faulty /\ (faulty \/ heard' = c)

Silent == heard' = NoCall /\ ~faulty'

\* A call takes the line; an incoming one brings its media with it.
Take(c) == /\ line = "idle"
           /\ \/ line' = "dialling" /\ Silent
              \/ line' = "alerting" /\ Hears(c)
           /\ party' = c

\* The media of an outgoing call may start before it is answered.
Progress == line = "dialling" /\ Hears(party) /\ UNCHANGED <<line, party>>

\* The user answers, and the caller confirms.
Accept == line = "alerting" /\ line' = "accepted" /\ UNCHANGED <<party, heard, faulty>>

Talk == /\ line \in {"dialling", "accepted"}
        /\ line' = "talking" /\ Hears(party)
        /\ UNCHANGED party

HangUp == /\ line \in {"dialling", "alerting", "talking"}
          /\ line' = "clearing"
          /\ UNCHANGED <<party, heard, faulty>>

\* A ringing or an answer that crosses the hang-up of an outgoing call revives it: the
\* user hears the other party again, and has to hang up once more.
Cross == /\ line = "clearing"
         /\ \/ line' \in {"clearing", "dialling"} /\ (Hears(heard) \/ Hears(party))
            \/ line' = "talking" /\ Hears(party)
         /\ UNCHANGED party

\* The line is given back, the media with it.
Release == line # "idle" /\ line' = "idle" /\ party' = NoCall /\ Silent

\* The sound is disturbed, and put right when its media end.  Nobody gets or loses the
\* line by that.
Disturb == faulty' /\ UNCHANGED <<line, party>>

Repair == faulty /\ line = "idle" /\ Silent /\ UNCHANGED <<line, party>>

LineNext == \/ \E c \in Cid : Take(c)
            \/ Progress \/ Accept \/ Talk \/ HangUp \/ Cross \/ Release
            \/ Disturb \/ Repair

LineSpec == LineInit /\ [][LineNext]_lineVars
=============================================================================
