---------------------------- MODULE AudioDevice ----------------------------
(***************************************************************************)
(* The sound device (UserPlane.m): one pjmedia sound port, shared by the   *)
(* media of a call and by the audio test of the preferences, which records *)
(* five seconds and plays them back; and the volumes of the device, which  *)
(* are the phone's own while the port is open.                             *)
(*                                                                         *)
(* The audio thread calls back at the end of a buffer; the callback only   *)
(* queues a message for the main thread, where everything else happens.    *)
(* As in UserPlane, a method maps the record before it to the one after.   *)
(***************************************************************************)
EXTENDS Naturals, Sequences

CONSTANTS TestIds,    \* numbers that tell one audio test from another
          MaxQueue,   \* bound: callbacks waiting for the main thread
          Events      \* what may happen besides audio tests

ASSUME AudioAssumption ==
    /\ TestIds \subseteq Nat \ {0}
    /\ MaxQueue \in Nat
    /\ Events \subseteq {"call",       \* the media of calls start and end
                         "slow",       \* the main thread stays away for a whole buffer
                         "nodevice",   \* the device cannot be opened
                         "rc",         \* a port cannot be created
                         "toggle"}     \* setVolume is changed while the device is open

VARIABLES audio, setVolume,
          happened      \* history: which of Events have happened

audioVars == <<audio, setVolume, happened>>

Happens(event, occurs) == happened' = happened \cup (IF occurs THEN {event} ELSE {})

\* inputOutput: no port, one whose device runs, one whose device never started.
\* port: what is connected to it.
Audio == [inputOutput : {"none", "open", "dead"}, port : {"none", "capture", "playback", "call"},
          devIdx : BOOLEAN, session : BOOLEAN,
          capturePort : TestIds \cup {0}, playbackPort : TestIds \cup {0},
          reset : BOOLEAN,              \* the ports are in memory a later call may reuse
          recordBuffer : BOOLEAN, audioTestHelper : BOOLEAN, audioTestStatus : {0, 1, 2},
          callbacks : Seq({"record", "playback"} \X TestIds),
          raised : BOOLEAN,             \* an assertion failed
          volume : {"user", "phone"}, gain : {"user", "phone"},
          normalOutputVolume : {"user", "phone"}, normalInputGain : {"user", "phone"}]

\* The saved levels are 0 dB before a first use, which is nobody's level but the phone's.
Init == /\ audio = [inputOutput |-> "none", port |-> "none", devIdx |-> FALSE, session |-> FALSE,
                    capturePort |-> 0, playbackPort |-> 0, reset |-> FALSE,
                    recordBuffer |-> FALSE, audioTestHelper |-> FALSE, audioTestStatus |-> 0,
                    callbacks |-> <<>>, raised |-> FALSE, volume |-> "user", gain |-> "user",
                    normalOutputVolume |-> "phone", normalInputGain |-> "phone"]
        /\ setVolume \in BOOLEAN /\ happened = {}

-----------------------------------------------------------------------------
\* The device.

\* The device could not be opened: an assertion leaves the caller's method.
Throws(a, fails) == a.inputOutput = "none" /\ fails

\* pjmedia_snd_port_create returns the port before it starts the device, and the indexes
\* are set before both; the levels are read and set after them.
_needInputOutput(a, fails) ==
    IF a.inputOutput # "none" THEN a
    ELSE IF fails THEN [a EXCEPT !.inputOutput = "dead", !.devIdx = TRUE]
    ELSE [a EXCEPT !.inputOutput = "open", !.devIdx = TRUE, !.normalOutputVolume = a.volume,
                   !.normalInputGain = IF setVolume THEN a.gain ELSE @,
                   !.volume = IF setVolume THEN "phone" ELSE @,
                   !.gain = IF setVolume THEN "phone" ELSE @]

\* Mutant: the levels stay as the phone set them.
endUserPlaneLoud(a) ==
    [a EXCEPT !.inputOutput = "none", !.port = "none", !.session = FALSE, !.devIdx = FALSE]

\* Memory of the call pool goes back, that of the test's ports with it.
endUserPlane(a) ==
    LET restore == setVolume /\ a.devIdx
    IN  [a EXCEPT !.gain = IF restore THEN a.normalInputGain ELSE @,
                  !.volume = IF restore THEN a.normalOutputVolume ELSE @,
                  !.inputOutput = "none", !.port = "none", !.session = FALSE, !.devIdx = FALSE,
                  !.reset = a.capturePort # 0 \/ a.playbackPort # 0]

-----------------------------------------------------------------------------
\* The audio test.

\* Mutant: a capture port that is not there is destroyed too.
DestroyCaptureAlways(a) ==
    [a EXCEPT !.capturePort = 0, !.callbacks = Append(@, <<"record", a.capturePort>>)]

\* Destroying the capture port calls its callback once more.
DestroyCapture(a) ==
    IF a.capturePort = 0 THEN a
    ELSE [a EXCEPT !.capturePort = 0, !.callbacks = Append(@, <<"record", a.capturePort>>)]

\* Mutant: the helper is told and stays.
stopAudioTestKeepingHelper(a) ==
    endUserPlane([DestroyCapture(a) EXCEPT !.playbackPort = 0, !.recordBuffer = FALSE,
                     !.audioTestStatus = IF a.audioTestHelper THEN 0 ELSE @])

stopAudioTest(a) ==
    endUserPlane([DestroyCapture(a) EXCEPT !.playbackPort = 0, !.recordBuffer = FALSE,
                     !.audioTestStatus = IF a.audioTestHelper THEN 0 ELSE @,
                     !.audioTestHelper = FALSE])

\* Mutant: the helper is kept before the capture port is there.
startAudioTestEarly(a, t, rc) ==
    IF rc THEN [a EXCEPT !.audioTestHelper = TRUE]
    ELSE [a EXCEPT !.capturePort = t, !.port = "capture", !.recordBuffer = TRUE,
                   !.audioTestHelper = TRUE, !.raised = @ \/ a.audioTestHelper]

\* startAudioTestWith: once the device is open.  rc: the capture port cannot be created; the
\* calls after it, on ports of one and the same format, cannot fail.
startAudioTestWith(a, t, rc) ==
    IF rc THEN a
    ELSE [a EXCEPT !.capturePort = t, !.port = "capture", !.recordBuffer = TRUE,
                   !.audioTestHelper = TRUE, !.raised = @ \/ a.audioTestHelper]

\* The button, enabled while no test runs.  The status is set whatever became of the test,
\* unless an exception was raised.
startAudioTest ==
    /\ audio.audioTestStatus = 0
    /\ \E t \in TestIds, fails \in BOOLEAN, rc \in BOOLEAN :
         /\ fails => "nodevice" \in Events
         /\ rc => "rc" \in Events
         /\ \A i \in DOMAIN audio.callbacks : audio.callbacks[i][2] # t
         /\ audio' = IF audio.capturePort # 0 \/ audio.playbackPort # 0
                     THEN [audio EXCEPT !.audioTestStatus = 1]
                     ELSE IF Throws(audio, fails) THEN _needInputOutput(audio, TRUE)
                     ELSE [startAudioTestWith(_needInputOutput(audio, FALSE), t, rc)
                             EXCEPT !.audioTestStatus = 1]
         /\ happened' = happened \cup (IF fails THEN {"nodevice"} ELSE {})
                                \cup (IF rc THEN {"rc"} ELSE {})
    /\ UNCHANGED setVolume

Queued(kind, t) == \E i \in DOMAIN audio.callbacks : audio.callbacks[i] = <<kind, t>>

\* Mutant: the end of the buffer is notified twice.
BufferEndTwice(kind, t) ==
    /\ audio.inputOutput = "open" /\ t # 0
    /\ Len(audio.callbacks) < MaxQueue
    /\ "slow" \in Events \/ ~Queued(kind, t)
    /\ audio' = [audio EXCEPT !.callbacks = @ \o <<<<kind, t>>, <<kind, t>>>>]
    /\ Happens("slow", Queued(kind, t))
    /\ UNCHANGED setVolume

\* The audio thread reaches the end of the buffer, which it then goes through again.  It
\* takes five seconds, in which the main thread has served the callback before.
BufferEnd(kind, t) ==
    /\ audio.inputOutput = "open" /\ t # 0
    /\ Len(audio.callbacks) < MaxQueue
    /\ "slow" \in Events \/ ~Queued(kind, t)
    /\ audio' = [audio EXCEPT !.callbacks = Append(@, <<kind, t>>)]
    /\ Happens("slow", Queued(kind, t))
    /\ UNCHANGED setVolume

recordEnded == audio.port = "capture" /\ BufferEnd("record", audio.capturePort)

playBackEnded == audio.port = "playback" /\ BufferEnd("playback", audio.playbackPort)

\* What a callback of the given kind finds when the main thread comes to it.
NextCallback(kind) == audio.callbacks # <<>> /\ Head(audio.callbacks)[1] = kind

Served == [audio EXCEPT !.callbacks = Tail(@)]

\* Recording is over: the sound port is disconnected, which has to exist, and connected
\* to a player of the buffer.  A port in memory that was given back may fail anyhow.
_recordEnded ==
    /\ NextCallback("record")
    /\ IF audio.capturePort = 0 THEN audio' = Served /\ UNCHANGED happened
       ELSE \/ /\ audio.inputOutput = "none" \/ audio.reset
               /\ audio' = [Served EXCEPT !.raised = TRUE]
               /\ UNCHANGED happened
            \/ /\ audio.inputOutput # "none"
               /\ UNCHANGED happened
               /\ audio' = [DestroyCapture(Served) EXCEPT
                              !.playbackPort = audio.capturePort, !.port = "playback",
                              !.audioTestStatus = IF audio.audioTestHelper THEN 2 ELSE @]
            \/ /\ audio.inputOutput # "none" /\ "rc" \in Events
               /\ audio' = stopAudioTest(DestroyCapture(Served))
               /\ Happens("rc", TRUE)
    /\ UNCHANGED setVolume

\* Mutant: the end of the playback leaves the ports.
_playbackEndedOnly ==
    /\ NextCallback("playback")
    /\ audio' = endUserPlane(Served)
    /\ UNCHANGED <<setVolume, happened>>

_playbackEnded ==
    /\ NextCallback("playback")
    /\ audio' = stopAudioTest(Served)
    /\ UNCHANGED <<setVolume, happened>>

-----------------------------------------------------------------------------
\* The phone and the preferences.

\* setupWithtLocalSdp: makes the session, opens the device, and connects the bridge.
setupWithtLocalSdp ==
    /\ "call" \in Events /\ ~audio.session
    /\ \E fails \in BOOLEAN :
         /\ fails => "nodevice" \in Events
         /\ LET a == [audio EXCEPT !.session = TRUE]
            IN  audio' = IF Throws(a, fails) THEN _needInputOutput(a, TRUE)
                         ELSE [_needInputOutput(a, FALSE) EXCEPT !.port = "call"]
         /\ happened' = happened \cup {"call"} \cup (IF fails THEN {"nodevice"} ELSE {})
    /\ UNCHANGED setVolume

\* A call is made, released, hung up or refused.
EndCall == /\ "call" \in Events
           /\ audio' = endUserPlane(audio)
           /\ Happens("call", TRUE)
           /\ UNCHANGED setVolume

ToggleSetVolume == /\ audio.devIdx => "toggle" \in Events
                   /\ setVolume' = ~setVolume
                   /\ Happens("toggle", audio.devIdx)
                   /\ UNCHANGED audio

-----------------------------------------------------------------------------
AudioThread == recordEnded \/ playBackEnded

MainThread == _recordEnded \/ _playbackEnded

Next == AudioThread \/ MainThread \/ startAudioTest
        \/ setupWithtLocalSdp \/ EndCall \/ ToggleSetVolume

Spec == Init /\ [][Next]_audioVars

\* A running device goes through its buffer, and the main run loop serves what is queued.
FairSpec == Spec /\ WF_audioVars(AudioThread) /\ WF_audioVars(MainThread)

-----------------------------------------------------------------------------
\* Type correctness of the device and the test.
TypeOK == audio \in Audio /\ setVolume \in BOOLEAN /\ happened \subseteq Events

\* The button is enabled only when nothing of an earlier test is left: no port, no buffer
\* and no helper, and a helper is kept exactly as long as the test has a port.
ButtonSafe == /\ audio.audioTestStatus = 0 => ~audio.recordBuffer /\ ~audio.audioTestHelper
              /\ audio.audioTestHelper <=> audio.capturePort # 0 \/ audio.playbackPort # 0

\* The assertions of startAudioTestWith (the helper is nil) and of
\* pjmedia_snd_port_disconnect (there is a sound port) hold as long as no call touches the
\* device, however late the main thread serves the callbacks.
AssertionsHold == "call" \notin happened => ~audio.raised

\* A callback that acts is one of the test that runs, and not of an earlier one, as long as
\* the main thread serves it within the length of the buffer and no test was cut short.
OwnCallback ==
    [][happened \cap {"slow", "call", "rc"} = {} =>
         /\ _recordEnded /\ audio.capturePort # 0 => Head(audio.callbacks)[2] = audio.capturePort
         /\ _playbackEnded => Head(audio.callbacks)[2] = audio.playbackPort]_audioVars

\* Once the device is closed its levels are the user's again, unless the device did not
\* open or setVolume was changed while it was.
VolumeRestored == happened \cap {"nodevice", "toggle"} = {} /\ ~audio.devIdx =>
                      audio.volume = "user" /\ audio.gain = "user"

\* An audio test whose ports could be made and that no call disturbs ends, and the button
\* is enabled again.
TestEnds == [](happened \cap {"call", "nodevice", "rc"} = {}) =>
                (audio.audioTestStatus # 0 ~> audio.audioTestStatus = 0)
=============================================================================
