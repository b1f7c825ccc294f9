------------------------- MODULE AudioDeviceProofs -------------------------
(***************************************************************************)
(* The test button and the remains of a test, with calls, late callbacks,  *)
(* a missing device, failing ports and any number of callbacks waiting.    *)
(*                                                                         *)
(* ButtonSafe is not inductive: that the buffer is there exactly as long   *)
(* as the helper is what makes the end of a test clean.                    *)
(***************************************************************************)
EXTENDS AudioDevice, SequenceTheorems, TLAPS

Fields == {"inputOutput", "port", "devIdx", "session", "capturePort", "playbackPort", "reset",
           "recordBuffer", "audioTestHelper", "audioTestStatus", "callbacks", "raised",
           "volume", "gain", "normalOutputVolume", "normalInputGain"}

\* The remains of a test agree with each other.
Agree(a) == /\ a.audioTestHelper <=> a.capturePort # 0 \/ a.playbackPort # 0
            /\ a.recordBuffer <=> a.audioTestHelper
            /\ a.audioTestStatus = 0 => ~a.audioTestHelper

\* A record of the device; the two flags of the test are Booleans.
IsAudio(a) == /\ DOMAIN a = Fields
              /\ a.audioTestHelper \in BOOLEAN /\ a.recordBuffer \in BOOLEAN

Sound(a) == IsAudio(a) /\ Agree(a)

\* The fields of a test in two records are the same.
SameTest(a, b) == /\ b.audioTestHelper = a.audioTestHelper /\ b.recordBuffer = a.recordBuffer
                  /\ b.capturePort = a.capturePort /\ b.playbackPort = a.playbackPort
                  /\ b.audioTestStatus = a.audioTestStatus

\* Opening the device leaves the test alone.
LEMMA OpenKeepsTest ==
    ASSUME NEW a, IsAudio(a), NEW fails
    PROVE  IsAudio(_needInputOutput(a, fails)) /\ SameTest(a, _needInputOutput(a, fails))
BY DEF _needInputOutput, IsAudio, Fields, SameTest

\* Closing it does, too.
LEMMA CloseKeepsTest ==
    ASSUME NEW a, IsAudio(a)
    PROVE  IsAudio(endUserPlane(a)) /\ SameTest(a, endUserPlane(a))
BY DEF endUserPlane, IsAudio, Fields, SameTest

\* Destroying the capture port takes it from the record, and nothing else of the test.
LEMMA DestroyTakesPort ==
    ASSUME NEW a, IsAudio(a)
    PROVE  /\ IsAudio(DestroyCapture(a))
           /\ DestroyCapture(a).capturePort = 0
           /\ DestroyCapture(a).playbackPort = a.playbackPort
           /\ DestroyCapture(a).audioTestHelper = a.audioTestHelper
           /\ DestroyCapture(a).recordBuffer = a.recordBuffer
           /\ DestroyCapture(a).audioTestStatus = a.audioTestStatus
BY DEF DestroyCapture, IsAudio, Fields

\* Stopping a test leaves nothing of it, whatever state it was in.
LEMMA StopLeavesNothing ==
    ASSUME NEW a, IsAudio(a)
    PROVE  Sound(stopAudioTest(a))
<1> DEFINE c == DestroyCapture(a)
           b == [c EXCEPT !.playbackPort = 0, !.recordBuffer = FALSE,
                    !.audioTestStatus = IF a.audioTestHelper THEN 0 ELSE @,
                    !.audioTestHelper = FALSE]
<1>1. IsAudio(c) /\ c.capturePort = 0
  BY DestroyTakesPort
<1>2. stopAudioTest(a) = endUserPlane(b)
  BY DEF stopAudioTest
<1> HIDE DEF c
<1>3. /\ IsAudio(b)
      /\ b.capturePort = 0 /\ b.playbackPort = 0 /\ ~b.recordBuffer /\ ~b.audioTestHelper
  BY <1>1 DEF IsAudio, Fields
<1> HIDE DEF b
<1>4. IsAudio(endUserPlane(b)) /\ SameTest(b, endUserPlane(b))
  BY <1>3, CloseKeepsTest
<1>q. QED BY <1>2, <1>3, <1>4 DEF Sound, Agree, SameTest

\* A record with the same test is as sound as the other one.
LEMMA SameIsSound ==
    ASSUME NEW a, NEW b, IsAudio(b), Sound(a), SameTest(a, b)
    PROVE  Sound(b)
BY DEF Sound, Agree, SameTest

\* Taking a callback from the queue leaves the test alone.
LEMMA ServedIsSound ==
    ASSUME Sound(audio)
    PROVE  Sound(Served) /\ SameTest(audio, Served)
<1>1. IsAudio(Served) /\ SameTest(audio, Served)
  BY DEF Sound, IsAudio, Fields, Served, SameTest
<1>q. QED BY <1>1, SameIsSound

\* No test runs when the phone starts.
LEMMA InitSound == Init => Sound(audio)
BY DEF Init, Sound, Agree, IsAudio, Fields

\* A test that is started has its port, its buffer and its helper, or none of them.
LEMMA StartStep == ASSUME Sound(audio), startAudioTest PROVE Sound(audio')
<1>1. PICK t \in TestIds, fails \in BOOLEAN, rc \in BOOLEAN :
         audio' = IF audio.capturePort # 0 \/ audio.playbackPort # 0
                     THEN [audio EXCEPT !.audioTestStatus = 1]
                     ELSE IF Throws(audio, fails) THEN _needInputOutput(audio, TRUE)
                     ELSE [startAudioTestWith(_needInputOutput(audio, FALSE), t, rc)
                             EXCEPT !.audioTestStatus = 1]
  BY DEF startAudioTest
<1>t. t # 0
  BY AudioAssumption
<1>2. CASE audio.capturePort # 0 \/ audio.playbackPort # 0
  <2>1. audio' = [audio EXCEPT !.audioTestStatus = 1]
    BY <1>1, <1>2
  <2>q. QED BY <2>1 DEF Sound, Agree, IsAudio, Fields
<1>3. CASE ~(audio.capturePort # 0 \/ audio.playbackPort # 0) /\ Throws(audio, fails)
  <2>1. audio' = _needInputOutput(audio, TRUE)
    BY <1>1, <1>3
  <2>q. QED BY <2>1, OpenKeepsTest, SameIsSound DEF Sound
<1>4. CASE ~(audio.capturePort # 0 \/ audio.playbackPort # 0) /\ ~Throws(audio, fails)
  <2> DEFINE a == _needInputOutput(audio, FALSE)
  <2>1. IsAudio(a) /\ SameTest(audio, a)
    BY OpenKeepsTest DEF Sound
  <2>2. audio' = [startAudioTestWith(a, t, rc) EXCEPT !.audioTestStatus = 1]
    BY <1>1, <1>4
  <2> HIDE DEF a
  <2>3. CASE rc
    <3>1. audio' = [a EXCEPT !.audioTestStatus = 1]
      BY <2>2, <2>3 DEF startAudioTestWith
    <3>2. Sound(a)
      BY <2>1, SameIsSound
    <3>q. QED BY <3>1, <3>2 DEF Sound, Agree, IsAudio, Fields
  <2>4. CASE ~rc
    <3>1. audio' = [[a EXCEPT !.capturePort = t, !.port = "capture", !.recordBuffer = TRUE,
                        !.audioTestHelper = TRUE, !.raised = @ \/ a.audioTestHelper]
                      EXCEPT !.audioTestStatus = 1]
      BY <2>2, <2>4 DEF startAudioTestWith
    <3>2. /\ IsAudio(audio') /\ audio'.capturePort = t /\ audio'.recordBuffer
          /\ audio'.audioTestHelper /\ audio'.audioTestStatus = 1
      BY <2>1, <3>1 DEF IsAudio, Fields
    <3>q. QED BY <1>t, <3>2 DEF Sound, Agree
  <2>q. QED BY <2>3, <2>4
<1>q. QED BY <1>2, <1>3, <1>4

\* The end of the recording hands the test over to the player, or ends it.
LEMMA RecordStep == ASSUME Sound(audio), _recordEnded PROVE Sound(audio')
<1>s. Sound(Served) /\ SameTest(audio, Served)
  BY ServedIsSound
<1>1. CASE audio' = Served
  BY <1>1, <1>s
<1>2. CASE audio' = [Served EXCEPT !.raised = TRUE]
  BY <1>2, <1>s DEF Sound, Agree, IsAudio, Fields
<1> DEFINE c == DestroyCapture(Served)
<1>d. /\ IsAudio(c)
      /\ c.audioTestHelper = audio.audioTestHelper
      /\ c.recordBuffer = audio.recordBuffer
  BY <1>s, DestroyTakesPort DEF Sound, SameTest
<1>3. CASE /\ audio.capturePort # 0
           /\ audio' = [c EXCEPT
                              !.playbackPort = audio.capturePort, !.port = "playback",
                              !.audioTestStatus = IF audio.audioTestHelper THEN 2 ELSE @]
  <2> HIDE DEF c
  <2>1. audio.audioTestHelper /\ audio.recordBuffer
    BY <1>3 DEF Sound, Agree
  <2>2. IsAudio(audio')
    BY <1>3, <1>d DEF IsAudio, Fields
  <2>3. /\ audio'.audioTestHelper /\ audio'.recordBuffer /\ audio'.playbackPort # 0
        /\ audio'.audioTestStatus = 2
    BY <1>3, <1>d, <2>1 DEF IsAudio, Fields
  <2>q. QED BY <2>2, <2>3 DEF Sound, Agree
<1>4. CASE audio' = stopAudioTest(c)
  BY <1>4, <1>d, StopLeavesNothing
<1>q. QED BY <1>1, <1>2, <1>3, <1>4 DEF _recordEnded

\* Every step of the main thread, the audio thread, the calls and the preferences keeps
\* the remains of a test in agreement.
LEMMA StepSound == Sound(audio) /\ [Next]_audioVars => Sound(audio')
<1> SUFFICES ASSUME Sound(audio), [Next]_audioVars PROVE Sound(audio')
  OBVIOUS
<1>1. ASSUME NEW kind, NEW t, BufferEnd(kind, t)
      PROVE  Sound(audio')
  BY <1>1 DEF BufferEnd, Sound, Agree, IsAudio, Fields
<1>2. CASE recordEnded
  BY <1>2, <1>1 DEF recordEnded
<1>3. CASE playBackEnded
  BY <1>3, <1>1 DEF playBackEnded
<1>4. CASE _recordEnded
  BY <1>4, RecordStep
<1>5. CASE _playbackEnded
  BY <1>5, ServedIsSound, StopLeavesNothing DEF _playbackEnded, Sound
<1>6. CASE startAudioTest
  BY <1>6, StartStep
<1>7. CASE setupWithtLocalSdp
  <2> DEFINE a == [audio EXCEPT !.session = TRUE]
  <2>1. Sound(a)
    BY DEF Sound, Agree, IsAudio, Fields
  <2>2. PICK fails \in BOOLEAN : audio' = IF Throws(a, fails) THEN _needInputOutput(a, TRUE)
                         ELSE [_needInputOutput(a, FALSE) EXCEPT !.port = "call"]
    BY <1>7 DEF setupWithtLocalSdp
  <2> HIDE DEF a
  <2>3. Sound(_needInputOutput(a, TRUE)) /\ Sound(_needInputOutput(a, FALSE))
    BY <2>1, OpenKeepsTest, SameIsSound DEF Sound
  <2>4. Sound([_needInputOutput(a, FALSE) EXCEPT !.port = "call"])
    BY <2>3 DEF Sound, Agree, IsAudio, Fields
  <2>q. QED BY <2>2, <2>3, <2>4
<1>8. CASE EndCall
  BY <1>8, CloseKeepsTest, SameIsSound DEF EndCall, Sound
<1>9. CASE ToggleSetVolume
  BY <1>9 DEF ToggleSetVolume
<1>10. CASE UNCHANGED audioVars
  BY <1>10 DEF audioVars
<1>q. QED BY <1>2, <1>3, <1>4, <1>5, <1>6, <1>7, <1>8, <1>9, <1>10
         DEF Next, AudioThread, MainThread

\* The button is never enabled over the remains of a test, whatever calls, callbacks and
\* failures come between.
THEOREM TestButtonSafe == Spec => []ButtonSafe
<1> DEFINE I == Sound(audio)
<1>1. Init => I
  BY InitSound
<1>2. I /\ [Next]_audioVars => I'
  BY StepSound DEF Sound, IsAudio, Agree
<1>3. I => ButtonSafe
  BY DEF Sound, Agree, ButtonSafe
<1> HIDE DEF I
<1>q. QED BY <1>1, <1>2, <1>3, PTL DEF Spec

-----------------------------------------------------------------------------
(* The assertions.                                                         *)

\* Without calls the device stays open under a test and the memory of its ports is theirs.
Undisturbed(a) == /\ a.raised = FALSE /\ a.reset = FALSE
                  /\ a.capturePort # 0 => a.inputOutput # "none"

\* Stopping a test closes the device, but under no port.
LEMMA StopUndisturbed ==
    ASSUME NEW a, IsAudio(a), a.raised = FALSE
    PROVE  Undisturbed(stopAudioTest(a))
<1> DEFINE c == DestroyCapture(a)
           b == [c EXCEPT !.playbackPort = 0, !.recordBuffer = FALSE,
                    !.audioTestStatus = IF a.audioTestHelper THEN 0 ELSE @,
                    !.audioTestHelper = FALSE]
<1>1. IsAudio(c) /\ c.capturePort = 0
  BY DestroyTakesPort
<1>2. c.raised = FALSE
  BY DEF DestroyCapture, IsAudio, Fields
<1>3. stopAudioTest(a) = endUserPlane(b)
  BY DEF stopAudioTest
<1> HIDE DEF c
<1>4. IsAudio(b) /\ b.capturePort = 0 /\ b.playbackPort = 0 /\ b.raised = FALSE
  BY <1>1, <1>2 DEF IsAudio, Fields
<1> HIDE DEF b
<1>q. QED BY <1>3, <1>4 DEF endUserPlane, IsAudio, Fields, Undisturbed

\* A test starts with no helper, hence the assertion on it holds.
LEMMA StartUndisturbed ==
    ASSUME Sound(audio), Undisturbed(audio), startAudioTest
    PROVE  Undisturbed(audio')
<1>1. PICK t \in TestIds, fails \in BOOLEAN, rc \in BOOLEAN :
         audio' = IF audio.capturePort # 0 \/ audio.playbackPort # 0
                     THEN [audio EXCEPT !.audioTestStatus = 1]
                     ELSE IF Throws(audio, fails) THEN _needInputOutput(audio, TRUE)
                     ELSE [startAudioTestWith(_needInputOutput(audio, FALSE), t, rc)
                             EXCEPT !.audioTestStatus = 1]
  BY DEF startAudioTest
<1>2. CASE audio.capturePort # 0 \/ audio.playbackPort # 0
  <2>1. audio' = [audio EXCEPT !.audioTestStatus = 1]
    BY <1>1, <1>2
  <2>q. QED BY <2>1 DEF Sound, IsAudio, Fields, Undisturbed
<1>o. ASSUME NEW f \in BOOLEAN
      PROVE  /\ Undisturbed(_needInputOutput(audio, f))
             /\ _needInputOutput(audio, f).inputOutput # "none"
  BY DEF _needInputOutput, Undisturbed, Sound, IsAudio, Fields
<1>3. CASE ~(audio.capturePort # 0 \/ audio.playbackPort # 0) /\ Throws(audio, fails)
  BY <1>1, <1>3, <1>o
<1>4. CASE ~(audio.capturePort # 0 \/ audio.playbackPort # 0) /\ ~Throws(audio, fails)
  <2> DEFINE a == _needInputOutput(audio, FALSE)
  <2>1. IsAudio(a) /\ SameTest(audio, a)
    BY OpenKeepsTest DEF Sound
  <2>2. audio' = [startAudioTestWith(a, t, rc) EXCEPT !.audioTestStatus = 1]
    BY <1>1, <1>4
  <2>3. Undisturbed(a) /\ a.inputOutput # "none"
    BY <1>o
  <2> HIDE DEF a
  <2>4. a.audioTestHelper = FALSE
    BY <1>4, <2>1 DEF Sound, Agree, IsAudio, SameTest
  <2>q. QED BY <2>1, <2>2, <2>3, <2>4 DEF startAudioTestWith, Undisturbed, IsAudio, Fields
<1>q. QED BY <1>2, <1>3, <1>4

\* The end of a recording finds the sound port.
LEMMA RecordUndisturbed ==
    ASSUME Sound(audio), Undisturbed(audio), _recordEnded
    PROVE  Undisturbed(audio')
<1>s. IsAudio(Served) /\ Undisturbed(Served) /\ Served.inputOutput = audio.inputOutput
  BY DEF Sound, IsAudio, Fields, Served, Undisturbed
<1>1. CASE audio' = Served
  BY <1>1, <1>s
<1> DEFINE c == DestroyCapture(Served)
<1>d. IsAudio(c) /\ c.capturePort = 0 /\ c.raised = FALSE /\ c.reset = FALSE
  BY <1>s, DestroyTakesPort DEF DestroyCapture, Undisturbed, IsAudio, Fields
<1>2. CASE audio' = [c EXCEPT
                              !.playbackPort = audio.capturePort, !.port = "playback",
                              !.audioTestStatus = IF audio.audioTestHelper THEN 2 ELSE @]
  <2> HIDE DEF c
  <2>q. QED BY <1>2, <1>d DEF Undisturbed, IsAudio, Fields
<1>3. CASE audio' = stopAudioTest(c)
  BY <1>3, <1>d, StopUndisturbed
<1>4. audio.capturePort # 0 => ~(audio.inputOutput = "none" \/ audio.reset)
  BY DEF Undisturbed
<1>q. QED BY <1>1, <1>2, <1>3, <1>4 DEF _recordEnded

\* A step without a call keeps the test undisturbed.
LEMMA StepUndisturbed ==
    ASSUME Sound(audio), "call" \notin happened => Undisturbed(audio),
           [Next]_audioVars, "call" \notin happened'
    PROVE  Undisturbed(audio')
<1>1. ASSUME NEW kind, NEW t, BufferEnd(kind, t), Undisturbed(audio)
      PROVE  Undisturbed(audio')
  BY <1>1 DEF BufferEnd, Sound, IsAudio, Fields, Undisturbed
<1>2. CASE recordEnded
  BY <1>2, <1>1 DEF recordEnded, BufferEnd, Happens
<1>3. CASE playBackEnded
  BY <1>3, <1>1 DEF playBackEnded, BufferEnd, Happens
<1>4. CASE _recordEnded
  <2>1. "call" \notin happened
    BY <1>4 DEF _recordEnded, Happens
  <2>q. QED BY <1>4, <2>1, RecordUndisturbed
<1>5. CASE _playbackEnded
  <2>1. "call" \notin happened /\ audio' = stopAudioTest(Served)
    BY <1>5 DEF _playbackEnded
  <2>2. IsAudio(Served) /\ Served.raised = FALSE
    BY <2>1 DEF Sound, IsAudio, Fields, Served, Undisturbed
  <2>q. QED BY <2>1, <2>2, StopUndisturbed
<1>6. CASE startAudioTest
  <2>1. "call" \notin happened
    BY <1>6 DEF startAudioTest
  <2>q. QED BY <1>6, <2>1, StartUndisturbed
<1>7. ~setupWithtLocalSdp /\ ~EndCall
  BY DEF setupWithtLocalSdp, EndCall, Happens
<1>8. CASE ToggleSetVolume
  BY <1>8 DEF ToggleSetVolume, Happens
<1>9. CASE UNCHANGED audioVars
  BY <1>9 DEF audioVars
<1>q. QED BY <1>2, <1>3, <1>4, <1>5, <1>6, <1>7, <1>8, <1>9
         DEF Next, AudioThread, MainThread

\* The assertions of startAudioTestWith and of pjmedia_snd_port_disconnect hold until a
\* call touches the device, with any number of tests, late callbacks and failures.
THEOREM TestAssertionsHold == Spec => []AssertionsHold
<1> DEFINE I == Sound(audio) /\ ("call" \notin happened => Undisturbed(audio))
<1>1. Init => I
  BY InitSound DEF Init, Undisturbed
<1>2. I /\ [Next]_audioVars => I'
  BY StepSound, StepUndisturbed DEF Sound, IsAudio, Agree, Undisturbed
<1>3. I => AssertionsHold
  BY DEF Undisturbed, AssertionsHold
<1> HIDE DEF I
<1>q. QED BY <1>1, <1>2, <1>3, PTL DEF Spec

-----------------------------------------------------------------------------
(* The volumes.                                                            *)

Calm == happened \cap {"nodevice", "toggle"} = {}

\* While the device is open the user's levels are saved, or still set; v is setVolume.
Levels(a, v) == /\ a.devIdx \in BOOLEAN
                /\ a.devIdx <=> a.inputOutput # "none"
                /\ ~a.devIdx => a.volume = "user" /\ a.gain = "user"
                /\ a.devIdx /\ v => a.normalOutputVolume = "user" /\ a.normalInputGain = "user"
                /\ a.devIdx /\ ~v => a.volume = "user" /\ a.gain = "user"

SameLevels(a, b) == /\ b.devIdx = a.devIdx /\ b.inputOutput = a.inputOutput
                    /\ b.volume = a.volume /\ b.gain = a.gain
                    /\ b.normalOutputVolume = a.normalOutputVolume
                    /\ b.normalInputGain = a.normalInputGain

\* Records that differ elsewhere have the same levels.
LEMMA SameIsLevel ==
    ASSUME NEW a, NEW b, NEW v, Levels(a, v), SameLevels(a, b)
    PROVE  Levels(b, v)
BY DEF Levels, SameLevels

\* Opening the device saves the levels before it changes them.
LEMMA OpenSaves ==
    ASSUME NEW a, IsAudio(a), setVolume \in BOOLEAN, Levels(a, setVolume)
    PROVE  Levels(_needInputOutput(a, FALSE), setVolume)
<1>1. CASE a.inputOutput # "none"
  BY <1>1 DEF _needInputOutput
<1>2. CASE a.inputOutput = "none" /\ setVolume
  BY <1>2 DEF _needInputOutput, Levels, IsAudio, Fields
<1>3. CASE a.inputOutput = "none" /\ ~setVolume
  BY <1>3 DEF _needInputOutput, Levels, IsAudio, Fields
<1>q. QED BY <1>1, <1>2, <1>3

\* Closing it gives them back.
LEMMA CloseRestores ==
    ASSUME NEW a, IsAudio(a), setVolume \in BOOLEAN, Levels(a, setVolume)
    PROVE  Levels(endUserPlane(a), setVolume)
<1>1. CASE setVolume /\ a.devIdx
  BY <1>1 DEF endUserPlane, Levels, IsAudio, Fields
<1>2. CASE ~(setVolume /\ a.devIdx)
  BY <1>2 DEF endUserPlane, Levels, IsAudio, Fields
<1>q. QED BY <1>1, <1>2

\* The end of a test closes the device.
LEMMA StopRestores ==
    ASSUME NEW a, IsAudio(a), setVolume \in BOOLEAN, Levels(a, setVolume)
    PROVE  Levels(stopAudioTest(a), setVolume)
<1> DEFINE c == DestroyCapture(a)
           b == [c EXCEPT !.playbackPort = 0, !.recordBuffer = FALSE,
                    !.audioTestStatus = IF a.audioTestHelper THEN 0 ELSE @,
                    !.audioTestHelper = FALSE]
<1>1. IsAudio(c) /\ SameLevels(a, c)
  BY DestroyTakesPort DEF DestroyCapture, SameLevels, IsAudio, Fields
<1>2. stopAudioTest(a) = endUserPlane(b)
  BY DEF stopAudioTest
<1> HIDE DEF c
<1>3. IsAudio(b) /\ SameLevels(c, b)
  BY <1>1 DEF SameLevels, IsAudio, Fields
<1>4. Levels(b, setVolume)
  <2>1. Levels(c, setVolume)
    BY <1>1, SameIsLevel
  <2> HIDE DEF b
  <2>q. QED BY <2>1, <1>3, SameIsLevel
<1> HIDE DEF b
<1>q. QED BY <1>2, <1>3, <1>4, CloseRestores

\* A test that starts opens the device, or finds it open.
LEMMA StartLevels ==
    ASSUME Sound(audio), setVolume \in BOOLEAN, Levels(audio, setVolume),
           startAudioTest, Calm'
    PROVE  Levels(audio', setVolume)
<1>1. PICK t \in TestIds, fails \in BOOLEAN, rc \in BOOLEAN :
         /\ audio' = IF audio.capturePort # 0 \/ audio.playbackPort # 0
                     THEN [audio EXCEPT !.audioTestStatus = 1]
                     ELSE IF Throws(audio, fails) THEN _needInputOutput(audio, TRUE)
                     ELSE [startAudioTestWith(_needInputOutput(audio, FALSE), t, rc)
                             EXCEPT !.audioTestStatus = 1]
         /\ happened' = happened \cup (IF fails THEN {"nodevice"} ELSE {})
                                \cup (IF rc THEN {"rc"} ELSE {})
  BY DEF startAudioTest
<1>2. ~Throws(audio, fails)
  <2>1. ~fails
    BY <1>1 DEF Calm
  <2>q. QED BY <2>1 DEF Throws
<1>3. CASE audio.capturePort # 0 \/ audio.playbackPort # 0
  <2>1. audio' = [audio EXCEPT !.audioTestStatus = 1]
    BY <1>1, <1>3
  <2>2. SameLevels(audio, audio')
    BY <2>1 DEF Sound, IsAudio, Fields, SameLevels
  <2>q. QED BY <2>2, SameIsLevel
<1>4. CASE ~(audio.capturePort # 0 \/ audio.playbackPort # 0)
  <2> DEFINE a == _needInputOutput(audio, FALSE)
  <2>1. IsAudio(a) /\ Levels(a, setVolume)
    BY OpenKeepsTest, OpenSaves DEF Sound
  <2>2. audio' = [startAudioTestWith(a, t, rc) EXCEPT !.audioTestStatus = 1]
    BY <1>1, <1>2, <1>4
  <2> HIDE DEF a
  <2>3. SameLevels(a, audio')
    BY <2>1, <2>2 DEF startAudioTestWith, IsAudio, Fields, SameLevels
  <2>q. QED BY <2>1, <2>3, SameIsLevel
<1>q. QED BY <1>3, <1>4

\* The end of a recording leaves the device open, or closes it.
LEMMA RecordLevels ==
    ASSUME Sound(audio), setVolume \in BOOLEAN, Levels(audio, setVolume), _recordEnded
    PROVE  Levels(audio', setVolume)
<1>s. IsAudio(Served) /\ SameLevels(audio, Served)
  BY DEF Sound, IsAudio, Fields, Served, SameLevels
<1>l. Levels(Served, setVolume)
  BY <1>s, SameIsLevel
<1>1. CASE audio' = Served
  BY <1>1, <1>l
<1>2. CASE audio' = [Served EXCEPT !.raised = TRUE]
  <2>1. SameLevels(Served, audio')
    BY <1>2, <1>s DEF IsAudio, Fields, SameLevels
  <2>q. QED BY <1>l, <2>1, SameIsLevel
<1> DEFINE c == DestroyCapture(Served)
<1>d. IsAudio(c) /\ SameLevels(Served, c)
  BY <1>s, DestroyTakesPort DEF DestroyCapture, SameLevels, IsAudio, Fields
<1>e. Levels(c, setVolume)
  BY <1>l, <1>d, SameIsLevel
<1>3. CASE audio' = [c EXCEPT
                              !.playbackPort = audio.capturePort, !.port = "playback",
                              !.audioTestStatus = IF audio.audioTestHelper THEN 2 ELSE @]
  <2> HIDE DEF c
  <2>1. SameLevels(c, audio')
    BY <1>3, <1>d DEF SameLevels, IsAudio, Fields
  <2>q. QED BY <1>e, <2>1, SameIsLevel
<1>4. CASE audio' = stopAudioTest(c)
  BY <1>4, <1>d, <1>e, StopRestores
<1>q. QED BY <1>1, <1>2, <1>3, <1>4 DEF _recordEnded

\* A step that opens the device, if any, opens it for good, and leaves the preference
\* alone while it is open.
LEMMA StepLevels ==
    ASSUME Sound(audio), setVolume \in BOOLEAN, Calm => Levels(audio, setVolume),
           [Next]_audioVars, Calm'
    PROVE  Levels(audio', setVolume')
<1>c. Calm
  BY DEF Next, AudioThread, MainThread, recordEnded, playBackEnded, BufferEnd, _recordEnded,
         _playbackEnded, startAudioTest, setupWithtLocalSdp, EndCall, ToggleSetVolume,
         Happens, audioVars, Calm
<1>l. Levels(audio, setVolume)
  BY <1>c
<1>1. ASSUME NEW kind, NEW t, BufferEnd(kind, t)
      PROVE  Levels(audio', setVolume')
  <2>1. SameLevels(audio, audio') /\ setVolume' = setVolume
    BY <1>1 DEF BufferEnd, Sound, IsAudio, Fields, SameLevels
  <2>q. QED BY <1>l, <2>1, SameIsLevel
<1>2. CASE recordEnded
  BY <1>2, <1>1 DEF recordEnded
<1>3. CASE playBackEnded
  BY <1>3, <1>1 DEF playBackEnded
<1>4. CASE _recordEnded
  BY <1>4, <1>l, RecordLevels DEF _recordEnded
<1>5. CASE _playbackEnded
  <2>1. audio' = stopAudioTest(Served) /\ setVolume' = setVolume
    BY <1>5 DEF _playbackEnded
  <2>2. IsAudio(Served) /\ SameLevels(audio, Served)
    BY DEF Sound, IsAudio, Fields, Served, SameLevels
  <2>3. Levels(Served, setVolume)
    BY <1>l, <2>2, SameIsLevel
  <2>q. QED BY <2>1, <2>2, <2>3, StopRestores
<1>6. CASE startAudioTest
  BY <1>6, <1>l, StartLevels DEF startAudioTest
<1>7. CASE setupWithtLocalSdp
  <2> DEFINE a == [audio EXCEPT !.session = TRUE]
  <2>1. IsAudio(a) /\ SameLevels(audio, a)
    BY DEF Sound, IsAudio, Fields, SameLevels
  <2>2. PICK fails \in BOOLEAN :
           /\ audio' = IF Throws(a, fails) THEN _needInputOutput(a, TRUE)
                         ELSE [_needInputOutput(a, FALSE) EXCEPT !.port = "call"]
           /\ happened' = happened \cup {"call"} \cup (IF fails THEN {"nodevice"} ELSE {})
    BY <1>7 DEF setupWithtLocalSdp
  <2>3. ~Throws(a, fails)
    <3>1. ~fails
      BY <2>2 DEF Calm
    <3>q. QED BY <3>1 DEF Throws
  <2>4. Levels(a, setVolume)
    BY <1>l, <2>1, SameIsLevel
  <2> HIDE DEF a
  <2> DEFINE b == _needInputOutput(a, FALSE)
  <2>5. IsAudio(b) /\ Levels(b, setVolume)
    BY <2>1, <2>4, OpenKeepsTest, OpenSaves
  <2>6. audio' = [b EXCEPT !.port = "call"]
    BY <2>2, <2>3
  <2> HIDE DEF b
  <2>7. SameLevels(b, audio')
    BY <2>5, <2>6 DEF IsAudio, Fields, SameLevels
  <2>8. setVolume' = setVolume
    BY <1>7 DEF setupWithtLocalSdp
  <2>q. QED BY <2>5, <2>7, <2>8, SameIsLevel
<1>8. CASE EndCall
  BY <1>8, <1>l, CloseRestores DEF EndCall, Sound
<1>9. CASE ToggleSetVolume
  <2>1. ~audio.devIdx
    BY <1>9, <1>l DEF ToggleSetVolume, Happens, Calm, Levels
  <2>q. QED BY <1>9, <1>l, <2>1 DEF ToggleSetVolume, Levels
<1>10. CASE UNCHANGED audioVars
  BY <1>10, <1>l DEF audioVars
<1>q. QED BY <1>2, <1>3, <1>4, <1>5, <1>6, <1>7, <1>8, <1>9, <1>10
         DEF Next, AudioThread, MainThread

\* The preference is a Boolean.
LEMMA StepPreference == ASSUME setVolume \in BOOLEAN, [Next]_audioVars PROVE setVolume' \in BOOLEAN
BY DEF Next, AudioThread, MainThread, recordEnded, playBackEnded, BufferEnd, _recordEnded,
       _playbackEnded, startAudioTest, setupWithtLocalSdp, EndCall, ToggleSetVolume, audioVars

\* Tests and calls that share the device give the user's levels back when it is closed,
\* whichever of them opened and whichever closes it, unless it did not open or the
\* preference was changed meanwhile.
THEOREM VolumesGivenBack == Spec => []VolumeRestored
<1> DEFINE I == Sound(audio) /\ setVolume \in BOOLEAN /\ (Calm => Levels(audio, setVolume))
<1>1. Init => I
  BY InitSound DEF Init, Calm, Levels
<1>2. I /\ [Next]_audioVars => I'
  <2> SUFFICES ASSUME I, [Next]_audioVars PROVE I'
    OBVIOUS
  <2>1. Sound(audio)'
    BY StepSound DEF Sound, IsAudio, Agree
  <2>2. (setVolume \in BOOLEAN)'
    BY StepPreference
  <2>3. (Calm => Levels(audio, setVolume))'
    BY StepLevels DEF Levels
  <2>q. QED BY <2>1, <2>2, <2>3
<1>3. I => VolumeRestored
  BY DEF Calm, Levels, VolumeRestored
<1> HIDE DEF I
<1>q. QED BY <1>1, <1>2, <1>3, PTL DEF Spec
-----------------------------------------------------------------------------
(* The callbacks.                                                          *)

\* Nothing cut a test short, and the main thread came in time.
Timely == happened \cap {"slow", "call", "rc"} = {}

\* The callbacks that may wait while test c records, and while test p plays back: the
\* destruction of the capture port has left one more of its callbacks.
WhileRecording(c) == {<<>>, <<<<"record", c>>>>}
WhilePlaying(p) == {<<>>, <<<<"record", p>>>>, <<<<"playback", p>>>>,
                    <<<<"record", p>>, <<"playback", p>>>>}

\* Only callbacks of the test that runs wait, in the order of its two halves.
InOrder(a) == /\ a.capturePort = 0 \/ a.playbackPort = 0
              /\ a.capturePort # 0 => a.callbacks \in WhileRecording(a.capturePort)
              /\ a.playbackPort # 0 => a.callbacks \in WhilePlaying(a.playbackPort)
              /\ a.capturePort = 0 /\ a.playbackPort = 0 => a.callbacks = <<>>

\* Queues of one and of two callbacks.
LEMMA ShortQueues ==
    ASSUME NEW x, NEW y
    PROVE  /\ Append(<<>>, x) = <<x>> /\ Append(<<x>>, y) = <<x, y>>
           /\ Tail(<<x>>) = <<>> /\ Tail(<<x, y>>) = <<y>>
           /\ Head(<<x>>) = x /\ Head(<<x, y>>) = x
<1>1. Append(<<x>>, y) = <<x, y>>
  <2> DEFINE s == Append(<<x>>, y)
  <2>1. <<x>> \in Seq({x, y}) /\ <<x, y>> \in Seq({x, y})
    OBVIOUS
  <2>2. s \in Seq({x, y}) /\ Len(s) = 2 /\ s[1] = x /\ s[2] = y
    BY <2>1, AppendProperties
  <2> HIDE DEF s
  <2>3. Len(<<x, y>>) = 2 /\ <<x, y>>[1] = x /\ <<x, y>>[2] = y
    OBVIOUS
  <2>4. \A i \in 1..2 : s[i] = <<x, y>>[i]
    BY <2>2, <2>3
  <2>5. s = <<x, y>>
    BY <2>1, <2>2, <2>3, <2>4, SeqEqual
  <2>q. QED BY <2>5 DEF s
<1>2. Append(<<>>, x) = <<x>> /\ Tail(<<x>>) = <<>> /\ Tail(<<x, y>>) = <<y>>
  OBVIOUS
<1>3. Head(<<x>>) = x /\ Head(<<x, y>>) = x
  OBVIOUS
<1>q. QED BY <1>1, <1>2, <1>3

\* The fields that InOrder looks at are the same.
SameOrder(a, b) == /\ b.capturePort = a.capturePort /\ b.playbackPort = a.playbackPort
                   /\ b.callbacks = a.callbacks

\* What does not touch them keeps them in order.
LEMMA SameInOrder ==
    ASSUME NEW a, NEW b, InOrder(a), SameOrder(a, b)
    PROVE  InOrder(b)
BY DEF InOrder, SameOrder

\* The end of a test leaves no port, and one more callback if it was recording.
LEMMA StopOrder ==
    ASSUME NEW a, IsAudio(a), a.capturePort = 0
    PROVE  /\ stopAudioTest(a).capturePort = 0 /\ stopAudioTest(a).playbackPort = 0
           /\ stopAudioTest(a).callbacks = a.callbacks
<1> DEFINE b == [a EXCEPT !.playbackPort = 0, !.recordBuffer = FALSE,
                    !.audioTestStatus = IF a.audioTestHelper THEN 0 ELSE @,
                    !.audioTestHelper = FALSE]
<1>1. stopAudioTest(a) = endUserPlane(b)
  BY DEF stopAudioTest, DestroyCapture
<1>2. IsAudio(b) /\ b.capturePort = 0 /\ b.playbackPort = 0 /\ b.callbacks = a.callbacks
  BY DEF IsAudio, Fields
<1> HIDE DEF b
<1>q. QED BY <1>1, <1>2 DEF endUserPlane, IsAudio, Fields

\* What is served when a callback of the given kind comes first.
LEMMA ServedOrder ==
    ASSUME IsAudio(audio), InOrder(audio)
    PROVE  /\ NextCallback("record") /\ audio.capturePort # 0 =>
                  /\ Head(audio.callbacks)[2] = audio.capturePort
                  /\ Tail(audio.callbacks) = <<>> /\ audio.playbackPort = 0
           /\ NextCallback("record") /\ audio.capturePort = 0 => InOrder(Served)
           /\ NextCallback("playback") =>
                  /\ Head(audio.callbacks)[2] = audio.playbackPort
                  /\ Tail(audio.callbacks) = <<>> /\ audio.capturePort = 0
<1> DEFINE q == audio.callbacks
<1>1. ASSUME NextCallback("record"), audio.capturePort # 0
      PROVE  q = <<<<"record", audio.capturePort>>>> /\ audio.playbackPort = 0
  BY <1>1 DEF NextCallback, InOrder, WhileRecording
<1>2. ASSUME NextCallback("playback")
      PROVE  q = <<<<"playback", audio.playbackPort>>>> /\ audio.capturePort = 0
  <2>1. audio.capturePort = 0
    BY <1>2 DEF NextCallback, InOrder, WhileRecording
  <2>q. QED BY <1>2, <2>1 DEF NextCallback, InOrder, WhilePlaying
<1>3. ASSUME NextCallback("record"), audio.capturePort = 0
      PROVE  InOrder(Served)
  <2> DEFINE p == audio.playbackPort
  <2>1. p # 0 /\ q \in {<<<<"record", p>>>>, <<<<"record", p>>, <<"playback", p>>>>}
    BY <1>3 DEF NextCallback, InOrder, WhilePlaying
  <2>3. Tail(q) \in {<<>>, <<<<"playback", p>>>>}
    <3> HIDE DEF p, q
    <3>1. CASE q = <<<<"record", p>>>>
      BY <3>1
    <3>2. CASE q = <<<<"record", p>>, <<"playback", p>>>>
      <4>1. Tail(q) = <<<<"playback", p>>>>
        BY <3>2
      <4>q. QED BY <4>1
    <3>q. QED BY <2>1, <3>1, <3>2
  <2>2. Served.capturePort = 0 /\ Served.playbackPort = p /\ Served.callbacks = Tail(q)
    BY <1>3 DEF Served, IsAudio, Fields
  <2>q. QED BY <2>1, <2>2, <2>3 DEF InOrder, WhilePlaying
<1>4. ASSUME NEW kind, NEW t, q = <<<<kind, t>>>> PROVE Head(q)[2] = t /\ Tail(q) = <<>>
  BY <1>4
<1> HIDE DEF q
<1>q. QED BY <1>1, <1>2, <1>3, <1>4 DEF q
\* The end of a buffer queues a callback that is not queued, for the half that runs.
LEMMA BufferOrder ==
    ASSUME IsAudio(audio), InOrder(audio), AudioThread, Timely, Timely'
    PROVE  InOrder(audio')
<1> DEFINE q == audio.callbacks
<1>1. CASE recordEnded
  <2> DEFINE c == audio.capturePort
  <2>1. c # 0 /\ audio' = [audio EXCEPT !.callbacks = Append(q, <<"record", c>>)]
        /\ ~Queued("record", c)
    BY <1>1 DEF recordEnded, BufferEnd, Happens, Timely
  <2>2. q = <<>>
    <3>1. q = <<<<"record", c>>>> => 1 \in DOMAIN q /\ q[1] = <<"record", c>>
      OBVIOUS
    <3>q. QED BY <2>1, <3>1 DEF InOrder, WhileRecording, Queued
  <2>3. audio'.callbacks = <<<<"record", c>>>> /\ audio'.capturePort = c
        /\ audio'.playbackPort = audio.playbackPort
    BY <2>1, <2>2, ShortQueues DEF IsAudio, Fields
  <2>q. QED BY <2>1, <2>3 DEF InOrder, WhileRecording
<1>2. CASE playBackEnded
  <2> DEFINE p == audio.playbackPort
             x == <<"record", p>>
             y == <<"playback", p>>
  <2>1. p # 0 /\ audio' = [audio EXCEPT !.callbacks = Append(q, y)] /\ ~Queued("playback", p)
    BY <1>2 DEF playBackEnded, BufferEnd, Happens, Timely
  <2>2. q \in {<<>>, <<x>>}
    <3>1. q = <<y>> => 1 \in DOMAIN q /\ q[1] = y
      OBVIOUS
    <3>2. q = <<x, y>> => 2 \in DOMAIN q /\ q[2] = y
      OBVIOUS
    <3>3. \A i \in DOMAIN q : q[i] # y
      BY <2>1 DEF Queued
    <3>4. q \in {<<>>, <<x>>, <<y>>, <<x, y>>}
      BY <2>1 DEF InOrder, WhilePlaying
    <3> HIDE DEF x, y, q
    <3>q. QED BY <3>1, <3>2, <3>3, <3>4
  <2>3. Append(q, y) \in {<<y>>, <<x, y>>}
    <3> HIDE DEF x, y, q
    <3>q. QED BY <2>2, ShortQueues
  <2>4. audio'.callbacks = Append(q, y) /\ audio'.playbackPort = p
        /\ audio'.capturePort = audio.capturePort
    BY <2>1 DEF IsAudio, Fields
  <2>q. QED BY <2>1, <2>3, <2>4 DEF InOrder, WhilePlaying
<1>q. QED BY <1>1, <1>2 DEF AudioThread

\* A test starts with no callback waiting.
LEMMA StartOrder ==
    ASSUME Sound(audio), InOrder(audio), startAudioTest
    PROVE  InOrder(audio')
<1>1. PICK t \in TestIds, fails \in BOOLEAN, rc \in BOOLEAN :
         audio' = IF audio.capturePort # 0 \/ audio.playbackPort # 0
                     THEN [audio EXCEPT !.audioTestStatus = 1]
                     ELSE IF Throws(audio, fails) THEN _needInputOutput(audio, TRUE)
                     ELSE [startAudioTestWith(_needInputOutput(audio, FALSE), t, rc)
                             EXCEPT !.audioTestStatus = 1]
  BY DEF startAudioTest
<1>2. audio.capturePort = 0 /\ audio.playbackPort = 0 /\ audio.callbacks = <<>>
  BY DEF startAudioTest, Sound, Agree, InOrder
<1>3. ASSUME NEW f \in BOOLEAN
      PROVE  IsAudio(_needInputOutput(audio, f)) /\ SameOrder(audio, _needInputOutput(audio, f))
  BY OpenKeepsTest DEF Sound, IsAudio, Fields, _needInputOutput, SameOrder
<1>4. CASE Throws(audio, fails)
  BY <1>1, <1>2, <1>3, <1>4, SameInOrder
<1>5. CASE ~Throws(audio, fails)
  <2> DEFINE a == _needInputOutput(audio, FALSE)
  <2>1. audio' = [startAudioTestWith(a, t, rc) EXCEPT !.audioTestStatus = 1]
    BY <1>1, <1>2, <1>5
  <2>2. IsAudio(a) /\ a.capturePort = 0 /\ a.playbackPort = 0 /\ a.callbacks = <<>>
    BY <1>2, <1>3 DEF SameOrder
  <2> HIDE DEF a
  <2>3. audio'.playbackPort = 0 /\ audio'.callbacks = <<>>
    BY <2>1, <2>2 DEF startAudioTestWith, IsAudio, Fields
  <2>q. QED BY <2>3 DEF InOrder, WhileRecording
<1>q. QED BY <1>4, <1>5

\* The end of a recording leaves the callback of the port it destroys.
LEMMA RecordOrder ==
    ASSUME IsAudio(audio), InOrder(audio), _recordEnded, Timely'
    PROVE  InOrder(audio')
<1> DEFINE c == audio.capturePort
<1>0. NextCallback("record")
  BY DEF _recordEnded
<1>1. CASE c = 0
  BY <1>0, <1>1, ServedOrder DEF _recordEnded
<1>2. CASE c # 0
  <2>1. IsAudio(Served) /\ Served.capturePort = c /\ Served.playbackPort = 0
        /\ Served.callbacks = <<>>
    BY <1>0, <1>2, ServedOrder DEF Served, IsAudio, Fields
  <2>2. CASE audio' = [Served EXCEPT !.raised = TRUE]
    <3>1. audio'.capturePort = c /\ audio'.playbackPort = 0 /\ audio'.callbacks = <<>>
      BY <2>1, <2>2 DEF IsAudio, Fields
    <3>q. QED BY <1>2, <3>1 DEF InOrder, WhileRecording
  <2>3. CASE audio' = [DestroyCapture(Served) EXCEPT
                              !.playbackPort = audio.capturePort, !.port = "playback",
                              !.audioTestStatus = IF audio.audioTestHelper THEN 2 ELSE @]
    <3> DEFINE d == DestroyCapture(Served)
    <3>1. IsAudio(d) /\ d.capturePort = 0
      BY <2>1, DestroyTakesPort
    <3>2. d.callbacks = Append(<<>>, <<"record", c>>)
      BY <1>2, <2>1 DEF DestroyCapture, IsAudio, Fields
    <3> HIDE DEF d
    <3>3. audio'.capturePort = 0 /\ audio'.playbackPort = c /\ audio'.callbacks = d.callbacks
      BY <2>3, <3>1 DEF d, IsAudio, Fields
    <3>4. audio'.callbacks = <<<<"record", c>>>>
      BY <3>2, <3>3, ShortQueues
    <3>q. QED BY <1>2, <3>3, <3>4 DEF InOrder, WhilePlaying
  <2>4. ~Happens("rc", TRUE)
    BY DEF Happens, Timely
  <2>q. QED BY <1>2, <2>2, <2>3, <2>4 DEF _recordEnded
<1>q. QED BY <1>1, <1>2

\* In time and not cut short, the callbacks stay in order.
LEMMA StepOrder ==
    ASSUME Sound(audio), Timely => InOrder(audio), [Next]_audioVars, Timely'
    PROVE  InOrder(audio')
<1>t. Timely
  BY DEF Next, AudioThread, MainThread, recordEnded, playBackEnded, BufferEnd, _recordEnded,
         _playbackEnded, startAudioTest, setupWithtLocalSdp, EndCall, ToggleSetVolume,
         Happens, audioVars, Timely
<1>i. IsAudio(audio) /\ InOrder(audio)
  BY <1>t DEF Sound
<1>1. CASE AudioThread
  BY <1>1, <1>t, <1>i, BufferOrder
<1>2. CASE _recordEnded
  BY <1>2, <1>i, RecordOrder
<1>3. CASE _playbackEnded
  <2>1. NextCallback("playback") /\ audio' = stopAudioTest(Served)
    BY <1>3 DEF _playbackEnded
  <2>2. IsAudio(Served) /\ Served.capturePort = 0 /\ Served.callbacks = <<>>
    BY <1>i, <2>1, ServedOrder DEF Served, IsAudio, Fields
  <2>q. QED BY <2>1, <2>2, StopOrder DEF InOrder
<1>4. CASE startAudioTest
  BY <1>4, <1>i, StartOrder
<1>5. ~setupWithtLocalSdp /\ ~EndCall
  BY DEF setupWithtLocalSdp, EndCall, Happens, Timely
<1>6. CASE ToggleSetVolume \/ UNCHANGED audioVars
  BY <1>6, <1>i DEF ToggleSetVolume, audioVars
<1>q. QED BY <1>1, <1>2, <1>3, <1>4, <1>5, <1>6 DEF Next, MainThread

\* A callback that _recordEnded or _playbackEnded acts on is of the test that runs, and not
\* the leftover of an earlier one, as long as the main thread serves it within the length
\* of the buffer and no test was cut short; any number of tests may follow each other.
THEOREM CallbacksAreOwn == Spec => OwnCallback
<1> DEFINE I == Sound(audio) /\ (Timely => InOrder(audio))
           Own == happened \cap {"slow", "call", "rc"} = {} =>
                    /\ _recordEnded /\ audio.capturePort # 0 =>
                          Head(audio.callbacks)[2] = audio.capturePort
                    /\ _playbackEnded => Head(audio.callbacks)[2] = audio.playbackPort
<1>1. Init => I
  BY InitSound DEF Init, InOrder
<1>2. I /\ [Next]_audioVars => I'
  <2> SUFFICES ASSUME I, [Next]_audioVars PROVE I'
    OBVIOUS
  <2>1. Sound(audio)'
    BY StepSound DEF Sound, IsAudio, Agree
  <2>2. (Timely => InOrder(audio))'
    BY StepOrder DEF InOrder
  <2>q. QED BY <2>1, <2>2
<1>3. I /\ [Next]_audioVars => [Own]_audioVars
  BY ServedOrder DEF Sound, Timely, _recordEnded, _playbackEnded
<1> HIDE DEF I, Own
<1>4. Spec => [][Own]_audioVars
  BY <1>1, <1>2, <1>3, PTL DEF Spec
<1>q. QED BY <1>4 DEF OwnCallback, Own
-----------------------------------------------------------------------------
(* Type correctness.                                                       *)

Callback == {"record", "playback"} \X TestIds

\* The records whose fields are in given sets.
AudioOf(B, I, P, T, S, Q, L) ==
    [inputOutput : I, port : P, devIdx : B, session : B, capturePort : T, playbackPort : T,
     reset : B, recordBuffer : B, audioTestHelper : B, audioTestStatus : S, callbacks : Q,
     raised : B, volume : L, gain : L, normalOutputVolume : L, normalInputGain : L]

\* The updates of several fields the methods make, which keep the types whatever the sets
\* are that the fields are in.
LEMMA UpdateTypes ==
    ASSUME NEW a \in Audio
    PROVE  /\ \A g \in {"user", "phone"}, v \in {"user", "phone"}, r \in BOOLEAN :
                [a EXCEPT !.gain = g, !.volume = v, !.inputOutput = "none", !.port = "none",
                          !.session = FALSE, !.devIdx = FALSE, !.reset = r] \in Audio
           /\ \A s \in {0, 1, 2} :
                [a EXCEPT !.playbackPort = 0, !.recordBuffer = FALSE, !.audioTestStatus = s,
                          !.audioTestHelper = FALSE] \in Audio
           /\ \A t \in TestIds \cup {0}, r \in BOOLEAN :
                [a EXCEPT !.capturePort = t, !.port = "capture", !.recordBuffer = TRUE,
                          !.audioTestHelper = TRUE, !.raised = r] \in Audio
           /\ \A t \in TestIds \cup {0}, s \in {0, 1, 2} :
                [a EXCEPT !.playbackPort = t, !.port = "playback", !.audioTestStatus = s] \in Audio
<1> DEFINE B == BOOLEAN
           I == {"none", "open", "dead"}
           P == {"none", "capture", "playback", "call"}
           T == TestIds \cup {0}
           S == {0, 1, 2}
           Q == Seq(Callback)
           L == {"user", "phone"}
           A == AudioOf(B, I, P, T, S, Q, L)
<1>1. Audio = A
  BY DEF Audio, AudioOf, Callback
<1>2. /\ TRUE \in B /\ FALSE \in B /\ "none" \in I /\ 0 \in T
      /\ "none" \in P /\ "capture" \in P /\ "playback" \in P
  OBVIOUS
<1> HIDE DEF B, I, P, T, S, Q, L
<1>3. ASSUME NEW g \in L, NEW v \in L, NEW r \in B
      PROVE  [a EXCEPT !.gain = g, !.volume = v, !.inputOutput = "none", !.port = "none",
                       !.session = FALSE, !.devIdx = FALSE, !.reset = r] \in A
  BY <1>1, <1>2 DEF AudioOf
<1>4. ASSUME NEW s \in S
      PROVE  [a EXCEPT !.playbackPort = 0, !.recordBuffer = FALSE, !.audioTestStatus = s,
                       !.audioTestHelper = FALSE] \in A
  BY <1>1, <1>2 DEF AudioOf
<1>5. ASSUME NEW t \in T, NEW r \in B
      PROVE  [a EXCEPT !.capturePort = t, !.port = "capture", !.recordBuffer = TRUE,
                       !.audioTestHelper = TRUE, !.raised = r] \in A
  BY <1>1, <1>2 DEF AudioOf
<1>6. ASSUME NEW t \in T, NEW s \in S
      PROVE  [a EXCEPT !.playbackPort = t, !.port = "playback", !.audioTestStatus = s] \in A
  BY <1>1, <1>2 DEF AudioOf
<1> HIDE DEF A
<1>q. QED BY <1>1, <1>3, <1>4, <1>5, <1>6 DEF B, L, S, T

\* The methods keep a device a device.
LEMMA OpenTypes ==
    ASSUME NEW a \in Audio, NEW fails
    PROVE  _needInputOutput(a, fails) \in Audio
<1>1. CASE a.inputOutput # "none"
  BY <1>1 DEF _needInputOutput
<1>2. CASE a.inputOutput = "none" /\ fails
  <2>1. _needInputOutput(a, fails) = [a EXCEPT !.inputOutput = "dead", !.devIdx = TRUE]
    BY <1>2 DEF _needInputOutput
  <2>q. QED BY <2>1 DEF Audio
<1>3. CASE a.inputOutput = "none" /\ ~fails
  <2> DEFINE g == IF setVolume THEN a.gain ELSE a.normalInputGain
             v == IF setVolume THEN "phone" ELSE a.volume
             w == IF setVolume THEN "phone" ELSE a.gain
  <2>1. _needInputOutput(a, fails) =
            [a EXCEPT !.inputOutput = "open", !.devIdx = TRUE, !.normalOutputVolume = a.volume,
                      !.normalInputGain = g, !.volume = v, !.gain = w]
    BY <1>3 DEF _needInputOutput, Audio
  <2>2. a.volume \in {"user", "phone"} /\ {g, v, w} \subseteq {"user", "phone"}
    BY DEF Audio
  <2> HIDE DEF g, v, w
  <2>q. QED BY <2>1, <2>2 DEF Audio
<1>q. QED BY <1>1, <1>2, <1>3

\* endUserPlane gives the saved volumes back, which have their type.
LEMMA CloseTypes ==
    ASSUME NEW a \in Audio
    PROVE  endUserPlane(a) \in Audio
<1> DEFINE restore == setVolume /\ a.devIdx
           g == IF restore THEN a.normalInputGain ELSE a.gain
           v == IF restore THEN a.normalOutputVolume ELSE a.volume
           r == a.capturePort # 0 \/ a.playbackPort # 0
<1>1. endUserPlane(a) = [a EXCEPT !.gain = g, !.volume = v, !.inputOutput = "none", !.port = "none",
                                  !.session = FALSE, !.devIdx = FALSE, !.reset = r]
  BY DEF endUserPlane, Audio
<1>2. g \in {"user", "phone"} /\ v \in {"user", "phone"} /\ r \in BOOLEAN
  BY DEF Audio
<1> HIDE DEF restore, g, v, r
<1>3. \A x \in BOOLEAN :
        [a EXCEPT !.gain = g, !.volume = v, !.inputOutput = "none", !.port = "none",
                  !.session = FALSE, !.devIdx = FALSE, !.reset = x] \in Audio
  BY <1>2, UpdateTypes
<1>4. [a EXCEPT !.gain = g, !.volume = v, !.inputOutput = "none", !.port = "none",
                !.session = FALSE, !.devIdx = FALSE, !.reset = r] \in Audio
  BY <1>2, <1>3, Zenon
<1>q. QED BY <1>1, <1>4, Zenon

\* A callback that is queued is one of a test.
LEMMA QueueTypes ==
    ASSUME NEW a \in Audio, NEW kind \in {"record", "playback"}, NEW t \in TestIds
    PROVE  Append(a.callbacks, <<kind, t>>) \in Seq(Callback)
<1>1. a.callbacks \in Seq(Callback) /\ <<kind, t>> \in Callback
  BY DEF Audio, Callback
<1>q. QED BY <1>1, AppendProperties

\* rec_on_destroy posts one more callback of its port.
LEMMA DestroyTypes ==
    ASSUME NEW a \in Audio
    PROVE  DestroyCapture(a) \in Audio
<1>1. CASE a.capturePort = 0
  BY <1>1 DEF DestroyCapture
<1>2. CASE a.capturePort # 0
  <2> DEFINE q == Append(a.callbacks, <<"record", a.capturePort>>)
  <2>1. q \in Seq(Callback)
    BY <1>2, QueueTypes DEF Audio
  <2>2. DestroyCapture(a) = [a EXCEPT !.capturePort = 0, !.callbacks = q]
    BY <1>2 DEF DestroyCapture
  <2> HIDE DEF q
  <2>q. QED BY <2>1, <2>2 DEF Audio, Callback
<1>q. QED BY <1>1, <1>2

\* stopAudioTest destroys the ports and closes the device.
LEMMA StopTypes ==
    ASSUME NEW a \in Audio
    PROVE  stopAudioTest(a) \in Audio
<1> DEFINE c == DestroyCapture(a)
           s == IF a.audioTestHelper THEN 0 ELSE c.audioTestStatus
           b == [c EXCEPT !.playbackPort = 0, !.recordBuffer = FALSE, !.audioTestStatus = s,
                          !.audioTestHelper = FALSE]
<1>1. c \in Audio /\ s \in {0, 1, 2}
  BY DestroyTypes DEF Audio
<1>2. stopAudioTest(a) = endUserPlane(b)
  BY <1>1 DEF stopAudioTest, Audio
<1> HIDE DEF c, s
<1>3. b \in Audio
  BY <1>1, UpdateTypes
<1> HIDE DEF b
<1>q. QED BY <1>2, <1>3, CloseTypes

\* The callback that is served leaves the queue.
LEMMA ServedTypes ==
    ASSUME audio \in Audio, audio.callbacks # <<>>
    PROVE  Served \in Audio
<1> DEFINE q == Tail(audio.callbacks)
<1>1. audio.callbacks \in Seq(Callback)
  BY DEF Audio, Callback
<1>2. q \in Seq(Callback)
  BY <1>1, HeadTailProperties
<1>3. Served = [audio EXCEPT !.callbacks = q]
  BY DEF Served
<1> HIDE DEF q
<1>q. QED BY <1>2, <1>3 DEF Audio, Callback

\* startAudioTestWith opens the device or fails.
LEMMA StartTypes ==
    ASSUME audio \in Audio, startAudioTest
    PROVE  audio' \in Audio
<1>1. PICK t \in TestIds, fails \in BOOLEAN, rc \in BOOLEAN :
         audio' = IF audio.capturePort # 0 \/ audio.playbackPort # 0
                     THEN [audio EXCEPT !.audioTestStatus = 1]
                     ELSE IF Throws(audio, fails) THEN _needInputOutput(audio, TRUE)
                     ELSE [startAudioTestWith(_needInputOutput(audio, FALSE), t, rc)
                             EXCEPT !.audioTestStatus = 1]
  BY DEF startAudioTest
<1>2. [audio EXCEPT !.audioTestStatus = 1] \in Audio
  BY DEF Audio
<1> DEFINE a == _needInputOutput(audio, FALSE)
<1>3. a \in Audio /\ _needInputOutput(audio, TRUE) \in Audio
  BY OpenTypes
<1>4. [startAudioTestWith(a, t, rc) EXCEPT !.audioTestStatus = 1] \in Audio
  <2> HIDE DEF a
  <2>1. CASE rc
    BY <1>3, <2>1 DEF startAudioTestWith, Audio
  <2>2. CASE ~rc
    <3> DEFINE r == a.raised \/ a.audioTestHelper
    <3>1. startAudioTestWith(a, t, rc) =
              [a EXCEPT !.capturePort = t, !.port = "capture", !.recordBuffer = TRUE,
                        !.audioTestHelper = TRUE, !.raised = r]
      BY <1>3, <2>2 DEF startAudioTestWith, Audio
    <3>2. r \in BOOLEAN
      OBVIOUS
    <3> HIDE DEF r
    <3>3. \A x \in BOOLEAN :
            [a EXCEPT !.capturePort = t, !.port = "capture", !.recordBuffer = TRUE,
                      !.audioTestHelper = TRUE, !.raised = x] \in Audio
      BY <1>3, UpdateTypes
    <3>4. startAudioTestWith(a, t, rc) \in Audio
      BY <3>1, <3>2, <3>3, Zenon
    <3>q. QED BY <3>4 DEF Audio
  <2>q. QED BY <2>1, <2>2
<1>q. QED BY <1>1, <1>2, <1>3, <1>4

\* _recordEnded starts the playback or ends the test.
LEMMA RecordTypes ==
    ASSUME audio \in Audio, _recordEnded
    PROVE  audio' \in Audio
<1>1. Served \in Audio
  BY ServedTypes DEF _recordEnded, NextCallback
<1> DEFINE c == DestroyCapture(Served)
<1>2. c \in Audio /\ stopAudioTest(c) \in Audio
  BY <1>1, DestroyTypes, StopTypes
<1>3. [Served EXCEPT !.raised = TRUE] \in Audio
  BY <1>1 DEF Audio
<1>4. [c EXCEPT !.playbackPort = audio.capturePort, !.port = "playback",
                !.audioTestStatus = IF audio.audioTestHelper THEN 2 ELSE @] \in Audio
  <2> DEFINE t == audio.capturePort
             s == IF audio.audioTestHelper THEN 2 ELSE c.audioTestStatus
  <2>1. t \in TestIds \cup {0} /\ s \in {0, 1, 2}
    BY <1>2 DEF Audio
  <2>2. [c EXCEPT !.playbackPort = t, !.port = "playback", !.audioTestStatus = s] \in Audio
    <3> HIDE DEF c, s, t
    <3>q. QED BY <1>2, <2>1, UpdateTypes
  <2>3. [c EXCEPT !.playbackPort = t, !.port = "playback",
                  !.audioTestStatus = IF audio.audioTestHelper THEN 2 ELSE @]
          = [c EXCEPT !.playbackPort = t, !.port = "playback", !.audioTestStatus = s]
    <3> HIDE DEF c, t
    <3>q. QED BY <1>2 DEF Audio
  <2>q. QED BY <2>2, <2>3
<1>q. QED BY <1>1, <1>2, <1>3, <1>4 DEF _recordEnded

\* Every step of the device keeps its types.
LEMMA StepTypes == TypeOK /\ [Next]_audioVars => TypeOK'
<1> SUFFICES ASSUME TypeOK, [Next]_audioVars PROVE TypeOK'
  OBVIOUS
<1>0. audio \in Audio /\ setVolume \in BOOLEAN /\ happened \subseteq Events
  BY DEF TypeOK
<1>1. happened' \subseteq Events
  BY <1>0 DEF Next, AudioThread, MainThread, recordEnded, playBackEnded, BufferEnd, _recordEnded,
         _playbackEnded, startAudioTest, setupWithtLocalSdp, EndCall, ToggleSetVolume,
         Happens, audioVars
<1>2. setVolume' \in BOOLEAN
  BY <1>0, StepPreference
<1>3. ASSUME NEW kind \in {"record", "playback"}, NEW t \in TestIds \cup {0}, BufferEnd(kind, t)
      PROVE  audio' \in Audio
  <2> DEFINE q == Append(audio.callbacks, <<kind, t>>)
  <2>1. q \in Seq(Callback) /\ audio' = [audio EXCEPT !.callbacks = q]
    BY <1>0, <1>3, QueueTypes DEF BufferEnd
  <2> HIDE DEF q
  <2>q. QED BY <1>0, <2>1 DEF Audio, Callback
<1>4. CASE AudioThread
  <2>1. audio.capturePort \in TestIds \cup {0} /\ audio.playbackPort \in TestIds \cup {0}
    BY <1>0 DEF Audio
  <2>2. audio' \in Audio
    BY <1>3, <1>4, <2>1 DEF AudioThread, recordEnded, playBackEnded
  <2>q. QED BY <1>1, <1>2, <2>2 DEF TypeOK
<1>5. CASE _recordEnded
  BY <1>0, <1>1, <1>2, <1>5, RecordTypes DEF TypeOK
<1>6. CASE _playbackEnded
  BY <1>0, <1>1, <1>2, <1>6, ServedTypes, StopTypes DEF _playbackEnded, NextCallback, TypeOK
<1>7. CASE startAudioTest
  BY <1>0, <1>1, <1>2, <1>7, StartTypes DEF TypeOK
<1>8. CASE setupWithtLocalSdp
  <2> DEFINE a == [audio EXCEPT !.session = TRUE]
             b == _needInputOutput(a, FALSE)
  <2>1. PICK fails \in BOOLEAN : audio' = IF Throws(a, fails) THEN _needInputOutput(a, TRUE)
                                          ELSE [b EXCEPT !.port = "call"]
    BY <1>8 DEF setupWithtLocalSdp
  <2>2. a \in Audio
    BY <1>0 DEF Audio
  <2> HIDE DEF a
  <2>3. b \in Audio /\ _needInputOutput(a, TRUE) \in Audio
    BY <2>2, OpenTypes
  <2> HIDE DEF b
  <2>4. [b EXCEPT !.port = "call"] \in Audio
    BY <2>3 DEF Audio
  <2>q. QED BY <1>1, <1>2, <2>1, <2>3, <2>4 DEF TypeOK
<1>9. CASE EndCall
  BY <1>0, <1>1, <1>2, <1>9, CloseTypes DEF EndCall, TypeOK
<1>10. CASE ToggleSetVolume \/ UNCHANGED audioVars
  BY <1>0, <1>1, <1>2, <1>10 DEF ToggleSetVolume, audioVars, TypeOK
<1>q. QED BY <1>4, <1>5, <1>6, <1>7, <1>8, <1>9, <1>10 DEF Next, MainThread

\* The sound device and the audio test of UserPlane.m keep their types: among other things
\* no callback is ever queued of a port that is not there.
THEOREM AudioTypes == Spec => []TypeOK
<1>1. Init => TypeOK
  BY DEF Init, TypeOK, Audio
<1>q. QED BY <1>1, StepTypes, PTL DEF Spec
=============================================================================
