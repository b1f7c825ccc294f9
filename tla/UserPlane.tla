------------------------------ MODULE UserPlane ------------------------------
(***************************************************************************)
(* The media side of the phone (UserPlane.m): at most one RTP transport (a *)
(* UDP port), one media session on it, and the ring tone.  The operators   *)
(* map the media record before a method to the record after it, so that a  *)
(* caller can chain several methods in one step, as the code does.         *)
(***************************************************************************)
EXTENDS CallIds, Naturals

CONSTANTS Ports,         \* RTP ports setupAndGetLocalSdp may try: 50 in the code
          DeviceFails    \* whether the sound device or the bridge may fail to open

VARIABLE media

ASSUME PortsAssumption == Ports \in Nat \ {0}

ASSUME DeviceAssumption == DeviceFails \in {{FALSE}, BOOLEAN}

\* No method looks at faulty: it remembers that the media are not those of the phone's
\* call because the device failed under an incoming call, or because an audio test or
\* the debug window ended them in a call.
Media == [transport : BOOLEAN,                  \* rtp_transport # NULL
          session : Cid \cup {NoCall},          \* the call rtp_session serves
          ring : {"none", "caller", "debug"},   \* who started ringSequence, if anybody
          localSdp : BOOLEAN,                   \* the phone's localSdp # nil
          lost : Nat,                           \* ports of transports nothing points to
          faulty : BOOLEAN]

MediaInit == media = [transport |-> FALSE, session |-> NoCall, ring |-> "none",
                      localSdp |-> FALSE, lost |-> 0, faulty |-> FALSE]

\* A ring under way is stopped and replaced.
startRing(m, who) == [m EXCEPT !.ring = who]

\* Mutant: the ring goes on to the end of the media.
stopRingLater(m) == m

stopRing(m) == [m EXCEPT !.ring = "none"]

\* Mutant: the port is closed but the session stays.
endUserPlaneKeepingSession(m) == [m EXCEPT !.transport = FALSE, !.ring = "none", !.faulty = FALSE]

endUserPlane(m) ==
    [m EXCEPT !.transport = FALSE, !.session = NoCall, !.ring = "none", !.faulty = FALSE]

\* Binds the first free port.  A transport that was still open is overwritten
\* and its port stays bound; with every port bound the result is a nil SDP.
setupAndGetLocalSdp(m) ==
    LET bound == m.lost + (IF m.transport THEN 1 ELSE 0)
    IN IF bound >= Ports
       THEN [m EXCEPT !.localSdp = FALSE]
       ELSE [m EXCEPT !.transport = TRUE, !.localSdp = TRUE, !.lost = bound]

\* An established session is kept whatever the SDPs are.  Otherwise both SDPs have to
\* parse, or an NSAssert exception leaves the caller's method before there is a session.
setupThrows(m, remoteSdp) == m.session = NoCall /\ (~m.localSdp \/ ~remoteSdp)

\* The session is created on the transport without a look at it: an SDP that outlived
\* its transport attaches the stream to NULL, which no handler survives.
setupCrashes(m, remoteSdp) ==
    m.session = NoCall /\ m.localSdp /\ remoteSdp /\ ~m.transport

\* The device and the conference bridge are opened when the session is there already:
\* if that fails the exception leaves the session behind.
deviceThrows(m, fails) == m.session = NoCall /\ fails

setupWithLocalSdp(m, c) == IF m.session = NoCall THEN [m EXCEPT !.session = c] ELSE m

\* For an incoming call the phone replaces its localSdp by the negotiated one,
\* which is nil when the session was already there.
setupIncoming(m, c) == [setupWithLocalSdp(m, c) EXCEPT !.localSdp = (m.session = NoCall)]
=============================================================================
