---------------------------- MODULE NetworkState ----------------------------
(***************************************************************************)
(* NetworkState.m: the watcher of the network interfaces.  configd keeps a *)
(* store of what it knows about each interface; the watcher copies it once *)
(* and then follows the notifications of the keys that changed, decides    *)
(* which interfaces can carry a call, and tells its client (AppHelper)     *)
(* when the first one comes and when the last one goes.                    *)
(*                                                                         *)
(* The watcher lives in the main thread's run loop; the store changes when *)
(* it likes, between the copy and the subscription too.                    *)
(***************************************************************************)
EXTENDS Naturals

CONSTANTS Iface,      \* interfaces (en0, en1, ...), one IPv4 service each
          AirPorts,   \* those of them that are wireless
          Faults      \* what may go wrong with the store

ASSUME IfaceAssumption ==
    /\ AirPorts \subseteq Iface
    /\ Faults \subseteq {"removed", "gap", "nokeys", "nocopy"}

VARIABLES airport,      \* the store: State:/Network/Interface/<i>/AirPort
          ipv4,         \* the store: State:/Network/Service/<s>/IPv4, by interface
          changedKeys,  \* keys the store has still to notify
          missed,       \* history: the kinds of changes that will never be read
          scdref,       \* how far registerWithSc went
          ifaces,       \* one IfaceDescr per interface
          changed,      \* a report of the changes has been asked for
          queued,       \* ifaceProcessChanges waiting in the main run loop
          reachability, \* result of the last report
          network       \* AppHelper's networkAvailable, set by the calls it receives

storeVars == <<airport, ipv4, changedKeys, missed>>
watcherVars == <<scdref, ifaces, changed, queued, reachability, network>>
networkVars == <<storeVars, watcherVars>>

\* A BSSID of 6 bytes and no Busy flag; Busy; no BSSID.
AirPortValue == {"ready", "busy", "nobssid"}

\* The addresses as isValid tells them apart: nil or empty; only 169.* and 127.*; some other.
Addresses == {"none", "local", "real"}

\* A key a service loses with its link is absent from the store.
Ipv4Value == Addresses \cup {"absent"}

Key == ({"AirPort"} \X AirPorts) \cup ({"IPv4"} \X Iface)

IfaceDescr == [known : BOOLEAN, addresses : Addresses, isAirport : BOOLEAN,
               validAirport : BOOLEAN, touched : BOOLEAN, isvalid : BOOLEAN]

\* An interface without a descriptor is one the watcher does not look at.
NoDescr == [known |-> FALSE, addresses |-> "none", isAirport |-> FALSE,
            validAirport |-> FALSE, touched |-> FALSE, isvalid |-> FALSE]

Init == /\ airport \in [AirPorts -> AirPortValue]
        /\ ipv4 \in [Iface -> Ipv4Value]
        /\ changedKeys = {} /\ missed = {}
        /\ scdref = "none"
        /\ ifaces = [i \in Iface |-> NoDescr]
        /\ changed = FALSE /\ queued = 0
        /\ reachability = FALSE /\ network = FALSE

-----------------------------------------------------------------------------
\* IfaceDescr.

\* What isValid computes from the addresses and the AirPort state.
Validity(d) == d.addresses = "real" /\ (d.isAirport => d.validAirport)

\* The answer is computed once after each change.
isValid(d) == IF d.touched THEN Validity(d) ELSE d.isvalid

\* The descriptor after it was asked.
Asked(d) == [d EXCEPT !.isvalid = isValid(d), !.touched = FALSE]

\* Mutant: new addresses leave the cached answer in place.
setAddressesQuietly(d, a) == [d EXCEPT !.known = TRUE, !.addresses = a]

setAddresses(d, a) == [d EXCEPT !.known = TRUE, !.addresses = a, !.touched = TRUE]

\* Mutant: an AirPort that is busy joining a network counts as ready.
setSsidBusy(d, v) == [d EXCEPT !.known = TRUE, !.isAirport = TRUE,
                               !.validAirport = (v # "nobssid"), !.touched = TRUE]

setSsid(d, v) == [d EXCEPT !.known = TRUE, !.isAirport = TRUE,
                           !.validAirport = (v = "ready"), !.touched = TRUE]

-----------------------------------------------------------------------------
\* The store, kept by configd.

\* Mutant: a key without a value is read as well.
PresentOrNot(keys) == keys

Present(keys) == {k \in keys : k[1] = "AirPort" \/ ipv4[k[2]] # "absent"}

\* A change is notified to whoever has subscribed by then.  One that falls between the
\* copy and the subscription is missed, and so is the removal of a key.
Notify(k, v) ==
    /\ scdref = "copied" => "gap" \in Faults
    /\ changedKeys' = IF scdref = "notifying" THEN changedKeys \cup {k} ELSE changedKeys
    /\ missed' = missed \cup (IF scdref = "copied" THEN {"change"} ELSE {})
                        \cup (IF scdref # "none" /\ v = "absent" THEN {"removal"} ELSE {})

AirPortChanges(i) == /\ \E v \in AirPortValue \ {airport[i]} :
                          /\ airport' = [airport EXCEPT ![i] = v]
                          /\ Notify(<<"AirPort", i>>, v)
                     /\ UNCHANGED <<ipv4, watcherVars>>

Ipv4Changes(i) == /\ \E v \in Ipv4Value \ {ipv4[i]} :
                       /\ v = "absent" => "removed" \in Faults
                       /\ ipv4' = [ipv4 EXCEPT ![i] = v]
                       /\ Notify(<<"IPv4", i>>, v)
                  /\ UNCHANGED <<airport, watcherVars>>

-----------------------------------------------------------------------------
\* The watcher.

\* processScInfo, for every key of the dictionary that was read.
processScInfo(keys) ==
    ifaces' = [i \in Iface |->
        LET addressed == IF <<"IPv4", i>> \in keys THEN setAddresses(ifaces[i], ipv4[i])
                         ELSE ifaces[i]
        IN  IF <<"AirPort", i>> \in keys THEN setSsid(addressed, airport[i]) ELSE addressed]

\* Mutant: each setter asks for a report of its own.
ifaceChangedAgain(keys) ==
    IF keys # {} THEN changed' = TRUE /\ queued' = queued + 1 ELSE UNCHANGED <<changed, queued>>

\* Every setter calls it; one report is asked for whatever their number.
_ifaceChanged(keys) ==
    IF keys # {} /\ ~changed THEN changed' = TRUE /\ queued' = queued + 1
    ELSE UNCHANGED <<changed, queued>>

\* registerWithSc, in two steps: what the store holds is copied ...
registerWithSc ==
    /\ scdref = "none"
    /\ scdref' = "copied"
    /\ processScInfo(Present(Key))
    /\ _ifaceChanged(Present(Key))
    /\ UNCHANGED <<storeVars, reachability, network>>

\* ... and then the notifications are asked for, which may fail.
SetNotificationKeys ==
    /\ scdref = "copied"
    /\ \/ scdref' = "notifying"
       \/ "nokeys" \in Faults /\ scdref' = "failed"
    /\ UNCHANGED <<storeVars, ifaces, changed, queued, reachability, network>>

\* The main run loop, which registerWithSc holds until it returns.
RunLoop == scdref # "copied"

\* Mutant: the values are stored and no report is asked for.
scCallbackSilent ==
    /\ RunLoop /\ changedKeys # {}
    /\ changedKeys' = {}
    /\ processScInfo({k \in changedKeys : k[1] = "AirPort" \/ ipv4[k[2]] # "absent"})
    /\ UNCHANGED <<airport, ipv4, missed, scdref, changed, queued, reachability, network>>

\* A notification names the keys; the values are read when it is handled, and a key
\* without a value is not part of what was read.
scCallback ==
    /\ RunLoop /\ changedKeys # {}
    /\ changedKeys' = {}
    /\ \/ /\ processScInfo(Present(changedKeys)) /\ _ifaceChanged(Present(changedKeys))
          /\ UNCHANGED missed
       \/ /\ "nocopy" \in Faults
          /\ missed' = missed \cup {"change"}
          /\ UNCHANGED <<ifaces, changed, queued>>
    /\ UNCHANGED <<airport, ipv4, scdref, reachability, network>>

\* Mutant: the report does not clear changed, so no other one is asked for.
ifaceProcessChangesOnce ==
    /\ RunLoop /\ queued > 0
    /\ queued' = queued - 1
    /\ ifaces' = [i \in Iface |-> Asked(ifaces[i])]
    /\ reachability' = \E i \in Iface : isValid(ifaces[i])
    /\ network' = IF reachability' # reachability THEN reachability' ELSE network
    /\ UNCHANGED <<storeVars, scdref, changed>>

\* Mutant: the report trusts the cached answers.
ifaceProcessChangesCached ==
    /\ RunLoop /\ queued > 0
    /\ queued' = queued - 1
    /\ changed' = FALSE
    /\ reachability' = \E i \in Iface : ifaces[i].isvalid
    /\ ifaces' = [i \in Iface |-> Asked(ifaces[i])]
    /\ network' = IF reachability' # reachability THEN reachability' ELSE network
    /\ UNCHANGED <<storeVars, scdref>>

ifaceProcessChanges ==
    /\ RunLoop /\ queued > 0
    /\ queued' = queued - 1
    /\ changed' = FALSE
    /\ ifaces' = [i \in Iface |-> Asked(ifaces[i])]
    /\ reachability' = \E i \in Iface : isValid(ifaces[i])
    /\ network' = IF reachability' # reachability THEN reachability' ELSE network
    /\ UNCHANGED <<storeVars, scdref>>

\* The getters the preference panel is bound to ask the interfaces one after the other,
\* in no set order, up to the first valid one.
_mainInterface ==
    /\ RunLoop
    /\ \E asked \in SUBSET {i \in Iface : ifaces[i].known} :
         /\ \A i, j \in asked : isValid(ifaces[i]) /\ isValid(ifaces[j]) => i = j
         /\ \/ \E i \in asked : isValid(ifaces[i])
            \/ asked = {i \in Iface : ifaces[i].known}
         /\ ifaces' = [i \in Iface |-> IF i \in asked THEN Asked(ifaces[i]) ELSE ifaces[i]]
    /\ UNCHANGED <<storeVars, scdref, changed, queued, reachability, network>>

-----------------------------------------------------------------------------
Store == \/ \E i \in AirPorts : AirPortChanges(i)
         \/ \E i \in Iface : Ipv4Changes(i)

Next == \/ Store \/ registerWithSc \/ SetNotificationKeys
        \/ scCallback \/ ifaceProcessChanges \/ _mainInterface

Spec == Init /\ [][Next]_networkVars

\* The main thread starts the watcher, and its run loop serves what is waiting in it.
Fairness == /\ WF_networkVars(registerWithSc)
            /\ WF_networkVars(SetNotificationKeys)
            /\ WF_networkVars(scCallback)
            /\ WF_networkVars(ifaceProcessChanges)

FairSpec == Spec /\ Fairness

-----------------------------------------------------------------------------
\* Type correctness of the store, the descriptors and the watcher.
TypeOK == /\ airport \in [AirPorts -> AirPortValue]
          /\ ipv4 \in [Iface -> Ipv4Value]
          /\ changedKeys \in SUBSET Key /\ missed \in SUBSET {"change", "removal"}
          /\ scdref \in {"none", "copied", "notifying", "failed"}
          /\ ifaces \in [Iface -> IfaceDescr]
          /\ changed \in BOOLEAN /\ queued \in Nat
          /\ reachability \in BOOLEAN /\ network \in BOOLEAN

\* The interfaces the watcher's own data says can carry a call, whatever was cached.
ValidIfaces == {i \in Iface : Validity(ifaces[i])}

\* isValid answers from a cached value unless the descriptor was touched, and the getters
\* of the panel un-touch it behind the report's back: the cached value is never stale.
CacheSound == \A i \in Iface : isValid(ifaces[i]) = Validity(ifaces[i])

\* No report is lost and none is asked for twice: when changed is clear no report waits,
\* when it is set exactly one does, and what the client was told last is then out of
\* date at most by the changes that report will see.
ReportPending == /\ queued = IF changed THEN 1 ELSE 0
                 /\ ~changed => network = (ValidIfaces # {})

\* What the store itself says of an interface.
Usable(i) == ipv4[i] = "real" /\ (i \in AirPorts => airport[i] = "ready")

\* Nothing on its way from the store to the client.
Quiet == scdref = "notifying" /\ changedKeys = {} /\ ~changed

\* networkAvailable:YES reaches the client once an interface is usable (ifaceProcessChanges:
\* "network now usable"): with nothing on its way and no change missed, a usable interface
\* is one it knows of, though removals go unread.
GainReported == Quiet /\ "change" \notin missed /\ (\E i \in Iface : Usable(i)) => network

\* networkAvailable:NO reaches the client once none is (ifaceProcessChanges: "network no
\* more usable"): with nothing on its way and nothing missed, a network it relies on is
\* really there, also when the AirPort is busy or has lost its station meanwhile.
LossReported == Quiet /\ missed = {} /\ network => \E i \in Iface : Usable(i)

\* The same with removals, which configd notifies like every other change.
RemovalReported == Quiet /\ "change" \notin missed /\ network => \E i \in Iface : Usable(i)

\* A network that stays is reported, and is not withdrawn again.
GainNotified == [](scdref # "failed" /\ "change" \notin missed) /\ <>[](\E i \in Iface : Usable(i))
                  => <>[]network

\* The watcher implements what the phone is promised of it.
Watch == INSTANCE NetworkWatch WITH valid <- ValidIfaces

\* Every call the client receives states what is so when it is made, however the
\* notifications, the report and the panel's getters interleave, and it comes in the end.
ImplementsWatch == Watch!WatchSpec
=============================================================================
