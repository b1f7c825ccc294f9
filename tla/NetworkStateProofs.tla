------------------------- MODULE NetworkStateProofs -------------------------
(***************************************************************************)
(* The watcher of NetworkState.m for any number of interfaces and any of   *)
(* the store's faults: its cache is sound, no report is lost, its client   *)
(* is told what NetworkWatch promises; and, as long as no change of the    *)
(* store goes unread, what it is told is what the store says.              *)
(***************************************************************************)
EXTENDS NetworkState, TLAPS

\* A change of the watcher's data is pending, or the last report saw the data as it is.
ReportInv == /\ TypeOK /\ CacheSound /\ ReportPending
             /\ reachability = network

\* The data of the keys that are neither absent nor about to be notified is the store's.
Synced == scdref \in {"copied", "notifying"} /\ "change" \notin missed =>
    \A i \in Iface :
        /\ <<"IPv4", i>> \notin changedKeys /\ ipv4[i] # "absent"
             => ifaces[i].addresses = ipv4[i]
        /\ i \in AirPorts /\ <<"AirPort", i>> \notin changedKeys
             => ifaces[i].validAirport = (airport[i] = "ready")
        /\ i \notin AirPorts => ~ifaces[i].isAirport

\* A wireless interface is known to be one, and a key that was absent from the start has
\* left no addresses.
Absent == scdref # "none" =>
    \A i \in Iface :
        /\ i \in AirPorts => ifaces[i].isAirport
        /\ ipv4[i] = "absent" /\ "removal" \notin missed => ifaces[i].addresses = "none"

\* Before the copy the watcher knows no interface and nothing is notified to it.
Fresh == scdref = "none" => /\ changedKeys = {}
                            /\ ifaces = [i \in Iface |-> NoDescr]

StoreInv == TypeOK /\ Synced /\ Absent /\ Fresh
-----------------------------------------------------------------------------
(* What the operations on one descriptor do.                               *)

\* Asking a descriptor leaves what its answer is computed from alone.
LEMMA AskedKeepsValidity ==
    ASSUME NEW d \in IfaceDescr
    PROVE  /\ Asked(d) \in IfaceDescr
           /\ Validity(Asked(d)) = Validity(d)
           /\ isValid(d) = Validity(d) => isValid(Asked(d)) = Validity(Asked(d))
BY DEF Asked, IfaceDescr, Validity, isValid

\* A setter leaves a touched descriptor, whose answer is computed afresh.
LEMMA SettersTouch ==
    ASSUME NEW d \in IfaceDescr, NEW a \in Addresses, NEW v \in AirPortValue
    PROVE  /\ setAddresses(d, a) \in IfaceDescr
           /\ setSsid(d, v) \in IfaceDescr
           /\ isValid(setAddresses(d, a)) = Validity(setAddresses(d, a))
           /\ isValid(setSsid(d, v)) = Validity(setSsid(d, v))
BY DEF setAddresses, setSsid, IfaceDescr, Validity, isValid

\* processScInfo for one interface.
Read(keys, i) ==
    LET addressed == IF <<"IPv4", i>> \in keys THEN setAddresses(ifaces[i], ipv4[i])
                     ELSE ifaces[i]
    IN  IF <<"AirPort", i>> \in keys THEN setSsid(addressed, airport[i]) ELSE addressed

\* The keys that are read have a value of their kind.
LEMMA PresentKeys ==
    ASSUME TypeOK, NEW keys \in SUBSET Key, NEW i \in Iface
    PROVE  /\ <<"IPv4", i>> \in Present(keys) => ipv4[i] \in Addresses
           /\ <<"AirPort", i>> \in Present(keys)
                => i \in AirPorts /\ airport[i] \in AirPortValue
BY DEF TypeOK, Present, Key, Ipv4Value, Addresses

\* Reading keeps descriptors well-formed and their answers true.
LEMMA ReadSound ==
    ASSUME TypeOK, CacheSound, NEW keys \in SUBSET Key, NEW i \in Iface
    PROVE  /\ Read(Present(keys), i) \in IfaceDescr
           /\ isValid(Read(Present(keys), i)) = Validity(Read(Present(keys), i))
<1> DEFINE K == Present(keys)
           a == IF <<"IPv4", i>> \in K THEN setAddresses(ifaces[i], ipv4[i]) ELSE ifaces[i]
<1>1. ifaces[i] \in IfaceDescr
  BY DEF TypeOK
<1>2. a \in IfaceDescr /\ isValid(a) = Validity(a)
  <2>1. CASE <<"IPv4", i>> \in K
    BY <2>1, <1>1, PresentKeys, SettersTouch DEF AirPortValue
  <2>2. CASE <<"IPv4", i>> \notin K
    BY <2>2, <1>1 DEF CacheSound
  <2>q. QED BY <2>1, <2>2
<1>3. CASE <<"AirPort", i>> \in K
  <2>1. airport[i] \in AirPortValue
    BY <1>3, PresentKeys
  <2>2. setSsid(a, airport[i]) \in IfaceDescr
        /\ isValid(setSsid(a, airport[i])) = Validity(setSsid(a, airport[i]))
    BY <2>1, <1>2, SettersTouch DEF Addresses
  <2>q. QED BY <1>3, <2>2 DEF Read
<1>4. CASE <<"AirPort", i>> \notin K
  BY <1>2, <1>4 DEF Read
<1>q. QED BY <1>3, <1>4

\* What was read leaves the watcher's data sound and a report asked for.
LEMMA ReadStep ==
    ASSUME ReportInv, NEW keys \in SUBSET Key,
           processScInfo(Present(keys)), _ifaceChanged(Present(keys)),
           UNCHANGED <<reachability, network>>
    PROVE  /\ ifaces' \in [Iface -> IfaceDescr]
           /\ changed' \in BOOLEAN /\ queued' \in Nat
           /\ CacheSound' /\ ReportPending' /\ reachability' = network'
<1> DEFINE K == Present(keys)
<1>1. ifaces' = [i \in Iface |-> Read(K, i)]
  BY DEF processScInfo, Read
<1>2. ifaces' \in [Iface -> IfaceDescr] /\ CacheSound'
  BY <1>1, ReadSound DEF CacheSound, ReportInv
<1>3. /\ changed' \in BOOLEAN /\ queued' \in Nat
      /\ queued' = IF changed' THEN 1 ELSE 0
      /\ ~changed' => ~changed /\ K = {}
  <2>1. changed \in BOOLEAN /\ queued \in Nat /\ queued = IF changed THEN 1 ELSE 0
    BY DEF ReportInv, TypeOK, ReportPending
  <2>2. CASE K # {} /\ ~changed
    <3>1. changed' = TRUE /\ queued' = queued + 1
      BY <2>2 DEF _ifaceChanged
    <3>q. QED BY <2>1, <2>2, <3>1
  <2>3. CASE ~(K # {} /\ ~changed)
    <3>1. changed' = changed /\ queued' = queued
      BY <2>3 DEF _ifaceChanged
    <3>q. QED BY <2>1, <2>3, <3>1
  <2>q. QED BY <2>2, <2>3
<1>4. K = {} => ValidIfaces' = ValidIfaces
  <2>1. K = {} => ifaces' = ifaces
    BY <1>1 DEF Read, ReportInv, TypeOK
  <2>q. QED BY <2>1 DEF ValidIfaces
<1>5. reachability' = network' /\ network' = network
  BY DEF ReportInv
<1>q. QED BY <1>2, <1>3, <1>4, <1>5 DEF ReportPending, ReportInv

\* Asking descriptors changes no descriptor's true answer.
LEMMA AskedStep ==
    ASSUME TypeOK, CacheSound, NEW asked \in SUBSET Iface,
           ifaces' = [i \in Iface |-> IF i \in asked THEN Asked(ifaces[i]) ELSE ifaces[i]]
    PROVE  /\ ifaces' \in [Iface -> IfaceDescr] /\ CacheSound'
           /\ ValidIfaces' = ValidIfaces
<1>1. \A i \in Iface : /\ ifaces'[i] \in IfaceDescr
                        /\ Validity(ifaces'[i]) = Validity(ifaces[i])
                        /\ isValid(ifaces'[i]) = Validity(ifaces'[i])
  <2>1. SUFFICES ASSUME NEW i \in Iface
                 PROVE  /\ ifaces'[i] \in IfaceDescr
                        /\ Validity(ifaces'[i]) = Validity(ifaces[i])
                        /\ isValid(ifaces'[i]) = Validity(ifaces'[i])
    OBVIOUS
  <2>2. ifaces[i] \in IfaceDescr /\ isValid(ifaces[i]) = Validity(ifaces[i])
    BY DEF TypeOK, CacheSound
  <2>3. CASE i \in asked
    BY <2>2, <2>3, AskedKeepsValidity
  <2>4. CASE i \notin asked
    BY <2>2, <2>4
  <2>q. QED BY <2>3, <2>4
<1>2. ifaces' \in [Iface -> IfaceDescr]
  BY <1>1
<1>q. QED BY <1>1, <1>2 DEF CacheSound, ValidIfaces

\* A change of the store leaves the watcher alone.
LEMMA StoreTypes ==
    ASSUME TypeOK, Store
    PROVE  /\ UNCHANGED watcherVars
           /\ airport' \in [AirPorts -> AirPortValue]
           /\ ipv4' \in [Iface -> Ipv4Value]
           /\ changedKeys' \in SUBSET Key /\ missed' \in SUBSET {"change", "removal"}
<1>1. ASSUME NEW i \in AirPorts, AirPortChanges(i)
      PROVE  /\ UNCHANGED watcherVars
             /\ airport' \in [AirPorts -> AirPortValue]
             /\ ipv4' \in [Iface -> Ipv4Value]
             /\ changedKeys' \in SUBSET Key /\ missed' \in SUBSET {"change", "removal"}
  BY <1>1 DEF AirPortChanges, Notify, TypeOK, Key
<1>2. ASSUME NEW i \in Iface, Ipv4Changes(i)
      PROVE  /\ UNCHANGED watcherVars
             /\ airport' \in [AirPorts -> AirPortValue]
             /\ ipv4' \in [Iface -> Ipv4Value]
             /\ changedKeys' \in SUBSET Key /\ missed' \in SUBSET {"change", "removal"}
  BY <1>2 DEF Ipv4Changes, Notify, TypeOK, Key
<1>q. QED BY <1>1, <1>2 DEF Store

-----------------------------------------------------------------------------
\* A watcher that has not started satisfies ReportInv.
LEMMA ReportInit == Init => ReportInv
<1> SUFFICES ASSUME Init PROVE ReportInv
  OBVIOUS
<1>1. NoDescr \in IfaceDescr /\ isValid(NoDescr) = Validity(NoDescr) /\ ~Validity(NoDescr)
  BY DEF NoDescr, IfaceDescr, Addresses, isValid, Validity
<1>2. TypeOK
  BY <1>1 DEF Init, TypeOK
<1>3. CacheSound
  BY <1>1 DEF Init, CacheSound
<1>4. ReportPending
  BY <1>1 DEF Init, ReportPending, ValidIfaces
<1>q. QED BY <1>2, <1>3, <1>4 DEF Init, ReportInv

\* Every step of the store, the watcher and the getters keeps ReportInv.
LEMMA ReportStep == ReportInv /\ [Next]_networkVars => ReportInv'
<1> SUFFICES ASSUME ReportInv, [Next]_networkVars PROVE ReportInv'
  OBVIOUS
<1> USE DEF ReportInv
<1>1. CASE Store
  <2>1. /\ UNCHANGED <<scdref, ifaces, changed, queued, reachability, network>>
        /\ airport' \in [AirPorts -> AirPortValue]
        /\ ipv4' \in [Iface -> Ipv4Value] /\ changedKeys' \in SUBSET Key
        /\ missed' \in SUBSET {"change", "removal"}
    BY <1>1, StoreTypes DEF watcherVars
  <2>2. TypeOK'
    BY <2>1 DEF TypeOK
  <2>3. CacheSound' /\ ReportPending' /\ reachability' = network'
    BY <2>1 DEF CacheSound, ReportPending, ValidIfaces
  <2>q. QED BY <2>2, <2>3
<1>2. CASE registerWithSc
  <2>1. processScInfo(Present(Key)) /\ _ifaceChanged(Present(Key))
    BY <1>2 DEF registerWithSc
  <2>2. /\ UNCHANGED <<airport, ipv4, changedKeys, missed, reachability, network>>
        /\ scdref' = "copied"
    BY <1>2 DEF registerWithSc, storeVars
  <2>3. /\ ifaces' \in [Iface -> IfaceDescr]
        /\ changed' \in BOOLEAN /\ queued' \in Nat
        /\ CacheSound' /\ ReportPending' /\ reachability' = network'
    BY <2>1, <2>2, ReadStep
  <2>q. QED BY <2>2, <2>3 DEF TypeOK
<1>3. CASE SetNotificationKeys
  BY <1>3 DEF SetNotificationKeys, storeVars, TypeOK, CacheSound, ReportPending, ValidIfaces
<1>4. CASE scCallback
  <2>1. /\ UNCHANGED <<airport, ipv4, scdref, reachability, network>>
        /\ changedKeys' = {} /\ missed' \in SUBSET {"change", "removal"}
    BY <1>4 DEF scCallback, TypeOK
  <2>2. CASE processScInfo(Present(changedKeys)) /\ _ifaceChanged(Present(changedKeys))
    <3>1. changedKeys \in SUBSET Key
      BY DEF TypeOK
    <3>2. /\ ifaces' \in [Iface -> IfaceDescr]
          /\ changed' \in BOOLEAN /\ queued' \in Nat
          /\ CacheSound' /\ ReportPending' /\ reachability' = network'
      BY <2>1, <2>2, <3>1, ReadStep
    <3>q. QED BY <2>1, <3>2 DEF TypeOK
  <2>3. CASE UNCHANGED <<ifaces, changed, queued>>
    BY <2>1, <2>3 DEF TypeOK, CacheSound, ReportPending, ValidIfaces
  <2>q. QED BY <1>4, <2>2, <2>3 DEF scCallback
<1>5. CASE ifaceProcessChanges
  <2>1. /\ ifaces' = [i \in Iface |-> IF i \in Iface THEN Asked(ifaces[i]) ELSE ifaces[i]]
        /\ UNCHANGED <<airport, ipv4, changedKeys, missed, scdref>>
        /\ changed' = FALSE /\ queued > 0 /\ queued' = queued - 1
        /\ reachability' = \E i \in Iface : isValid(ifaces[i])
        /\ network' = IF reachability' # reachability THEN reachability' ELSE network
    BY <1>5 DEF ifaceProcessChanges, storeVars
  <2>2. /\ ifaces' \in [Iface -> IfaceDescr] /\ CacheSound'
        /\ ValidIfaces' = ValidIfaces
    BY <2>1, AskedStep
  <2>3. queued' = 0
    BY <2>1 DEF TypeOK, ReportPending
  <2>4. reachability' = (ValidIfaces # {})
    BY <2>1 DEF CacheSound, ValidIfaces
  <2>5. network' = reachability'
    BY <2>1
  <2>6. ReportPending'
    BY <2>1, <2>2, <2>3, <2>4, <2>5 DEF ReportPending
  <2>7. reachability' \in BOOLEAN /\ network' \in BOOLEAN
    <3>1. (ValidIfaces # {}) \in BOOLEAN
      OBVIOUS
    <3>2. reachability' \in BOOLEAN
      BY <2>4, <3>1, Zenon
    <3>q. QED BY <2>5, <3>2, Zenon
  <2>8. TypeOK'
    <3>1. changed' = FALSE
      BY <1>5 DEF ifaceProcessChanges
    <3>2. changed' \in BOOLEAN /\ queued' \in Nat
      BY <2>3, <3>1
    <3>3. UNCHANGED <<airport, ipv4, changedKeys, missed, scdref>>
      BY <2>1
    <3>q. QED BY <2>2, <2>7, <3>2, <3>3 DEF TypeOK
  <2>q. QED BY <2>2, <2>5, <2>6, <2>8
<1>6. CASE _mainInterface
  <2>1. PICK asked \in SUBSET {i \in Iface : ifaces[i].known} :
          ifaces' = [i \in Iface |-> IF i \in asked THEN Asked(ifaces[i]) ELSE ifaces[i]]
    BY <1>6 DEF _mainInterface
  <2>2. UNCHANGED <<airport, ipv4, changedKeys, missed, scdref, changed, queued, reachability, network>>
    BY <1>6 DEF _mainInterface, storeVars
  <2>3. /\ ifaces' \in [Iface -> IfaceDescr] /\ CacheSound'
        /\ ValidIfaces' = ValidIfaces
    BY <2>1, AskedStep
  <2>q. QED BY <2>2, <2>3 DEF TypeOK, ReportPending
<1>7. CASE UNCHANGED networkVars
  BY <1>7 DEF networkVars, storeVars, watcherVars, TypeOK, CacheSound, ReportPending, ValidIfaces
<1>q. QED BY <1>1, <1>2, <1>3, <1>4, <1>5, <1>6, <1>7 DEF Next

\* ReportInv is an invariant.
LEMMA ReportAlways == Spec => []ReportInv
BY ReportInit, ReportStep, PTL DEF Spec

\* Every variable of the watcher keeps its type, whatever faults the store has.
THEOREM WatcherTypes == Spec => []TypeOK
<1>1. ReportInv => TypeOK
  BY DEF ReportInv
<1>q. QED BY <1>1, ReportAlways, PTL

\* isValid never answers from a stale cached value, though the getters of the panel
\* clear the touched flag before the report runs.
THEOREM CacheIsSound == Spec => []CacheSound
<1>1. ReportInv => CacheSound
  BY DEF ReportInv
<1>q. QED BY <1>1, ReportAlways, PTL

\* changed, and the report waiting in the run loop, never disagree, and without a
\* waiting report the client knows what the watcher knows.
THEOREM NoReportLost == Spec => []ReportPending
<1>1. ReportInv => ReportPending
  BY DEF ReportInv
<1>q. QED BY <1>1, ReportAlways, PTL

-----------------------------------------------------------------------------
\* The watcher implements NetworkWatch: its client is told only by a report, and a
\* report tells what is so when it is made.  (That one comes is left to TLC.)
THEOREM ImplementsWatchSafety == Spec => Watch!WatchSafety
<1>1. Init => Watch!WatchInit
  <2>1. ~Validity(NoDescr)
    BY DEF NoDescr, Validity
  <2>q. QED BY <2>1 DEF Init, ValidIfaces, Watch!WatchInit
<1>2. ReportInv /\ [Next]_networkVars => [Watch!WatchNext]_(Watch!watchVars)
  <2> SUFFICES ASSUME ReportInv, [Next]_networkVars
               PROVE  [Watch!WatchNext]_(Watch!watchVars)
    OBVIOUS
  <2>1. CASE Store
    BY <2>1, StoreTypes DEF ReportInv, watcherVars, ValidIfaces, Watch!watchVars
  <2>2. CASE registerWithSc \/ scCallback
    <3>1. ValidIfaces' \in SUBSET Iface
      BY DEF ValidIfaces
    <3>2. UNCHANGED network
      BY <2>2 DEF registerWithSc, scCallback
    <3>q. QED BY <3>1, <3>2 DEF Watch!WatchNext, Watch!Change
  <2>3. CASE SetNotificationKeys
    BY <2>3 DEF SetNotificationKeys, ValidIfaces, Watch!watchVars
  <2>4. CASE ifaceProcessChanges
    <3>1. /\ ifaces' = [i \in Iface |-> IF i \in Iface THEN Asked(ifaces[i]) ELSE ifaces[i]]
          /\ changed' = FALSE
      BY <2>4 DEF ifaceProcessChanges
    <3>2. ValidIfaces' = ValidIfaces
      BY <3>1, AskedStep DEF ReportInv
    <3>3. network' = (ValidIfaces' # {})
      BY <3>1, ReportStep DEF ReportInv, ReportPending
    <3>q. QED BY <3>2, <3>3 DEF Watch!WatchNext, Watch!Report
  <2>5. CASE _mainInterface
    <3>1. PICK asked \in SUBSET {i \in Iface : ifaces[i].known} :
            ifaces' = [i \in Iface |-> IF i \in asked THEN Asked(ifaces[i]) ELSE ifaces[i]]
      BY <2>5 DEF _mainInterface
    <3>2. ValidIfaces' = ValidIfaces
      BY <3>1, AskedStep DEF ReportInv
    <3>3. UNCHANGED network
      BY <2>5 DEF _mainInterface
    <3>q. QED BY <3>2, <3>3 DEF Watch!watchVars
  <2>6. CASE UNCHANGED networkVars
    BY <2>6 DEF networkVars, watcherVars, ValidIfaces, Watch!watchVars
  <2>q. QED BY <2>1, <2>2, <2>3, <2>4, <2>5, <2>6 DEF Next
<1>q. QED BY <1>1, <1>2, ReportAlways, PTL DEF Spec, Watch!WatchSafety

-----------------------------------------------------------------------------
(* What the client knows and what the store says.                          *)

\* The data of an interface after its keys were read is the store's.
LEMMA ReadSyncs ==
    ASSUME TypeOK, NEW keys \in SUBSET Key, NEW i \in Iface
    PROVE  LET d == Read(Present(keys), i) IN
           /\ IF <<"IPv4", i>> \in keys /\ ipv4[i] # "absent" THEN d.addresses = ipv4[i]
              ELSE d.addresses = ifaces[i].addresses
           /\ IF <<"AirPort", i>> \in keys THEN d.isAirport /\ d.validAirport = (airport[i] = "ready")
              ELSE /\ d.validAirport = ifaces[i].validAirport
                   /\ d.isAirport = ifaces[i].isAirport
<1>1. /\ <<"IPv4", i>> \in Present(keys) <=> <<"IPv4", i>> \in keys /\ ipv4[i] # "absent"
      /\ <<"AirPort", i>> \in Present(keys) <=> <<"AirPort", i>> \in keys
  BY DEF Present
<1>2. ifaces[i] \in IfaceDescr
  BY DEF TypeOK
<1>3. \A d \in IfaceDescr, a \in Addresses :
        /\ setAddresses(d, a) \in IfaceDescr
        /\ setAddresses(d, a).addresses = a
        /\ setAddresses(d, a).validAirport = d.validAirport
        /\ setAddresses(d, a).isAirport = d.isAirport
  BY DEF setAddresses, IfaceDescr
<1>4. \A d \in IfaceDescr, v \in AirPortValue :
        /\ setSsid(d, v).addresses = d.addresses
        /\ setSsid(d, v).validAirport = (v = "ready")
        /\ setSsid(d, v).isAirport = TRUE
  BY DEF setSsid, IfaceDescr
<1>5. /\ <<"IPv4", i>> \in Present(keys) => ipv4[i] \in Addresses
      /\ <<"AirPort", i>> \in Present(keys) => airport[i] \in AirPortValue
  BY PresentKeys
<1> DEFINE a == IF <<"IPv4", i>> \in Present(keys) THEN setAddresses(ifaces[i], ipv4[i])
                ELSE ifaces[i]
<1>6. /\ a \in IfaceDescr
      /\ a.validAirport = ifaces[i].validAirport /\ a.isAirport = ifaces[i].isAirport
      /\ IF <<"IPv4", i>> \in keys /\ ipv4[i] # "absent" THEN a.addresses = ipv4[i]
         ELSE a.addresses = ifaces[i].addresses
  BY <1>1, <1>2, <1>3, <1>5
<1>7. Read(Present(keys), i) = IF <<"AirPort", i>> \in keys THEN setSsid(a, airport[i]) ELSE a
  BY <1>1 DEF Read
<1> HIDE DEF a
<1>8. CASE <<"AirPort", i>> \in keys
  BY <1>1, <1>4, <1>5, <1>6, <1>7, <1>8
<1>9. CASE <<"AirPort", i>> \notin keys
  BY <1>6, <1>7, <1>9
<1>q. QED BY <1>8, <1>9

\* Asking a descriptor leaves what was read from the store alone.
LEMMA AskedKeepsData ==
    ASSUME NEW d \in IfaceDescr
    PROVE  /\ Asked(d).addresses = d.addresses
           /\ Asked(d).validAirport = d.validAirport
           /\ Asked(d).isAirport = d.isAirport
BY DEF Asked, IfaceDescr

\* Nothing is out of date before the watcher has copied anything.
LEMMA StoreInit == Init => StoreInv
BY ReportInit DEF Init, StoreInv, Synced, Absent, Fresh, ReportInv

\* Every step keeps StoreInv.
LEMMA StoreStep == StoreInv /\ TypeOK' /\ [Next]_networkVars => StoreInv'
<1> SUFFICES ASSUME StoreInv, TypeOK', [Next]_networkVars PROVE StoreInv'
  OBVIOUS
<1> USE DEF StoreInv
<1>1. CASE Store
  <2>1. ASSUME NEW i \in AirPorts, AirPortChanges(i) PROVE StoreInv'
    BY <2>1 DEF AirPortChanges, Notify, watcherVars, Synced, Absent, Fresh, TypeOK
  <2>2. ASSUME NEW i \in Iface, Ipv4Changes(i) PROVE StoreInv'
    BY <2>2 DEF Ipv4Changes, Notify, watcherVars, Synced, Absent, Fresh, TypeOK
  <2>q. QED BY <1>1, <2>1, <2>2 DEF Store
<1>2. CASE registerWithSc
  <2>1. /\ ifaces' = [i \in Iface |-> Read(Present(Key), i)]
        /\ scdref = "none" /\ scdref' = "copied"
        /\ UNCHANGED <<airport, ipv4, changedKeys, missed>>
    BY <1>2 DEF registerWithSc, processScInfo, Read, storeVars
  <2>2. ASSUME NEW i \in Iface
        PROVE  /\ ipv4'[i] # "absent" => ifaces'[i].addresses = ipv4'[i]
               /\ ipv4'[i] = "absent" => ifaces'[i].addresses = "none"
               /\ i \in AirPorts => /\ ifaces'[i].isAirport
                                    /\ ifaces'[i].validAirport = (airport'[i] = "ready")
               /\ i \notin AirPorts => ~ifaces'[i].isAirport
    <3> DEFINE d == Read(Present(Key), i)
    <3>0. ifaces[i].addresses = "none" /\ ifaces[i].isAirport = FALSE
      <4>1. ifaces[i] = NoDescr
        BY <2>1 DEF Fresh
      <4>q. QED BY <4>1 DEF NoDescr
    <3>1. ifaces'[i] = d /\ ipv4'[i] = ipv4[i] /\ (i \in AirPorts => airport'[i] = airport[i])
      BY <2>1
    <3>2. Key \in SUBSET Key
      OBVIOUS
    <3>3. /\ IF <<"IPv4", i>> \in Key /\ ipv4[i] # "absent" THEN d.addresses = ipv4[i]
             ELSE d.addresses = ifaces[i].addresses
          /\ IF <<"AirPort", i>> \in Key THEN d.isAirport /\ d.validAirport = (airport[i] = "ready")
             ELSE /\ d.validAirport = ifaces[i].validAirport
                  /\ d.isAirport = ifaces[i].isAirport
      BY <3>2, ReadSyncs
    <3> HIDE DEF d
    <3>4. CASE i \in AirPorts
      <4>1. <<"AirPort", i>> \in Key /\ <<"IPv4", i>> \in Key
        BY <3>4 DEF Key
      <4>q. QED BY <3>0, <3>1, <3>3, <3>4, <4>1
    <3>5. CASE i \notin AirPorts
      <4>1. <<"AirPort", i>> \notin Key /\ <<"IPv4", i>> \in Key
        BY <3>5 DEF Key
      <4>2. d.isAirport = ifaces[i].isAirport
        BY <3>3, <4>1
      <4>3. d.isAirport = FALSE
        BY <3>0, <4>2
      <4>q. QED BY <3>0, <3>1, <3>3, <3>5, <4>1, <4>3
    <3>q. QED BY <3>4, <3>5
  <2>q. QED BY <2>1, <2>2 DEF Synced, Absent, Fresh
<1>3. CASE SetNotificationKeys
  BY <1>3 DEF SetNotificationKeys, storeVars, Synced, Absent, Fresh
<1>4. CASE scCallback
  <2>1. /\ changedKeys \in SUBSET Key /\ changedKeys # {} /\ changedKeys' = {}
        /\ UNCHANGED <<airport, ipv4, scdref>>
    BY <1>4 DEF scCallback, TypeOK
  <2>2. scdref # "none"
    BY <2>1 DEF Fresh
  <2>3. CASE processScInfo(Present(changedKeys)) /\ UNCHANGED missed
    <3>1. ifaces' = [i \in Iface |-> Read(Present(changedKeys), i)]
      BY <2>3 DEF processScInfo, Read
    <3>2. ASSUME NEW i \in Iface
          PROVE  LET d == ifaces'[i] IN
                 /\ IF <<"IPv4", i>> \in changedKeys /\ ipv4[i] # "absent"
                    THEN d.addresses = ipv4[i] ELSE d.addresses = ifaces[i].addresses
                 /\ IF <<"AirPort", i>> \in changedKeys
                    THEN d.isAirport /\ d.validAirport = (airport[i] = "ready")
                    ELSE /\ d.validAirport = ifaces[i].validAirport
                         /\ d.isAirport = ifaces[i].isAirport
      <4>1. ifaces'[i] = Read(Present(changedKeys), i)
        BY <3>1
      <4>q. QED BY <2>1, <4>1, ReadSyncs
    <3>3. \A i \in Iface : i \notin AirPorts => <<"AirPort", i>> \notin changedKeys
      BY <2>1 DEF Key
    <3>4. Synced'
      BY <2>1, <2>3, <3>2, <3>3 DEF Synced
    <3>5. Absent'
      BY <2>1, <2>2, <2>3, <3>2 DEF Absent
    <3>q. QED BY <2>1, <2>2, <3>4, <3>5 DEF Fresh
  <2>4. CASE "change" \in missed' /\ missed \subseteq missed' /\ UNCHANGED ifaces
    BY <2>1, <2>2, <2>4 DEF Synced, Absent, Fresh
  <2>q. QED BY <1>4, <2>3, <2>4 DEF scCallback
<1>5. CASE ifaceProcessChanges \/ _mainInterface
  <2>1. PICK asked \in SUBSET Iface :
          ifaces' = [i \in Iface |-> IF i \in asked THEN Asked(ifaces[i]) ELSE ifaces[i]]
    <3>1. CASE ifaceProcessChanges
      <4>1. ifaces' = [i \in Iface |-> IF i \in Iface THEN Asked(ifaces[i]) ELSE ifaces[i]]
        BY <3>1 DEF ifaceProcessChanges
      <4>q. QED BY <4>1
    <3>2. CASE _mainInterface
      BY <3>2 DEF _mainInterface
    <3>q. QED BY <1>5, <3>1, <3>2
  <2>2. UNCHANGED <<airport, ipv4, changedKeys, missed, scdref>>
    BY <1>5 DEF ifaceProcessChanges, _mainInterface, storeVars
  <2>3. \A i \in Iface : /\ ifaces'[i].addresses = ifaces[i].addresses
                          /\ ifaces'[i].validAirport = ifaces[i].validAirport
                          /\ ifaces'[i].isAirport = ifaces[i].isAirport
    BY <2>1, AskedKeepsData DEF TypeOK
  <2>4. Synced' /\ Absent'
    BY <2>2, <2>3 DEF Synced, Absent
  <2>5. Fresh'
    <3>1. \A i \in Iface : Asked(NoDescr) = NoDescr
      <4>1. isValid(NoDescr) = FALSE
        BY DEF isValid, NoDescr
      <4>2. Asked(NoDescr) = [NoDescr EXCEPT !.isvalid = FALSE, !.touched = FALSE]
        BY <4>1 DEF Asked
      <4>q. QED BY <4>2 DEF NoDescr
    <3>q. QED BY <2>1, <2>2, <3>1 DEF Fresh
  <2>q. QED BY <2>4, <2>5
<1>6. CASE UNCHANGED networkVars
  BY <1>6 DEF networkVars, storeVars, watcherVars, Synced, Absent, Fresh
<1>q. QED BY <1>1, <1>2, <1>3, <1>4, <1>5, <1>6 DEF Next

\* StoreInv is an invariant.
LEMMA StoreAlways == Spec => []StoreInv
<1>1. ReportInv => TypeOK
  BY DEF ReportInv
<1>q. QED BY <1>1, ReportAlways, StoreInit, StoreStep, PTL DEF Spec

\* As long as every change but removals is read, a network the store calls usable is one
\* the client was told of as soon as nothing is on its way to it.
THEOREM GainIsReported == Spec => []GainReported
<1>1. ReportInv /\ StoreInv => GainReported
  <2> SUFFICES ASSUME ReportInv, StoreInv, Quiet, "change" \notin missed,
                      NEW i \in Iface, Usable(i)
               PROVE  network
    BY DEF GainReported
  <2>1. /\ ifaces[i].addresses = "real"
        /\ i \in AirPorts => ifaces[i].validAirport
        /\ i \notin AirPorts => ~ifaces[i].isAirport
    BY DEF StoreInv, Synced, Quiet, Usable
  <2>2. Validity(ifaces[i])
    BY <2>1 DEF Validity
  <2>q. QED BY <2>2 DEF ReportInv, ReportPending, ValidIfaces, Quiet
<1>q. QED BY <1>1, ReportAlways, StoreAlways, PTL

\* As long as every change, removals included, is read, the client does not rely on a
\* network the store calls unusable once nothing is on its way to it.
THEOREM LossIsReported == Spec => []LossReported
<1>1. ReportInv /\ StoreInv => LossReported
  <2> SUFFICES ASSUME ReportInv, StoreInv, Quiet, missed = {}, network
               PROVE  \E i \in Iface : Usable(i)
    BY DEF LossReported
  <2>1. PICK i \in Iface : Validity(ifaces[i])
    BY DEF ReportInv, ReportPending, ValidIfaces, Quiet
  <2>2. ifaces[i].addresses = "real" /\ (ifaces[i].isAirport => ifaces[i].validAirport)
    BY <2>1 DEF Validity
  <2>3. ipv4[i] # "absent"
    BY <2>2 DEF StoreInv, Absent, Quiet
  <2>4. /\ ifaces[i].addresses = ipv4[i]
        /\ i \in AirPorts => ifaces[i].validAirport = (airport[i] = "ready")
    BY <2>3 DEF StoreInv, Synced, Quiet
  <2>5. i \in AirPorts => ifaces[i].isAirport
    BY DEF StoreInv, Absent, Quiet
  <2>q. QED BY <2>2, <2>4, <2>5 DEF Usable
<1>q. QED BY <1>1, ReportAlways, StoreAlways, PTL
=============================================================================
