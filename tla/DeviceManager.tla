--------------------------- MODULE DeviceManager ---------------------------
(***************************************************************************)
(* The life of the bridges of one configured device that is not a radio:   *)
(* an amplifier, a Tapo plug or an antenna switch.  The three managers     *)
(* share BridgeManager; they differ in how their bridge connects.          *)
(*                                                                         *)
(* Unlike a radio's, such a bridge is registered before it is started: its *)
(* start runs in the tracked task.  A request that stops a bridge shuts it *)
(* down, sleeps 50 ms for the port to close, and only then cancels the     *)
(* task it finds under the name.                                           *)
(*                                                                         *)
(* A bridge is named after the request that constructs it; DevBoot is the  *)
(* one load_all started.                                                   *)
(***************************************************************************)
EXTENDS Naturals, FiniteSets

CONSTANTS
    DevRequests,  \* admin requests for this device, each made at most once
    DevBoot,      \* the bridge running when the admin panel comes up
    NoBridge      \* Python's None

DevBridges == DevRequests \cup {DevBoot}

ASSUME DeviceAssumption == DevBoot \notin DevRequests /\ NoBridge \notin DevBridges

VARIABLES
    device,    \* what is configured: its transport, and how requests are made
    listed,    \* manager.bridges[name]
    devTask,   \* the bridge whose start is manager.tasks[name]
    link,      \* what has become of a bridge
    wired,     \* the amplifier bridge whose fault the linked radio checks
    session,   \* the eBox has a session of this server
    logouts,   \* bridges whose log-out from the eBox is under way
    step,      \* where a request is parked
    asks,      \* what a request asks for
    victim     \* the bridge a request has popped and is shutting down

ebox == <<session, logouts>>
requests == <<step, asks, victim>>
devVars == <<device, listed, devTask, link, wired, ebox, requests>>

(* serial, cable: a port opened without suspension, by one bridge at a time  *)
(* (the antenna switch; the amplifier); tcp, http: the amplifier over the    *)
(* network; plug: discovered, then read once before its poll loop starts.    *)
(* overlap: requests may be in progress at the same time; race: a device may *)
(* answer within the 50 ms of a stop that has given its bridge up, and a     *)
(* log-out may take longer than that.                                        *)
Devices == [kind : {"serial", "cable", "tcp", "http", "plug"},
            overlap : BOOLEAN, race : BOOLEAN]

(* queued: the task has not run yet; opening: waiting for the device;        *)
(* reading: a plug's first refresh; open: its loops run; failed, cancelled:  *)
(* the task ended so; leaked: it did, with the port or connection open.      *)
Links == {"none", "queued", "opening", "reading", "open",
          "failed", "cancelled", "leaked", "closed"}
Starting(b) == link[b] \in {"queued", "opening", "reading"}

(* unlink: the device is saved without its linked radio. *)
Asks == {"save", "unlink", "delete"}
DevSteps == {"new", "sleep", "save", "done"}

DevTypeOK ==
    /\ device \in Devices
    /\ {listed, devTask, wired} \subseteq DevBridges \cup {NoBridge}
    /\ link \in [DevBridges -> Links]
    /\ session \in BOOLEAN
    /\ logouts \subseteq DevBridges
    /\ step \in [DevRequests -> DevSteps]
    /\ asks \in [DevRequests -> Asks]
    /\ victim \in [DevRequests -> DevBridges \cup {NoBridge}]

DevInit ==
    /\ device \in Devices
    /\ listed = DevBoot
    /\ devTask = DevBoot
    /\ link = [b \in DevBridges |-> IF b = DevBoot THEN "queued" ELSE "none"]
    /\ wired \in IF device.kind = "plug" THEN {NoBridge} ELSE {DevBoot, NoBridge}
    /\ session = FALSE
    /\ logouts = {}
    /\ step = [r \in DevRequests |-> "new"]
    /\ asks \in [DevRequests -> Asks]
    /\ victim = [r \in DevRequests |-> NoBridge]

-----------------------------------------------------------------------------
(* Helpers *)

DevIdle == \A r \in DevRequests : step[r] \in {"new", "done"}

\* A request may begin: in turns, when the one before has been answered and the
\* task it created has had its first run.
MayBegin(r) ==
    /\ step[r] = "new"
    /\ device.overlap \/ (DevIdle /\ \A b \in DevBridges : link[b] # "queued")

Advance(r, s) == step' = [step EXCEPT ![r] = s]

SetLink(b, l) == link' = [link EXCEPT ![b] = l]

\* A start that is cancelled ends where it is.  CancelledError is no Exception:
\* _run does not deregister the bridge.
Cancelled(b) ==
    [link EXCEPT ![b] = CASE link[b] \in {"queued", "opening"} -> "cancelled"
                          [] link[b] = "reading" -> "leaked"
                          [] OTHER -> link[b]]

\* Pops the task and cancels it, whosever it is by now.
CancelDevTask ==
    /\ devTask' = NoBridge
    /\ link' = IF devTask = NoBridge THEN link ELSE Cancelled(devTask)

\* _run: the start raised; the bridge is taken off the list if it is still there.
StartRaised(b, l) ==
    /\ SetLink(b, l)
    /\ listed' = IF listed = b THEN NoBridge ELSE listed

\* The bridge is wired to the linked radio, or that is not running.
Wire(b) == \/ wired' = b
           \/ wired = NoBridge /\ UNCHANGED wired

-----------------------------------------------------------------------------
(* Requests *)

\* reload or remove: stop pops the bridge and shuts it down.  What is open is
\* closed and its loops are cancelled; a bridge whose connection is not there
\* yet has nothing to close and goes on starting, and so does a plug in its
\* first refresh.  The eBox is logged out in a task of its own.  Without a
\* bridge the stop goes straight to the task.
BeginStop(r) ==
    /\ MayBegin(r)
    /\ \/ /\ listed # NoBridge
          /\ victim' = [victim EXCEPT ![r] = listed]
          /\ listed' = NoBridge
          /\ link' = IF link[listed] = "open" THEN [link EXCEPT ![listed] = "closed"] ELSE link
          /\ logouts' = IF device.kind = "http" THEN logouts \cup {listed} ELSE logouts
          /\ Advance(r, "sleep")
          /\ UNCHANGED devTask
       \/ /\ listed = NoBridge
          /\ CancelDevTask
          /\ Advance(r, "save")
          /\ UNCHANGED <<listed, victim, logouts>>
    /\ UNCHANGED <<device, wired, session, asks>>

\* Mutant: the task is not cancelled after the sleep.
SleptOff_NoCancel(r) ==
    /\ step[r] = "sleep"
    /\ victim[r] \in logouts => device.race
    /\ victim' = [victim EXCEPT ![r] = NoBridge]
    /\ devTask' = NoBridge
    /\ Advance(r, "save")
    /\ UNCHANGED <<device, listed, link, wired, ebox, asks>>

\* Mutant: the sleep is too short for the log-out.
SleptOff_NoWait(r) ==
    /\ step[r] = "sleep"
    /\ victim' = [victim EXCEPT ![r] = NoBridge]
    /\ CancelDevTask
    /\ Advance(r, "save")
    /\ UNCHANGED <<device, listed, wired, ebox, asks>>

\* The 50 ms are over.
SleptOff(r) ==
    /\ step[r] = "sleep"
    /\ victim[r] \in logouts => device.race
    /\ victim' = [victim EXCEPT ![r] = NoBridge]
    /\ CancelDevTask
    /\ Advance(r, "save")
    /\ UNCHANGED <<device, listed, wired, ebox, asks>>

\* Mutant: the radio keeps the first amplifier bridge it was given.
SaveDevice_WireOnce(r) ==
    /\ step[r] = "save"
    /\ Advance(r, "done")
    /\ asks[r] # "delete"
    /\ listed' = r
    /\ devTask' = r
    /\ SetLink(r, "queued")
    /\ wired' = IF wired = NoBridge THEN r ELSE wired
    /\ UNCHANGED <<device, ebox, asks, victim>>

\* The row is written or deleted (or the database raises); a saved device gets
\* a new bridge, registered with its task before anything is connected, and an
\* amplifier is wired to its radio if that is running.  One saved without a
\* radio leaves the radio wired to the bridge before.
SaveDevice(r) ==
    /\ step[r] = "save"
    /\ Advance(r, "done")
    /\ \/ UNCHANGED <<listed, devTask, link, wired>>
       \/ /\ asks[r] # "delete"
          /\ listed' = r
          /\ devTask' = r
          /\ SetLink(r, "queued")
          /\ IF device.kind = "plug" \/ asks[r] = "unlink" THEN UNCHANGED wired ELSE Wire(r)
    /\ UNCHANGED <<device, ebox, asks, victim>>

-----------------------------------------------------------------------------
(* Starting, in the bridge's own task *)

\* Mutant: a failed start stays registered.
OpenLink_StayListed(b) ==
    /\ link[b] = "queued"
    /\ SetLink(b, IF device.kind \in {"serial", "cable"} THEN "failed" ELSE "opening")
    /\ UNCHANGED <<device, listed, devTask, wired, ebox, requests>>

PortFree == \A b \in DevBridges : link[b] \notin {"open", "leaked"}

\* The task's first run.  A serial port is opened there and then; it may be
\* missing, or still be open at another bridge.  The amplifier's connect then
\* uses proto.transport, which connection_made may not have set yet: the error
\* leaves the port open.
OpenLink(b) ==
    /\ link[b] = "queued"
    /\ \/ /\ device.kind \in {"serial", "cable"} /\ PortFree
          /\ SetLink(b, "open")
          /\ UNCHANGED listed
       \/ /\ device.kind \in {"serial", "cable"}
          /\ StartRaised(b, "failed")
       \/ /\ device.kind = "cable" /\ PortFree
          /\ StartRaised(b, "leaked")
       \/ /\ device.kind \notin {"serial", "cable"}
          /\ SetLink(b, "opening")
          /\ UNCHANGED listed
    /\ UNCHANGED <<device, devTask, wired, ebox, requests>>

\* A stop that has given the bridge up is still in its 50 ms.
GivenUp(b) == \E r \in DevRequests : victim[r] = b

\* The device answers or refuses.  A plug that is found is read before its loop
\* starts; a log-in to the eBox that was answered is taken for a session.
LinkUp(b) ==
    /\ link[b] = "opening"
    /\ GivenUp(b) => device.race
    /\ \/ /\ SetLink(b, IF device.kind = "plug" THEN "reading" ELSE "open")
          /\ session' = (session \/ device.kind = "http")
          /\ UNCHANGED listed
       \/ StartRaised(b, "failed") /\ UNCHANGED session
    /\ UNCHANGED <<device, devTask, wired, logouts, requests>>

\* The plug's first refresh: an unreachable plug is offline and starts anyway,
\* any other error ends the start with the connection open.
FirstRefresh(b) ==
    /\ link[b] = "reading"
    /\ GivenUp(b) => device.race
    /\ \/ SetLink(b, "open") /\ UNCHANGED listed
       \/ StartRaised(b, "leaked")
    /\ UNCHANGED <<device, devTask, wired, ebox, requests>>

\* Mutant: the session is forgotten where it should end.
LogOut_ToNone(b) ==
    /\ b \in logouts
    /\ logouts' = logouts \ {b}
    /\ session' = NoBridge
    /\ UNCHANGED <<device, listed, devTask, link, wired, requests>>

LogOut(b) ==
    /\ b \in logouts
    /\ logouts' = logouts \ {b}
    /\ session' = FALSE
    /\ UNCHANGED <<device, listed, devTask, link, wired, requests>>

\* The linked radio is reloaded: its new bridge checks no amplifier's fault.
RadioReloaded ==
    /\ wired # NoBridge
    /\ wired' = NoBridge
    /\ UNCHANGED <<device, listed, devTask, link, ebox, requests>>

DevNext ==
    \/ \E r \in DevRequests : BeginStop(r) \/ SleptOff(r) \/ SaveDevice(r)
    \/ \E b \in DevBridges : OpenLink(b) \/ LinkUp(b) \/ FirstRefresh(b) \/ LogOut(b)
    \/ RadioReloaded

DevSpec == DevInit /\ [][DevNext]_devVars

-----------------------------------------------------------------------------
(* Properties *)

\* A listed bridge is up or on its way up, so that a command to the device
\* reaches it or is answered with 404: _run deregisters one whose start failed.
\* When requests overlap, the stop of one cancels the start of the other and
\* leaves it listed.
ListedIsAlive ==
    ~device.overlap /\ listed # NoBridge => link[listed] = "open" \/ Starting(listed)

\* A bridge whose port is open and whose loops run can be found by the next
\* request, or is in the hands of the one that is closing it.  When a device
\* answers during the 50 ms of the stop, its bridge stays up unknown to all.
OpenIsKnown ==
    ~device.overlap /\ ~device.race =>
        \A b \in DevBridges :
            link[b] = "open" \/ Starting(b) => listed = b \/ GivenUp(b)

\* The radio never checks the fault of an amplifier bridge other than the one
\* that the admin panel shows, unless the amplifier was saved without a radio.
WiredIsListed ==
    /\ wired # NoBridge
    /\ listed # NoBridge
    /\ \A r \in DevRequests : asks[r] # "unlink"
    => wired = listed

\* The log-out of the old bridge does not end the session of the new one.
ServedHasSession ==
    /\ device.kind = "http" /\ ~device.overlap /\ ~device.race
    /\ listed # NoBridge
    /\ link[listed] = "open"
    => session

\* The list of bridges and the bridges that live are the same.
BridgesAreKnown == ListedIsAlive /\ OpenIsKnown

\* What the old bridge of an amplifier leaves behind, at the radio and at the
\* eBox, does not reach its successor.
NoneLeftBehind == WiredIsListed /\ ServedHasSession
=============================================================================
