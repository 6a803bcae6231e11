---------------------------- MODULE ServerProofs ----------------------------
(***************************************************************************)
(* Proofs about the managers of radios and of devices, the transmitter of  *)
(* a bridge (OnAir) and what it tells its clients (StatusView), for any    *)
(* number of requests and bridges, any operators and any bounds.           *)
(***************************************************************************)
EXTENDS RadioManager, DeviceManager, OnAir, StatusView, SequenceLemmas

-----------------------------------------------------------------------------
(* Radios *)

\* Every variable keeps its type under every request and every client.
THEOREM ManagerTypeCorrect == Spec => []TypeOK
<1>. USE ManagerAssumption DEF Bridges
<1>1. Init => TypeOK
  <2>1. Init => mode \subseteq {"overlap", "audioless"}
    BY DEF Init
  <2>2. Init => /\ stage \in [Bridges -> Stages]
                /\ holder \in [Bridges -> BOOLEAN]
                /\ kind \in [Requests -> Kinds]
                /\ portsOf \in [Bridges -> PortSets]
    BY DEF Init, Stages
  <2>3. Init => /\ registered \in Bridges \cup {None}
                /\ task \in Bridges \cup {None}
                /\ keyed \in [PortSets -> BOOLEAN]
                /\ pc \in [Requests -> Steps]
                /\ old \in [Requests -> Bridges \cup {None}]
    BY DEF Init, Steps
  <2>. QED  BY <2>1, <2>2, <2>3 DEF TypeOK
<1>2. TypeOK /\ [Next]_vars => TypeOK'
  <2> SUFFICES ASSUME TypeOK, [Next]_vars
               PROVE  TypeOK'
    OBVIOUS
  <2>1. ASSUME NEW r \in Requests, Begin(r)
        PROVE  TypeOK'
    BY <2>1 DEF TypeOK, Begin, CancelTask, Goto, Stages, Steps, air, given
  <2>2. ASSUME NEW r \in Requests, Refused(r)
        PROVE  TypeOK'
    BY <2>2 DEF TypeOK, Refused, Goto, Steps, bridge, air, given
  <2>3. ASSUME NEW r \in Requests, Shutdown(r)
        PROVE  TypeOK'
    BY <2>3 DEF TypeOK, Shutdown, Goto, Stages, Steps, given
  <2>4. ASSUME NEW r \in Requests, Slept(r)
        PROVE  TypeOK'
    BY <2>4 DEF TypeOK, Slept, CancelTask, Goto, Stages, Steps, air, given
  <2>5. ASSUME NEW r \in Requests, Saved(r)
        PROVE  TypeOK'
    BY <2>5 DEF TypeOK, Saved, Goto, Stages, Steps, air, given
  <2>6. ASSUME NEW r \in Requests, Started(r)
        PROVE  TypeOK'
    BY <2>6 DEF TypeOK, Started, Goto, Stages, Steps, air, given
  <2>7. ASSUME NEW b \in Bridges, PttOn(b) \/ PttOff(b)
        PROVE  TypeOK'
    BY <2>7 DEF TypeOK, PttOn, PttOff, bridge, request, given
  <2>9. CASE UNCHANGED vars
    BY <2>9 DEF TypeOK, vars, bridge, air, request, given
  <2>. QED
    BY <2>1, <2>2, <2>3, <2>4, <2>5, <2>6, <2>7, <2>9 DEF Next
<1>. QED  BY <1>1, <1>2, PTL DEF Spec

-----------------------------------------------------------------------------
(* One request at a time *)

\* Nobody begins while another request is in progress.
OneAtATime ==
    \A q, r \in Requests : InProgress(q) /\ InProgress(r) => q = r

\* The inductive form of ServedInTurns: a request pops the bridge before
\* anything else and registers one only with its last step.
InTurns ==
    /\ RegisteredIsServed
    /\ OneAtATime
    /\ registered # None => Idle
ServedInv == "overlap" \notin mode => InTurns

\* Requests that take turns leave nothing registered while one is in progress.
LEMMA TurnsAreKept == Spec => []ServedInv
<1>. USE ManagerAssumption DEF Bridges
<1>1. Init => ServedInv
  BY DEF Init, ServedInv, InTurns, RegisteredIsServed, OneAtATime, Idle, InProgress
<1>2. TypeOK /\ ServedInv /\ [Next]_vars => ServedInv'
  <2> SUFFICES ASSUME TypeOK, InTurns, [Next]_vars, "overlap" \notin mode
               PROVE  InTurns'
    BY DEF Next, vars, request, given, ServedInv, Begin, Refused, Shutdown,
           Slept, Saved, Started, PttOn, PttOff
  <2> USE DEF InTurns, TypeOK, InProgress
  <2>1. ASSUME NEW r \in Requests, registered' = None,
               pc[r] = "new" => Idle,
               \E onto \in Steps : Goto(r, onto),
               pc[r] # "done"
        PROVE  InTurns'
    BY <2>1 DEF Goto, OneAtATime, Idle, RegisteredIsServed
  <2>2. ASSUME NEW r \in Requests, Begin(r)
        PROVE  InTurns'
    BY <2>1, <2>2 DEF Begin, Steps
  <2>3. ASSUME NEW r \in Requests, Refused(r)
        PROVE  InTurns'
    BY <2>3 DEF Refused, Goto, bridge, OneAtATime, Idle, RegisteredIsServed
  <2>4. ASSUME NEW r \in Requests, Shutdown(r) \/ Slept(r) \/ Saved(r)
        PROVE  InTurns'
    <3>1. registered = None
      BY <2>4 DEF Shutdown, Slept, Saved, Idle
    <3>2. /\ registered' = None
          /\ \E onto \in Steps : Goto(r, onto)
          /\ pc[r] \notin {"new", "done"}
      BY <2>4, <3>1 DEF Shutdown, Slept, Saved, Steps
    <3>. QED  BY <2>1, <3>2
  <2>5. ASSUME NEW r \in Requests, Started(r)
        PROVE  InTurns'
    <3>1. \A q \in Requests : ~InProgress(q)'
      BY <2>5 DEF Started, Goto, OneAtATime
    <3>2. RegisteredIsServed'
      BY <2>5 DEF Started, RegisteredIsServed
    <3>. QED  BY <3>1, <3>2 DEF OneAtATime, Idle
  <2>6. CASE UNCHANGED <<bridge, request>>
    BY <2>6 DEF bridge, request, OneAtATime, Idle, RegisteredIsServed
  <2>. QED
    BY <2>2, <2>3, <2>4, <2>5, <2>6 DEF Next, PttOn, PttOff, vars
<1>. QED
  BY <1>1, <1>2, ManagerTypeCorrect, PTL DEF Spec

\* As long as admin requests do not overlap, the bridge the panel shows has its
\* ports, its servers and its task, through reloads, moves to other ports,
\* failures and deletions.
THEOREM RegisteredAreServed == Spec => []ServedInTurns
<1>1. ServedInv => ServedInTurns
  BY DEF ServedInv, InTurns, ServedInTurns
<1>. QED  BY <1>1, TurnsAreKept, PTL

-----------------------------------------------------------------------------
(* What requests know of bridges *)

\* The same ports belong to one bridge at a time.
OneOwner ==
    \A a, b \in Bridges :
        HasPorts(a) /\ HasPorts(b) /\ portsOf[a] = portsOf[b] => a = b

\* A request that awaits the start of its bridge has the ports for it.
StartingHasPorts == \A r \in Requests : pc[r] = "start" => stage[r] = "opening"

\* A request that has not come to its start has not built its bridge.
Unbuilt ==
    \A r \in Requests :
        pc[r] \in {"new", "shutdown", "sleep", "save"} => stage[r] = "none"

\* A bridge that requests can know of was tracked by a request that is done.
KnownAreDone ==
    \A b \in Requests :
        (registered = b \/ \E r \in Requests : pc[r] = "shutdown" /\ old[r] = b)
            => pc[b] = "done"

\* The first request to go ahead pops the bridge that load_all started.
BootPopped ==
    \A r \in Requests :
        pc[r] \in {"shutdown", "sleep", "save", "start"} => registered # Boot

BridgesInv == OneOwner /\ StartingHasPorts /\ Unbuilt /\ KnownAreDone /\ BootPopped

\* However requests overlap, a bridge is built once, by its own request, and
\* excludes from its ports those that come with the same.
LEMMA BridgesAreBuiltOnce == Spec => []BridgesInv
<1>. USE ManagerAssumption DEF Bridges
<1>1. Init => BridgesInv
  BY DEF Init, BridgesInv, OneOwner, StartingHasPorts, Unbuilt, KnownAreDone,
         BootPopped, HasPorts
<1>2. TypeOK /\ BridgesInv /\ [Next]_vars => BridgesInv'
  <2> SUFFICES ASSUME TypeOK, BridgesInv, [Next]_vars
               PROVE  /\ OneOwner' /\ StartingHasPorts' /\ Unbuilt'
                      /\ KnownAreDone' /\ BootPopped'
    BY DEF BridgesInv
  <2> USE DEF BridgesInv, TypeOK, HasPorts, given
  <2>1. ASSUME NEW r \in Requests, Begin(r)
        PROVE  /\ OneOwner' /\ StartingHasPorts' /\ Unbuilt'
               /\ KnownAreDone' /\ BootPopped'
    <3>1. OneOwner'
      BY <2>1 DEF Begin, CancelTask, OneOwner
    <3>2. StartingHasPorts' /\ Unbuilt'
      BY <2>1 DEF Begin, CancelTask, Goto, StartingHasPorts, Unbuilt
    <3>3. KnownAreDone' /\ BootPopped'
      BY <2>1 DEF Begin, Goto, KnownAreDone, BootPopped
    <3>. QED  BY <3>1, <3>2, <3>3
  <2>2. ASSUME NEW r \in Requests, Refused(r)
        PROVE  /\ OneOwner' /\ StartingHasPorts' /\ Unbuilt'
               /\ KnownAreDone' /\ BootPopped'
    BY <2>2 DEF Refused, Goto, bridge, OneOwner, StartingHasPorts, Unbuilt,
                KnownAreDone, BootPopped
  <2>3. ASSUME NEW r \in Requests, Shutdown(r)
        PROVE  /\ OneOwner' /\ StartingHasPorts' /\ Unbuilt'
               /\ KnownAreDone' /\ BootPopped'
    <3>1. OneOwner'
      BY <2>3 DEF Shutdown, OneOwner
    <3>2. StartingHasPorts' /\ Unbuilt'
      BY <2>3 DEF Shutdown, Goto, StartingHasPorts, Unbuilt, KnownAreDone
    <3>3. KnownAreDone' /\ BootPopped'
      BY <2>3 DEF Shutdown, Goto, KnownAreDone, BootPopped
    <3>. QED  BY <3>1, <3>2, <3>3
  <2>4. ASSUME NEW r \in Requests, Slept(r)
        PROVE  /\ OneOwner' /\ StartingHasPorts' /\ Unbuilt'
               /\ KnownAreDone' /\ BootPopped'
    <3>1. OneOwner'
      BY <2>4 DEF Slept, CancelTask, OneOwner
    <3>2. StartingHasPorts' /\ Unbuilt'
      BY <2>4 DEF Slept, CancelTask, Goto, StartingHasPorts, Unbuilt
    <3>3. KnownAreDone' /\ BootPopped'
      BY <2>4 DEF Slept, Goto, KnownAreDone, BootPopped
    <3>. QED  BY <3>1, <3>2, <3>3
  <2>5. ASSUME NEW r \in Requests, Saved(r)
        PROVE  /\ OneOwner' /\ StartingHasPorts' /\ Unbuilt'
               /\ KnownAreDone' /\ BootPopped'
    <3>1. \/ stage' = stage /\ Goto(r, "done")
          \/ /\ ~Taken(portsOf[r])
             /\ stage' = [stage EXCEPT ![r] = "opening"]
             /\ Goto(r, "start") \/ Goto(r, "done")
      BY <2>5 DEF Saved
    <3>2. OneOwner'
      BY <2>5, <3>1 DEF Saved, OneOwner, Taken
    <3>3. StartingHasPorts' /\ Unbuilt'
      BY <2>5, <3>1 DEF Saved, Goto, StartingHasPorts, Unbuilt
    <3>4. KnownAreDone' /\ BootPopped'
      BY <2>5, <3>1 DEF Saved, Goto, KnownAreDone, BootPopped
    <3>. QED  BY <3>2, <3>3, <3>4
  <2>6. ASSUME NEW r \in Requests, Started(r)
        PROVE  /\ OneOwner' /\ StartingHasPorts' /\ Unbuilt'
               /\ KnownAreDone' /\ BootPopped'
    <3>1. \A b \in Bridges : HasPorts(b)' <=> HasPorts(b)
      BY <2>6 DEF Started, StartingHasPorts
    <3>2. OneOwner'
      BY <2>6, <3>1 DEF Started, OneOwner
    <3>3. StartingHasPorts' /\ Unbuilt'
      BY <2>6 DEF Started, Goto, StartingHasPorts, Unbuilt
    <3>4. KnownAreDone' /\ BootPopped'
      BY <2>6 DEF Started, Goto, KnownAreDone, BootPopped
    <3>. QED  BY <3>2, <3>3, <3>4
  <2>7. CASE UNCHANGED <<bridge, request>>
    BY <2>7 DEF bridge, request, OneOwner, StartingHasPorts, Unbuilt,
                KnownAreDone, BootPopped
  <2>. QED
    BY <2>1, <2>2, <2>3, <2>4, <2>5, <2>6, <2>7
       DEF Next, PttOn, PttOff, vars
<1>. QED
  BY <1>1, <1>2, ManagerTypeCorrect, PTL DEF Spec

-----------------------------------------------------------------------------
(* No ports are lost *)

\* A bridge that has ports can be found by a later request or is in the hands of
\* one in progress: while requests take turns, whichever ports each asks for, and
\* while they overlap, as long as those that do ask for the same ports.  Where
\* they do not, _track overwrites a bridge that has ports of its own, and where
\* no audio device can be opened the start loses its serial port.
THEOREM PortsAreAccounted == Spec => []PortsAccounted
<1>. USE ManagerAssumption DEF Bridges
<1>1. Init => PortsAccounted
  BY DEF Init, PortsAccounted, HasPorts
<1>2. /\ TypeOK /\ BridgesInv /\ ServedInv /\ PortsAccounted
      /\ [Next]_vars
      => PortsAccounted'
  <2> SUFFICES ASSUME TypeOK, BridgesInv, ServedInv, PortsAccounted, [Next]_vars,
                      "audioless" \notin mode', ("overlap" \in mode => SamePorts)'
               PROVE  \A b \in Bridges :
                        HasPorts(b)' =>
                          \/ registered' = b
                          \/ \E r \in Requests : pc'[r] = "shutdown" /\ old'[r] = b
                          \/ b \in Requests /\ pc'[b] = "start"
    BY DEF PortsAccounted
  <2>0. UNCHANGED given
    BY DEF Next, vars, request, given, Begin, Refused, Shutdown, Slept, Saved,
           Started, PttOn, PttOff
  <2>1. "audioless" \notin mode /\ ("overlap" \in mode => SamePorts)
    BY <2>0 DEF given, SamePorts
  <2>2. \A b \in Bridges :
          HasPorts(b) => \/ registered = b
                         \/ \E r \in Requests : pc[r] = "shutdown" /\ old[r] = b
                         \/ b \in Requests /\ pc[b] = "start"
    BY <2>1 DEF PortsAccounted
  <2> USE DEF TypeOK, HasPorts
  <2>3. ASSUME NEW b \in Bridges, HasPorts(b)',
               NEW r \in Requests, Begin(r) \/ Refused(r) \/ Slept(r)
        PROVE  \/ registered' = b
               \/ \E q \in Requests : pc'[q] = "shutdown" /\ old'[q] = b
               \/ b \in Requests /\ pc'[b] = "start"
    <3>1. HasPorts(b)
      BY <2>3 DEF Begin, Refused, Slept, CancelTask, bridge
    <3>. QED  BY <2>2, <2>3, <3>1 DEF Begin, Refused, Slept, Goto, bridge
  <2>4. ASSUME NEW b \in Bridges, HasPorts(b)', NEW r \in Requests, Shutdown(r)
        PROVE  \/ registered' = b
               \/ \E q \in Requests : pc'[q] = "shutdown" /\ old'[q] = b
               \/ b \in Requests /\ pc'[b] = "start"
    <3>1. HasPorts(b) /\ b # old[r]
      BY <2>4 DEF Shutdown
    <3>. QED  BY <2>2, <2>4, <3>1 DEF Shutdown, Goto
  <2>5. ASSUME NEW b \in Bridges, HasPorts(b)', NEW r \in Requests, Saved(r)
        PROVE  \/ registered' = b
               \/ \E q \in Requests : pc'[q] = "shutdown" /\ old'[q] = b
               \/ b \in Requests /\ pc'[b] = "start"
    <3>1. \/ stage' = stage /\ Goto(r, "done")
          \/ stage' = [stage EXCEPT ![r] = "opening"] /\ Goto(r, "start")
      BY <2>1, <2>5 DEF Saved
    <3>2. pc[r] = "save" /\ registered' = registered /\ old' = old
      BY <2>5 DEF Saved
    <3>. QED  BY <2>2, <2>5, <3>1, <3>2 DEF Goto
  <2>6. ASSUME NEW b \in Bridges, HasPorts(b)', NEW r \in Requests, Started(r)
        PROVE  \/ registered' = b
               \/ \E q \in Requests : pc'[q] = "shutdown" /\ old'[q] = b
               \/ b \in Requests /\ pc'[b] = "start"
    <3>1. CASE b = r
      BY <2>6, <3>1 DEF Started
    <3>2. CASE b # r
      <4>1. HasPorts(b) /\ HasPorts(r)
        BY <2>6, <3>2 DEF Started, BridgesInv, StartingHasPorts
      <4>2. CASE "overlap" \notin mode
        <5>1. registered = None /\ OneAtATime
          BY <2>6, <4>2 DEF ServedInv, InTurns, Idle, InProgress, Started
        <5>2. \A q \in Requests : pc[q] \in {"shutdown", "start"} => q = r
          BY <2>6, <5>1 DEF OneAtATime, InProgress, Started
        <5>. QED  BY <2>2, <2>6, <3>2, <4>1, <5>1, <5>2 DEF Started
      <4>3. CASE "overlap" \in mode
        <5>1. b = Boot
          BY <2>1, <3>2, <4>1, <4>3 DEF SamePorts, BridgesInv, OneOwner
        <5>2. registered # b
          BY <2>6, <5>1 DEF Started, BridgesInv, BootPopped
        <5>. QED  BY <2>2, <2>6, <4>1, <5>1, <5>2 DEF Started, Goto
      <4>. QED  BY <4>2, <4>3
    <3>. QED  BY <3>1, <3>2
  <2>7. CASE UNCHANGED <<bridge, request>>
    BY <2>2, <2>7 DEF bridge, request
  <2>. QED
    BY <2>3, <2>4, <2>5, <2>6, <2>7 DEF Next, PttOn, PttOff, vars
<1>. QED
  BY <1>1, <1>2, ManagerTypeCorrect, BridgesAreBuiltOnce, TurnsAreKept, PTL DEF Spec

-----------------------------------------------------------------------------
(* No transmitter is on for nobody *)

\* A radio keyed by RTS or DTR goes off with the port of the bridge that keyed
\* it, however requests overlap and whichever ports they ask for: the transmitter
\* at a port is on only for a PTT holder at a bridge that still has the port.
THEOREM OnAirAreHeld ==
    ASSUME Method = "line"
    PROVE  Spec => []OnAirIsHeld
<1>. USE ManagerAssumption DEF Bridges
<1> DEFINE HeldAt(p) == \E b \in Bridges : /\ portsOf[b] = p /\ holder[b]
                                           /\ stage[b] \in {"served", "unserved"}
<1>1. Init => OnAirIsHeld
  BY DEF Init, OnAirIsHeld
<1>2. TypeOK /\ BridgesInv /\ OnAirIsHeld /\ [Next]_vars => OnAirIsHeld'
  <2> SUFFICES ASSUME TypeOK, BridgesInv, OnAirIsHeld, [Next]_vars,
                      NEW p \in PortSets, keyed'[p]
               PROVE  HeldAt(p)'
    BY DEF OnAirIsHeld
  <2> USE DEF TypeOK
  <2>1. ASSUME keyed[p], portsOf' = portsOf,
               \A b \in Bridges :
                 portsOf[b] = p /\ holder[b] /\ stage[b] \in {"served", "unserved"}
                   => holder'[b] /\ stage'[b] \in {"served", "unserved"}
        PROVE  HeldAt(p)'
    BY <2>1 DEF OnAirIsHeld
  <2>2. ASSUME NEW r \in Requests, Begin(r) \/ Refused(r) \/ Slept(r)
        PROVE  HeldAt(p)'
    BY <2>1, <2>2 DEF Begin, Refused, Slept, CancelTask, bridge, air, given
  <2>3. ASSUME NEW r \in Requests, Shutdown(r)
        PROVE  HeldAt(p)'
    <3>1. keyed[p]
      BY <2>3 DEF Shutdown
    <3>2. \A b \in Bridges : portsOf[b] = p => b # old[r]
      BY <2>3 DEF Shutdown
    <3>. QED  BY <2>1, <2>3, <3>1, <3>2 DEF Shutdown, given
  <2>4. ASSUME NEW r \in Requests, Saved(r)
        PROVE  HeldAt(p)'
    <3>1. stage[r] = "none"
      BY <2>4 DEF Saved, BridgesInv, Unbuilt
    <3>2. stage' = stage \/ stage' = [stage EXCEPT ![r] = "opening"]
      BY <2>4 DEF Saved
    <3>. QED  BY <2>1, <2>4, <3>1, <3>2 DEF Saved, air, given
  <2>5. ASSUME NEW r \in Requests, Started(r)
        PROVE  HeldAt(p)'
    BY <2>1, <2>5 DEF Started, air, given
  <2>6. ASSUME NEW b \in Bridges, PttOn(b) \/ PttOff(b)
        PROVE  HeldAt(p)'
    <3>1. portsOf' = portsOf /\ stage' = stage
      BY <2>6 DEF PttOn, PttOff, bridge, request, given
    <3>2. CASE portsOf[b] = p
      BY <2>6, <3>1, <3>2 DEF PttOn, PttOff
    <3>3. CASE portsOf[b] # p
      <4>1. keyed[p]
        BY <2>6, <3>3 DEF PttOn, PttOff
      <4>2. \A c \in Bridges : c # b => holder'[c] = holder[c]
        BY <2>6 DEF PttOn, PttOff
      <4>. QED  BY <2>1, <3>1, <3>3, <4>1, <4>2
    <3>. QED  BY <3>2, <3>3
  <2>7. CASE UNCHANGED <<bridge, air, given>>
    BY <2>1, <2>7 DEF bridge, air, given
  <2>. QED
    BY <2>2, <2>3, <2>4, <2>5, <2>6, <2>7 DEF Next, vars, request
<1>. QED  BY <1>1, <1>2, ManagerTypeCorrect, BridgesAreBuiltOnce, PTL DEF Spec

-----------------------------------------------------------------------------
(* Devices *)

LEMMA CancelledTypes ==
    ASSUME DevTypeOK, NEW b \in DevBridges
    PROVE  /\ Cancelled(b) \in [DevBridges -> Links]
           /\ \A c \in DevBridges \ {b} : Cancelled(b)[c] = link[c]
           /\ Cancelled(b)[b] \notin {"queued", "opening", "reading"}
           /\ Cancelled(b)[b] = "open" => link[b] = "open"
<1> DEFINE l == CASE link[b] \in {"queued", "opening"} -> "cancelled"
                  [] link[b] = "reading" -> "leaked"
                  [] OTHER -> link[b]
<1>1. l \in Links /\ l \notin {"queued", "opening", "reading"} /\ (l = "open" => link[b] = "open")
  BY DEF DevTypeOK, Links
<1>2. Cancelled(b) = [link EXCEPT ![b] = l]
  BY DEF Cancelled
<1> HIDE DEF l
<1> QED BY <1>1, <1>2 DEF DevTypeOK

\* Every variable of the device manager keeps its type.
THEOREM DevTypeCorrect == DevSpec => []DevTypeOK
<1>1. DevInit => DevTypeOK
  BY DEF DevInit, DevTypeOK, DevBridges, Links, DevSteps
<1>2. DevTypeOK /\ [DevNext]_devVars => DevTypeOK'
  <2> SUFFICES ASSUME DevTypeOK, [DevNext]_devVars PROVE DevTypeOK'
    OBVIOUS
  <2> USE DeviceAssumption DEF Advance, SetLink, StartRaised, ebox, requests
  <2>1. CancelDevTask => devTask' = NoBridge /\ link' \in [DevBridges -> Links]
    BY CancelledTypes DEF CancelDevTask, DevTypeOK
  <2>2. ASSUME NEW r \in DevRequests, BeginStop(r) PROVE DevTypeOK'
    <3>1. step' \in [DevRequests -> DevSteps]
      BY <2>2 DEF BeginStop, DevTypeOK, DevSteps
    <3>2. link' \in [DevBridges -> Links] /\ logouts' \subseteq DevBridges
          /\ victim' \in [DevRequests -> DevBridges \cup {NoBridge}]
      BY <2>1, <2>2 DEF BeginStop, DevTypeOK, Links
    <3>3. {listed, devTask, wired}' \subseteq DevBridges \cup {NoBridge}
      BY <2>1, <2>2 DEF BeginStop, DevTypeOK
    <3> QED BY <2>2, <3>1, <3>2, <3>3 DEF BeginStop, DevTypeOK
  <2>3. ASSUME NEW r \in DevRequests, SleptOff(r) PROVE DevTypeOK'
    BY <2>1, <2>3 DEF SleptOff, DevTypeOK, DevSteps
  <2>4. ASSUME NEW r \in DevRequests, SaveDevice(r) PROVE DevTypeOK'
    <3>1. {listed, devTask, wired}' \subseteq DevBridges \cup {NoBridge}
      BY <2>4 DEF SaveDevice, DevTypeOK, Wire, DevBridges
    <3>2. link' \in [DevBridges -> Links] /\ step' \in [DevRequests -> DevSteps]
      BY <2>4 DEF SaveDevice, DevTypeOK, Links, DevSteps, DevBridges
    <3> QED BY <2>4, <3>1, <3>2 DEF SaveDevice, DevTypeOK
  <2>5. ASSUME NEW b \in DevBridges, OpenLink(b) PROVE DevTypeOK'
    <3>1. link' \in [DevBridges -> Links] /\ listed' \in DevBridges \cup {NoBridge}
      BY <2>5 DEF OpenLink, DevTypeOK, Links
    <3> QED BY <2>5, <3>1 DEF OpenLink, DevTypeOK
  <2>6. ASSUME NEW b \in DevBridges, LinkUp(b) PROVE DevTypeOK'
    <3>1. link' \in [DevBridges -> Links] /\ listed' \in DevBridges \cup {NoBridge}
      BY <2>6 DEF LinkUp, DevTypeOK, Links
    <3>2. session' \in BOOLEAN
      BY <2>6 DEF LinkUp, DevTypeOK
    <3> QED BY <2>6, <3>1, <3>2 DEF LinkUp, DevTypeOK
  <2>7. ASSUME NEW b \in DevBridges, FirstRefresh(b) PROVE DevTypeOK'
    <3>1. link' \in [DevBridges -> Links] /\ listed' \in DevBridges \cup {NoBridge}
      BY <2>7 DEF FirstRefresh, DevTypeOK, Links
    <3> QED BY <2>7, <3>1 DEF FirstRefresh, DevTypeOK
  <2>8. ASSUME NEW b \in DevBridges, LogOut(b) PROVE DevTypeOK'
    BY <2>8 DEF LogOut, DevTypeOK
  <2>9. CASE RadioReloaded
    BY <2>9 DEF RadioReloaded, DevTypeOK
  <2>10. CASE UNCHANGED devVars
    BY <2>10 DEF devVars, DevTypeOK
  <2> QED BY <2>2, <2>3, <2>4, <2>5, <2>6, <2>7, <2>8, <2>9, <2>10 DEF DevNext
<1> QED BY <1>1, <1>2, PTL DEF DevSpec

\* Requests that take turns: from a stop to the save nothing is listed, and what
\* is listed is the bridge whose start is tracked.
OneStop ==
    /\ \A r \in DevRequests : step[r] \in {"sleep", "save"} =>
          listed = NoBridge /\ \A q \in DevRequests \ {r} : step[q] \notin {"sleep", "save"}
    /\ \A r \in DevRequests : victim[r] # NoBridge => step[r] = "sleep"
    /\ listed # NoBridge => devTask = listed

\* Where moreover no device answers within the 50 ms, the bridge given up stays
\* what it was for as long as they last, and its log-out ends before they do.
HeldStill ==
    /\ \A r \in DevRequests : victim[r] # NoBridge =>
          devTask = victim[r] /\ link[victim[r]] \in {"closed", "opening", "reading"}
    /\ \A b \in logouts : GivenUp(b)

\* No amplifier is wired to a plug, and only a plug is read before it is open.
KindsApart ==
    /\ device.kind = "plug" => wired = NoBridge
    /\ device.kind # "plug" => \A b \in DevBridges : link[b] # "reading"

\* A start, in whichever of its steps, ends where the bridge is known or makes it
\* unknown and dead.
StartStep(b) == OpenLink(b) \/ LinkUp(b) \/ FirstRefresh(b)

LEMMA StartStepEffect ==
    ASSUME DevTypeOK, KindsApart, NEW b \in DevBridges, StartStep(b)
    PROVE  /\ Starting(b)
           /\ UNCHANGED <<device, devTask, wired, logouts, requests>>
           /\ \A c \in DevBridges \ {b} : link'[c] = link[c]
           /\ \/ listed' = listed /\ link'[b] \in {"open", "opening", "reading"}
              \/ /\ listed' = IF listed = b THEN NoBridge ELSE listed
                 /\ link'[b] \in {"failed", "leaked"}
           /\ link'[b] = "reading" => device.kind = "plug"
           /\ GivenUp(b) /\ link[b] # "queued" => device.race
           /\ session => session'
           /\ device.kind = "http" /\ link'[b] = "open" => session'
           /\ link'[b] # "queued"
<1> USE DEF DevTypeOK, SetLink, StartRaised, Starting, requests, ebox, KindsApart
<1>1. CASE OpenLink(b)
  BY <1>1 DEF OpenLink
<1>2. CASE LinkUp(b)
  <2>1. /\ Starting(b)
        /\ UNCHANGED <<device, devTask, wired, logouts, requests>>
        /\ GivenUp(b) /\ link[b] # "queued" => device.race
        /\ \A c \in DevBridges \ {b} : link'[c] = link[c]
    BY <1>2 DEF LinkUp
  <2>2. CASE StartRaised(b, "failed") /\ UNCHANGED session
    BY <2>1, <2>2
  <2>3. CASE /\ SetLink(b, IF device.kind = "plug" THEN "reading" ELSE "open")
             /\ session' = (session \/ device.kind = "http")
             /\ UNCHANGED listed
    <3>1. /\ link'[b] = IF device.kind = "plug" THEN "reading" ELSE "open"
          /\ session => session'
          /\ device.kind = "http" => session'
      BY <2>3
    <3> QED BY <2>1, <2>3, <3>1
  <2> QED BY <1>2, <2>2, <2>3 DEF LinkUp
<1>3. CASE FirstRefresh(b)
  BY <1>3 DEF FirstRefresh
<1> QED BY <1>1, <1>2, <1>3 DEF StartStep

\* What every step makes of requests that take turns.
LEMMA OneStopKept ==
    ASSUME DevTypeOK, KindsApart, ~device.overlap, OneStop, ListedIsAlive, [DevNext]_devVars
    PROVE  OneStop' /\ ListedIsAlive'
<1> USE DeviceAssumption DEF DevTypeOK, OneStop, ListedIsAlive, Advance, SetLink, ebox, requests,
                             Starting
<1>1. ASSUME NEW r \in DevRequests, BeginStop(r) PROVE OneStop' /\ ListedIsAlive'
  <2>1. \A q \in DevRequests : step[q] \in {"new", "done"}
    BY <1>1 DEF BeginStop, MayBegin, DevIdle
  <2>2. CASE listed # NoBridge
    BY <1>1, <2>1, <2>2 DEF BeginStop
  <2>3. CASE listed = NoBridge
    BY <1>1, <2>1, <2>3 DEF BeginStop, CancelDevTask
  <2> QED BY <2>2, <2>3
<1>2. ASSUME NEW r \in DevRequests, SleptOff(r) PROVE OneStop' /\ ListedIsAlive'
  BY <1>2 DEF SleptOff, CancelDevTask
<1>3. ASSUME NEW r \in DevRequests, SaveDevice(r) PROVE OneStop' /\ ListedIsAlive'
  BY <1>3 DEF SaveDevice, DevBridges
<1>4. ASSUME NEW b \in DevBridges, StartStep(b) PROVE OneStop' /\ ListedIsAlive'
  BY <1>4, StartStepEffect
<1>5. ASSUME NEW b \in DevBridges, LogOut(b) PROVE OneStop' /\ ListedIsAlive'
  BY <1>5 DEF LogOut
<1>6. CASE RadioReloaded
  BY <1>6 DEF RadioReloaded
<1>7. CASE UNCHANGED devVars
  BY <1>7 DEF devVars
<1> QED BY <1>1, <1>2, <1>3, <1>4, <1>5, <1>6, <1>7 DEF DevNext, StartStep

\* And of those that no late answer disturbs.
LEMMA HeldStillKept ==
    ASSUME DevTypeOK, KindsApart, ~device.overlap, ~device.race, OneStop, ListedIsAlive,
           HeldStill, OpenIsKnown, ServedHasSession, [DevNext]_devVars
    PROVE  HeldStill' /\ OpenIsKnown' /\ ServedHasSession'
<1> USE DeviceAssumption DEF DevTypeOK, OneStop, ListedIsAlive, HeldStill, OpenIsKnown, ServedHasSession,
                             Starting, GivenUp, Advance, SetLink, ebox, requests
<1>1. ASSUME NEW r \in DevRequests, BeginStop(r)
      PROVE  HeldStill' /\ OpenIsKnown' /\ ServedHasSession'
  <2>1. /\ \A q \in DevRequests : step[q] \in {"new", "done"} /\ victim[q] = NoBridge
        /\ \A b \in DevBridges : link[b] # "queued"
        /\ logouts = {}
    BY <1>1 DEF BeginStop, MayBegin, DevIdle
  <2>2. CASE listed # NoBridge
    BY <1>1, <2>1, <2>2 DEF BeginStop
  <2>3. CASE listed = NoBridge
    <3>1. UNCHANGED <<listed, victim, logouts>>
      BY <1>1, <2>3 DEF BeginStop
    <3>2. \A b \in DevBridges : link[b] \notin {"open", "queued", "opening", "reading"}
      BY <2>1, <2>3
    <3>3. \A b \in DevBridges : link'[b] \notin {"open", "queued", "opening", "reading"}
      BY <1>1, <2>3, <3>2, CancelledTypes DEF BeginStop, CancelDevTask
    <3> QED BY <2>1, <2>3, <3>1, <3>3
  <2> QED BY <2>2, <2>3
<1>2. ASSUME NEW r \in DevRequests, SleptOff(r)
      PROVE  HeldStill' /\ OpenIsKnown' /\ ServedHasSession'
  <2>1. listed = NoBridge /\ \A q \in DevRequests \ {r} : victim[q] = NoBridge
    BY <1>2 DEF SleptOff
  <2>2. logouts = {}
    BY <1>2, <2>1 DEF SleptOff
  <2>3. \A b \in DevBridges : link'[b] \notin {"open", "queued", "opening", "reading"}
    BY <1>2, <2>1, CancelledTypes DEF SleptOff, CancelDevTask
  <2>4. \A q \in DevRequests : victim'[q] = NoBridge
    BY <1>2, <2>1 DEF SleptOff
  <2> QED BY <1>2, <2>1, <2>2, <2>3, <2>4 DEF SleptOff
<1>3. ASSUME NEW r \in DevRequests, SaveDevice(r)
      PROVE  HeldStill' /\ OpenIsKnown' /\ ServedHasSession'
  <2>1. listed = NoBridge /\ logouts = {} /\ \A q \in DevRequests : victim[q] = NoBridge
    BY <1>3 DEF SaveDevice
  <2>2. \A b \in DevBridges : link[b] \notin {"open", "queued", "opening", "reading"}
    BY <2>1
  <2> QED BY <1>3, <2>1, <2>2 DEF SaveDevice, DevBridges
<1>4. ASSUME NEW b \in DevBridges, StartStep(b)
      PROVE  HeldStill' /\ OpenIsKnown' /\ ServedHasSession'
  <2>1. ~GivenUp(b) /\ listed = b
    BY <1>4, StartStepEffect
  <2>2. UNCHANGED <<device, devTask, logouts, victim>>
    BY <1>4, StartStepEffect
  <2>3. HeldStill'
    BY <1>4, <2>1, <2>2, StartStepEffect
  <2>4. OpenIsKnown'
    BY <1>4, <2>1, <2>2, StartStepEffect
  <2>5. ServedHasSession'
    BY <1>4, <2>1, <2>2, StartStepEffect
  <2> QED BY <2>3, <2>4, <2>5
<1>5. ASSUME NEW b \in DevBridges, LogOut(b)
      PROVE  HeldStill' /\ OpenIsKnown' /\ ServedHasSession'
  BY <1>5 DEF LogOut
<1>6. CASE RadioReloaded
  BY <1>6 DEF RadioReloaded
<1>7. CASE UNCHANGED devVars
  BY <1>7 DEF devVars
<1> QED BY <1>1, <1>2, <1>3, <1>4, <1>5, <1>6, <1>7 DEF DevNext, StartStep

\* However requests come.
LEMMA WiredKept ==
    ASSUME DevTypeOK, KindsApart, WiredIsListed, [DevNext]_devVars
    PROVE  KindsApart' /\ WiredIsListed' /\ device' = device
<1> USE DeviceAssumption DEF DevTypeOK, WiredIsListed, KindsApart, Advance, SetLink, ebox, requests
<1>1. ASSUME NEW r \in DevRequests, BeginStop(r)
      PROVE  KindsApart' /\ WiredIsListed' /\ device' = device
  BY <1>1, CancelledTypes DEF BeginStop, CancelDevTask
<1>2. ASSUME NEW r \in DevRequests, SleptOff(r)
      PROVE  KindsApart' /\ WiredIsListed' /\ device' = device
  BY <1>2, CancelledTypes DEF SleptOff, CancelDevTask
<1>3. ASSUME NEW r \in DevRequests, SaveDevice(r)
      PROVE  KindsApart' /\ WiredIsListed' /\ device' = device
  BY <1>3 DEF SaveDevice, Wire, DevBridges
<1>4. ASSUME NEW b \in DevBridges, StartStep(b)
      PROVE  KindsApart' /\ WiredIsListed' /\ device' = device
  BY <1>4, StartStepEffect
<1>5. ASSUME NEW b \in DevBridges, LogOut(b)
      PROVE  KindsApart' /\ WiredIsListed' /\ device' = device
  BY <1>5 DEF LogOut
<1>6. CASE RadioReloaded
  BY <1>6 DEF RadioReloaded
<1>7. CASE UNCHANGED devVars
  BY <1>7 DEF devVars
<1> QED BY <1>1, <1>2, <1>3, <1>4, <1>5, <1>6, <1>7 DEF DevNext, StartStep

\* What makes BridgesAreKnown and NoneLeftBehind inductive.
DevInv ==
    /\ KindsApart /\ WiredIsListed
    /\ ~device.overlap => OneStop /\ ListedIsAlive
    /\ ~device.overlap /\ ~device.race => HeldStill /\ OpenIsKnown /\ ServedHasSession

LEMMA DevInvHolds == DevSpec => [](DevTypeOK /\ DevInv)
<1>1. DevInit => DevInv
  BY DeviceAssumption
  DEF DevInit, DevInv, KindsApart, WiredIsListed, OneStop, ListedIsAlive, HeldStill, OpenIsKnown,
      ServedHasSession, Starting, DevBridges, GivenUp
<1>2. DevTypeOK /\ DevInv /\ [DevNext]_devVars => DevInv'
  <2> SUFFICES ASSUME DevTypeOK, DevInv, [DevNext]_devVars PROVE DevInv'
    OBVIOUS
  <2>1. KindsApart' /\ WiredIsListed' /\ device' = device
    BY WiredKept DEF DevInv
  <2>2. ~device.overlap => OneStop' /\ ListedIsAlive'
    BY OneStopKept DEF DevInv
  <2>3. ~device.overlap /\ ~device.race => HeldStill' /\ OpenIsKnown' /\ ServedHasSession'
    BY HeldStillKept DEF DevInv
  <2> QED BY <2>1, <2>2, <2>3 DEF DevInv
<1> QED BY <1>1, <1>2, DevTypeCorrect, PTL DEF DevSpec

\* With requests in turn what is listed is alive, and what lives is listed or in
\* the hands of the request that closes it if no device answers meanwhile.
THEOREM BridgesAreKnownHolds == DevSpec => []BridgesAreKnown
<1>1. DevInv => BridgesAreKnown
  BY DEF DevInv, BridgesAreKnown, ListedIsAlive, OpenIsKnown
<1> QED BY <1>1, DevInvHolds, PTL

\* The linked radio checks the fault of the amplifier bridge listed, and the
\* eBox's new session is not ended by the log-out of the old one.
THEOREM NoneLeftBehindHolds == DevSpec => []NoneLeftBehind
<1>1. DevInv => NoneLeftBehind
  BY DEF DevInv, NoneLeftBehind, ServedHasSession
<1> QED BY <1>1, DevInvHolds, PTL

-----------------------------------------------------------------------------
(* On the air *)

-----------------------------------------------------------------------------
(* Sequences of timers *)

LEMMA FrontOfTails ==
    ASSUME NEW S, NEW s \in Seq(S), s # <<>>
    PROVE  Front(s) \in Seq(S) /\ Len(Front(s)) = Len(s) - 1
<1>1. Len(s) \in Nat \ {0} /\ \A i \in 1..(Len(s) - 1) : s[i] \in S
  OBVIOUS
<1>2. Len(s) - 1 \in Int /\ 1 \in Int
  BY <1>1
<1>3. /\ SubSeq(s, 1, Len(s) - 1) \in Seq(S)
      /\ Len(SubSeq(s, 1, Len(s) - 1)) = IF 1 <= Len(s) - 1 THEN Len(s) - 1 - 1 + 1 ELSE 0
  BY <1>1, <1>2, SubSeqProperties
<1>4. \A k \in Nat \ {0} : (IF 1 <= k - 1 THEN k - 1 - 1 + 1 ELSE 0) = k - 1
  OBVIOUS
<1>5. Len(SubSeq(s, 1, Len(s) - 1)) = Len(s) - 1
  BY <1>1, <1>3, <1>4, Zenon
<1>. QED  BY <1>3, <1>5, Zenon DEF Front

LEMMA TailOfTails ==
    ASSUME NEW S, NEW s \in Seq(S), s # <<>>
    PROVE  /\ Tail(s) \in Seq(S) /\ Len(Tail(s)) = Len(s) - 1
           /\ Head(s) \in S /\ Head(s) = s[1]
           /\ \A i \in 2..Len(s) : i - 1 \in 1..Len(Tail(s)) /\ Tail(s)[i - 1] = s[i]
  OBVIOUS

-----------------------------------------------------------------------------
(* Types *)

Flags == {tailed, portUp, handle, extHandle, transmits, intact} \subseteq BOOLEAN

People ==
    /\ wiring \in {"shared", "own", "civ"}
    /\ handler \in [Operators -> {"absent", "reading", "crashed"}]
    /\ {pressed, wants} \subseteq SUBSET Operators
    /\ lockedBy \in Operators \cup {NoOperator}

\* A handle that is set stands for a timer that is armed: what calls it off
\* never calls off one that is not there.
Timers ==
    /\ tails \in Seq(Operators) /\ Len(tails) <= MaxArmed
    /\ extTails \in 0..MaxArmed
    /\ handle => tails # <<>>
    /\ extHandle => extTails > 0

OnAirTyped == Flags /\ People /\ Timers

LEMMA FlagsStep == Flags /\ [OnAirNext]_onAirVars => Flags'
<1> SUFFICES ASSUME Flags, [OnAirNext]_onAirVars
             PROVE  Flags'
  OBVIOUS
<1>. USE DEF Flags, setting, operatorTails, programTails, Key, EndHandler
<1>1. ASSUME NEW o \in Operators, Join(o) \/ PressDenied(o) \/ Press(o)
      PROVE  Flags'
  BY <1>1 DEF Join, PressDenied, Press
<1>2. ASSUME NEW o \in Operators, Unpress(o) \/ Depart(o)
      PROVE  Flags'
  BY <1>2 DEF Unpress, Depart
<1>3. ASSUME NEW o \in Operators, ProgramKeysLine(o) \/ ProgramUnkeysLine(o)
      PROVE  Flags'
  BY <1>3 DEF ProgramKeysLine, ProgramUnkeysLine
<1>4. ASSUME NEW o \in Operators, ProgramSendsFrame(o) \/ ProgramPolls(o)
      PROVE  Flags'
  BY <1>4 DEF ProgramSendsFrame, ProgramPolls
<1>5. CASE TailEnds \/ ProgramTailEnds \/ PortLost
  BY <1>5 DEF TailEnds, ProgramTailEnds, PortLost
<1>6. CASE UNCHANGED onAirVars
  BY <1>6 DEF onAirVars
<1>. QED  BY <1>1, <1>2, <1>3, <1>4, <1>5, <1>6 DEF OnAirNext

LEMMA PeopleStep == OnAirTyped /\ [OnAirNext]_onAirVars => People'
<1> SUFFICES ASSUME OnAirTyped, [OnAirNext]_onAirVars
             PROVE  People'
  OBVIOUS
<1>. USE OnAirAssumption DEF OnAirTyped, People, setting, operatorTails, programTails
<1>1. ASSUME NEW o \in Operators, Join(o) \/ PressDenied(o)
      PROVE  People'
  BY <1>1 DEF Join, PressDenied
<1>2. ASSUME NEW o \in Operators, Press(o)
      PROVE  People'
  BY <1>2 DEF Press, EndHandler
<1>3. ASSUME NEW o \in Operators, Unpress(o) \/ Depart(o)
      PROVE  People'
  BY <1>3 DEF Unpress, Depart, EndHandler
<1>4. ASSUME NEW o \in Operators, ProgramKeysLine(o) \/ ProgramUnkeysLine(o)
      PROVE  People'
  BY <1>4 DEF ProgramKeysLine, ProgramUnkeysLine, EndHandler
<1>5. ASSUME NEW o \in Operators, ProgramSendsFrame(o) \/ ProgramPolls(o)
      PROVE  People'
  BY <1>5 DEF ProgramSendsFrame, ProgramPolls
<1>6. CASE TailEnds \/ ProgramTailEnds \/ PortLost
  BY <1>6 DEF TailEnds, ProgramTailEnds, PortLost
<1>7. CASE UNCHANGED onAirVars
  BY <1>7 DEF onAirVars
<1>. QED  BY <1>1, <1>2, <1>3, <1>4, <1>5, <1>6, <1>7 DEF OnAirNext

LEMMA TimersStep == OnAirTyped /\ [OnAirNext]_onAirVars => Timers'
<1> SUFFICES ASSUME OnAirTyped, [OnAirNext]_onAirVars
             PROVE  Timers'
  OBVIOUS
<1>. USE OnAirAssumption DEF OnAirTyped, Timers, operatorTails, programTails
<1>0. Len(tails) \in Nat /\ MaxArmed \in Nat /\ extTails \in Nat
  OBVIOUS
<1>1. ASSUME NEW o \in Operators, Join(o) \/ PressDenied(o) \/ Depart(o)
      PROVE  Timers'
  BY <1>1 DEF Join, PressDenied, Depart
<1>2. ASSUME NEW o \in Operators, Press(o)
      PROVE  Timers'
  <2>1. CASE handle /\ tails' = Front(tails) /\ handle' = FALSE
    <3>1. tails' \in Seq(Operators) /\ Len(tails') = Len(tails) - 1
      BY <2>1, FrontOfTails
    <3>2. Len(tails') <= MaxArmed
      BY <1>0, <3>1
    <3>. QED  BY <1>2, <2>1, <3>1, <3>2 DEF Press
  <2>2. CASE UNCHANGED operatorTails
    BY <1>2, <2>2 DEF Press
  <2>. QED  BY <1>2, <2>1, <2>2 DEF Press
<1>3. ASSUME NEW o \in Operators, Unpress(o)
      PROVE  Timers'
  <2>1. CASE tails' = Append(tails, o) /\ Len(tails) < MaxArmed
    <3>1. tails' \in Seq(Operators) /\ Len(tails') = Len(tails) + 1
      BY <2>1, AppendIs
    <3>2. tails' # <<>> /\ Len(tails') <= MaxArmed
      BY <1>0, <2>1, <3>1
    <3>. QED  BY <1>3, <3>1, <3>2 DEF Unpress
  <2>2. CASE tails' = tails /\ (handle' = FALSE \/ handle' = handle)
    BY <1>3, <2>2 DEF Unpress
  <2>. QED  BY <1>3, <2>1, <2>2 DEF Unpress
<1>4. CASE TailEnds
  <2>1. tails' \in Seq(Operators) /\ Len(tails') = Len(tails) - 1
    BY <1>4, TailOfTails DEF TailEnds
  <2>2. Len(tails') <= MaxArmed
    BY <1>0, <2>1
  <2>. QED  BY <1>4, <2>1, <2>2 DEF TailEnds
<1>5. ASSUME NEW o \in Operators, ProgramKeysLine(o) \/ ProgramUnkeysLine(o)
      PROVE  Timers'
  <2>1. CASE extHandle /\ extTails' = extTails - 1 /\ extHandle' = FALSE
             /\ UNCHANGED operatorTails
    BY <1>0, <2>1
  <2>2. CASE extTails < MaxArmed /\ extTails' = extTails + 1 /\ extHandle' = TRUE
             /\ UNCHANGED operatorTails
    BY <1>0, <2>2
  <2>3. CASE UNCHANGED <<operatorTails, programTails>>
    BY <2>3
  <2>. QED  BY <1>5, <2>1, <2>2, <2>3 DEF ProgramKeysLine, ProgramUnkeysLine
<1>6. ASSUME NEW o \in Operators, ProgramSendsFrame(o) \/ ProgramPolls(o)
      PROVE  Timers'
  BY <1>0, <1>6 DEF ProgramSendsFrame, ProgramPolls
<1>7. CASE ProgramTailEnds
  <2>1. extTails' \in 0..MaxArmed
    BY <1>0, <1>7 DEF ProgramTailEnds
  <2>. QED  BY <1>7, <2>1 DEF ProgramTailEnds
<1>8. CASE UNCHANGED onAirVars \/ PortLost
  BY <1>8 DEF onAirVars, PortLost
<1>. QED
  BY <1>1, <1>2, <1>3, <1>4, <1>5, <1>6, <1>7, <1>8 DEF OnAirNext

LEMMA TypedAlways == OnAirSpec => []OnAirTyped
<1>1. OnAirInit => Flags /\ People
  BY OnAirAssumption DEF OnAirInit, Flags, People
<1>2. OnAirInit => Timers
  BY OnAirAssumption DEF OnAirInit, Timers
<1>3. OnAirTyped /\ [OnAirNext]_onAirVars => OnAirTyped'
  BY FlagsStep, PeopleStep, TimersStep DEF OnAirTyped
<1>. QED  BY <1>1, <1>2, <1>3, PTL DEF OnAirSpec, OnAirTyped

\* Every variable keeps its type; in particular no timer is called off that is
\* not armed, and a lost port leaves nothing half set.
THEOREM OnAirTypeCorrect == OnAirSpec => []OnAirTypeOK
<1>1. OnAirTyped => OnAirTypeOK
  BY DEF OnAirTyped, Flags, People, Timers, OnAirTypeOK
<1>. QED  BY <1>1, TypedAlways, PTL

-----------------------------------------------------------------------------
(* The arbiter *)

Arbiter == INSTANCE PttArbiter WITH
               Users <- Operators, NoUser <- NoOperator, holder <- lockedBy

\* Programs key without the arbiter, ports vanish and handlers crash: what the
\* arbiter promises the operators still holds (server/ptt_arbiter.py).
THEOREM ArbiterRefined == OnAirSpec => Arbiter!Spec
<1>1. OnAirInit => Arbiter!Init
  BY DEF OnAirInit, Arbiter!Init
<1>2. OnAirTyped /\ [OnAirNext]_onAirVars => [Arbiter!Next]_lockedBy
  <2> SUFFICES ASSUME OnAirTyped, [OnAirNext]_onAirVars, lockedBy' # lockedBy
               PROVE  Arbiter!Next
    OBVIOUS
  <2>1. ASSUME lockedBy' = NoOperator
        PROVE  Arbiter!Next
    BY <2>1 DEF OnAirTyped, People, Arbiter!Next, Arbiter!Release
  <2>2. ASSUME NEW o \in Operators, Press(o)
        PROVE  Arbiter!Next
    <3>1. CASE lockedBy' = o
      BY <2>2, <3>1 DEF Press, Arbiter!Next, Arbiter!Acquire
    <3>2. CASE lockedBy' # o
      BY <2>1, <2>2, <3>2 DEF Press, EndHandler
    <3>. QED  BY <3>1, <3>2
  <2>3. ASSUME NEW o \in Operators, Unpress(o) \/ Depart(o)
        PROVE  Arbiter!Next
    BY <2>1, <2>3 DEF Unpress, Depart, EndHandler
  <2>4. ASSUME NEW o \in Operators,
               ProgramKeysLine(o) \/ ProgramUnkeysLine(o)
        PROVE  Arbiter!Next
    BY <2>1, <2>4 DEF ProgramKeysLine, ProgramUnkeysLine, EndHandler
  <2>5. ASSUME NEW o \in Operators,
               Join(o) \/ PressDenied(o) \/ ProgramSendsFrame(o) \/ ProgramPolls(o)
        PROVE  FALSE
    BY <2>5 DEF Join, PressDenied, ProgramSendsFrame, ProgramPolls
  <2>6. CASE TailEnds \/ ProgramTailEnds \/ PortLost
    BY <2>1, <2>6 DEF TailEnds, ProgramTailEnds, PortLost
  <2>. QED  BY <2>2, <2>3, <2>4, <2>5, <2>6 DEF OnAirNext, onAirVars
<1>. QED  BY <1>1, <1>2, TypedAlways, PTL DEF OnAirSpec, Arbiter!Spec

-----------------------------------------------------------------------------
(* The lock *)

\* The lock is held by an operator whose messages are read, however a line
\* that raises ends a handler.
THEOREM HoldersAreServed == OnAirSpec => []HolderIsServed
<1>1. OnAirInit => HolderIsServed
  BY DEF OnAirInit, HolderIsServed
<1>2. OnAirTyped /\ HolderIsServed /\ [OnAirNext]_onAirVars => HolderIsServed'
  <2> SUFFICES ASSUME OnAirTyped, HolderIsServed, [OnAirNext]_onAirVars
               PROVE  HolderIsServed'
    OBVIOUS
  <2>. USE OnAirAssumption DEF OnAirTyped, People, HolderIsServed
  <2>1. ASSUME NEW o \in Operators, Join(o) \/ PressDenied(o)
        PROVE  HolderIsServed'
    BY <2>1 DEF Join, PressDenied
  <2>2. ASSUME NEW o \in Operators, Press(o)
        PROVE  HolderIsServed'
    BY <2>2 DEF Press, EndHandler
  <2>3. ASSUME NEW o \in Operators, Unpress(o) \/ Depart(o)
        PROVE  HolderIsServed'
    BY <2>3 DEF Unpress, Depart, EndHandler
  <2>4. ASSUME NEW o \in Operators, ProgramKeysLine(o) \/ ProgramUnkeysLine(o)
        PROVE  HolderIsServed'
    BY <2>4 DEF ProgramKeysLine, ProgramUnkeysLine, EndHandler
  <2>5. ASSUME NEW o \in Operators, ProgramSendsFrame(o) \/ ProgramPolls(o)
        PROVE  HolderIsServed'
    BY <2>5 DEF ProgramSendsFrame, ProgramPolls
  <2>6. CASE TailEnds \/ ProgramTailEnds \/ PortLost
    BY <2>6 DEF TailEnds, ProgramTailEnds, PortLost
  <2>7. CASE UNCHANGED onAirVars
    BY <2>7 DEF onAirVars
  <2>. QED  BY <2>1, <2>2, <2>3, <2>4, <2>5, <2>6, <2>7 DEF OnAirNext
<1>. QED  BY <1>1, <1>2, TypedAlways, PTL DEF OnAirSpec

\* Whoever holds the lock has the button down or a release timer running.
Awaited(o) == o \in pressed \/ \E i \in 1..Len(tails) : tails[i] = o
LockIsAwaited == lockedBy # NoOperator => Awaited(lockedBy)

LEMMA LockIsAwaitedStep ==
    OnAirTyped /\ LockIsAwaited /\ [OnAirNext]_onAirVars => LockIsAwaited'
<1> SUFFICES ASSUME OnAirTyped, LockIsAwaited, [OnAirNext]_onAirVars
             PROVE  LockIsAwaited'
  OBVIOUS
<1>. USE OnAirAssumption DEF OnAirTyped, People, Timers, LockIsAwaited, Awaited
<1>0. ASSUME UNCHANGED tails,
             \/ lockedBy' = NoOperator
             \/ UNCHANGED lockedBy /\ (lockedBy \in pressed => lockedBy \in pressed')
      PROVE  LockIsAwaited'
  BY <1>0
<1>1. ASSUME NEW o \in Operators, Join(o) \/ PressDenied(o) \/ Depart(o)
      PROVE  LockIsAwaited'
  <2>1. UNCHANGED tails
    BY <1>1 DEF Join, PressDenied, Depart, operatorTails
  <2>2. \/ lockedBy' = NoOperator
        \/ UNCHANGED lockedBy /\ (lockedBy \in pressed => lockedBy \in pressed')
    BY <1>1 DEF Join, PressDenied, Depart, EndHandler
  <2>. QED  BY <1>0, <2>1, <2>2
<1>2. ASSUME NEW o \in Operators, Press(o)
      PROVE  LockIsAwaited'
  BY <1>2 DEF Press, EndHandler
<1>3. ASSUME NEW o \in Operators, Unpress(o)
      PROVE  LockIsAwaited'
  <2>1. CASE lockedBy # o /\ UNCHANGED <<lockedBy, operatorTails>>
    BY <1>3, <2>1 DEF Unpress, operatorTails
  <2>2. CASE lockedBy = o /\ tails' = Append(tails, o) /\ UNCHANGED lockedBy
    <3>1. Len(tails') = Len(tails) + 1 /\ tails'[Len(tails) + 1] = o
      BY <2>2, AppendIs
    <3>2. Len(tails) + 1 \in 1..Len(tails')
      BY <3>1
    <3>. QED  BY <2>2, <3>1, <3>2
  <2>3. CASE lockedBy' = NoOperator
    BY <2>3
  <2>. QED  BY <1>3, <2>1, <2>2, <2>3 DEF Unpress
<1>4. CASE TailEnds
  <2>1. CASE lockedBy = Head(tails)
    BY <1>4, <2>1 DEF TailEnds
  <2>2. CASE lockedBy # Head(tails)
    <3>1. Head(tails) = tails[1]
          /\ \A i \in 2..Len(tails) :
                i - 1 \in 1..Len(Tail(tails)) /\ Tail(tails)[i - 1] = tails[i]
      BY <1>4, TailOfTails DEF TailEnds
    <3>2. \A i \in 1..Len(tails) : i = 1 \/ i \in 2..Len(tails)
      OBVIOUS
    <3>3. ASSUME NEW i \in 1..Len(tails), tails[i] = lockedBy
          PROVE  \E j \in 1..Len(tails') : tails'[j] = lockedBy
      BY <1>4, <2>2, <3>1, <3>2, <3>3 DEF TailEnds
    <3>4. UNCHANGED <<lockedBy, pressed>>
      BY <1>4, <2>2 DEF TailEnds
    <3>. QED  BY <3>3, <3>4
  <2>. QED  BY <2>1, <2>2
<1>5. ASSUME NEW o \in Operators, ProgramKeysLine(o) \/ ProgramUnkeysLine(o)
      PROVE  LockIsAwaited'
  <2>1. UNCHANGED tails
    BY <1>5 DEF ProgramKeysLine, ProgramUnkeysLine, operatorTails
  <2>2. UNCHANGED pressed /\ (lockedBy' = NoOperator \/ UNCHANGED lockedBy)
    BY <1>5 DEF ProgramKeysLine, ProgramUnkeysLine, EndHandler
  <2>. QED  BY <1>0, <2>1, <2>2
<1>6. ASSUME NEW o \in Operators, ProgramSendsFrame(o) \/ ProgramPolls(o)
      PROVE  LockIsAwaited'
  BY <1>0, <1>6 DEF ProgramSendsFrame, ProgramPolls, operatorTails
<1>7. CASE ProgramTailEnds \/ PortLost
  BY <1>0, <1>7 DEF ProgramTailEnds, PortLost, operatorTails
<1>8. CASE UNCHANGED onAirVars
  BY <1>0, <1>8 DEF onAirVars, operatorTails
<1>. QED
  BY <1>1, <1>2, <1>3, <1>4, <1>5, <1>6, <1>7, <1>8 DEF OnAirNext

-----------------------------------------------------------------------------
(* The transmitter *)

\* Within reach of the server, the radio transmits only for somebody: the
\* holder of the lock, a program, or a program's tail.
Wanted == lockedBy # NoOperator \/ wants # {} \/ extTails > 0
OnAirForSomebody ==
    /\ ~portUp /\ wiring # "civ" => ~transmits
    /\ intact /\ transmits /\ (portUp \/ wiring # "civ") => Wanted

LEMMA OnAirForSomebodyStep ==
    OnAirTyped /\ OnAirForSomebody /\ [OnAirNext]_onAirVars => OnAirForSomebody'
<1> SUFFICES ASSUME OnAirTyped, OnAirForSomebody, [OnAirNext]_onAirVars
             PROVE  OnAirForSomebody'
  OBVIOUS
<1>0. extTails \in Nat /\ (extHandle => extTails > 0)
  BY OnAirAssumption DEF OnAirTyped, Timers
<1>. USE <1>0, OnAirAssumption
     DEF OnAirForSomebody, Wanted, Key, Raises, setting, programTails
<1>1. ASSUME NEW o \in Operators, Join(o) \/ PressDenied(o)
      PROVE  OnAirForSomebody'
  BY <1>1 DEF Join, PressDenied
<1>2. ASSUME NEW o \in Operators, Press(o)
      PROVE  OnAirForSomebody'
  <2>1. o # NoOperator
    OBVIOUS
  <2>2. CASE UNCHANGED transmits /\ lockedBy' = o
    BY <1>2, <2>1, <2>2 DEF Press
  <2>3. CASE ~Raises /\ Key(TRUE) /\ lockedBy' = o
    BY <1>2, <2>1, <2>3 DEF Press
  <2>4. CASE Raises /\ EndHandler(o, o)
    BY <1>2, <2>4 DEF Press, EndHandler
  <2>. QED  BY <1>2, <2>2, <2>3, <2>4 DEF Press
<1>3. ASSUME NEW o \in Operators, Unpress(o)
      PROVE  OnAirForSomebody'
  BY <1>3 DEF Unpress, operatorTails
<1>4. ASSUME NEW o \in Operators, Depart(o)
      PROVE  OnAirForSomebody'
  BY <1>4 DEF Depart, EndHandler
<1>5. ASSUME NEW o \in Operators, ProgramKeysLine(o)
      PROVE  OnAirForSomebody'
  BY <1>5 DEF ProgramKeysLine, EndHandler
<1>6. ASSUME NEW o \in Operators, ProgramUnkeysLine(o)
      PROVE  OnAirForSomebody'
  <2>1. CASE extTails' = extTails + 1 /\ UNCHANGED <<lockedBy, transmits>>
    BY <1>6, <2>1 DEF ProgramUnkeysLine
  <2>2. CASE Key(FALSE)
    BY <1>6, <2>2 DEF ProgramUnkeysLine
  <2>3. CASE Raises /\ EndHandler(o, lockedBy)
    BY <1>6, <2>3 DEF ProgramUnkeysLine, EndHandler
  <2>. QED  BY <1>6, <2>1, <2>2, <2>3 DEF ProgramUnkeysLine
<1>7. ASSUME NEW o \in Operators, ProgramSendsFrame(o) \/ ProgramPolls(o)
      PROVE  OnAirForSomebody'
  <2>1. wiring = "civ" /\ UNCHANGED <<setting, portUp, lockedBy, intact>>
    BY <1>7 DEF ProgramSendsFrame, ProgramPolls
  <2>2. CASE ProgramPolls(o)
    BY <2>1, <2>2 DEF ProgramPolls
  <2>3. CASE ~portUp
    BY <2>1, <2>3
  <2>4. CASE portUp /\ ProgramSendsFrame(o) /\ o \notin wants
    BY <2>1, <2>4 DEF ProgramSendsFrame
  <2>5. CASE ProgramSendsFrame(o) /\ portUp /\ o \in wants /\ ~tailed
    BY <2>1, <2>5 DEF ProgramSendsFrame
  <2>6. CASE ProgramSendsFrame(o) /\ portUp /\ o \in wants /\ tailed
    <3>1. extTails' > 0
      BY <2>6 DEF ProgramSendsFrame
    <3>. QED  BY <2>1, <3>1
  <2>. QED  BY <1>7, <2>2, <2>3, <2>4, <2>5, <2>6
<1>8. CASE TailEnds \/ ProgramTailEnds \/ PortLost
  <2>1. CASE TailEnds /\ lockedBy # Head(tails)
    BY <2>1 DEF TailEnds
  <2>2. CASE Key(FALSE) /\ UNCHANGED <<setting, portUp>>
    BY <2>2
  <2>3. CASE PortLost
    BY <2>3 DEF PortLost
  <2>. QED  BY <1>8, <2>1, <2>2, <2>3 DEF TailEnds, ProgramTailEnds
<1>9. CASE UNCHANGED onAirVars
  BY <1>9 DEF onAirVars
<1>. QED
  BY <1>1, <1>2, <1>3, <1>4, <1>5, <1>6, <1>7, <1>8, <1>9 DEF OnAirNext

\* When no button is down, no program keys and no timer is armed, the lock is
\* free and the transmitter is off, but for what the server cannot reach.
THEOREM QuietIsAlwaysOff == OnAirSpec => []QuietIsOff
<1>1. OnAirInit => LockIsAwaited /\ OnAirForSomebody
  BY DEF OnAirInit, LockIsAwaited, OnAirForSomebody
<1>2. OnAirTyped /\ LockIsAwaited /\ OnAirForSomebody => QuietIsOff
  <2> SUFFICES ASSUME OnAirTyped, LockIsAwaited, OnAirForSomebody,
                      intact, pressed = {}, wants = {}, tails = <<>>, extTails = 0
               PROVE  lockedBy = NoOperator /\ (portUp \/ wiring # "civ" => ~transmits)
    BY DEF QuietIsOff
  <2>1. lockedBy = NoOperator
    BY DEF LockIsAwaited, Awaited
  <2>. QED  BY <2>1 DEF OnAirForSomebody, Wanted
<1>. QED
  BY <1>1, <1>2, LockIsAwaitedStep, OnAirForSomebodyStep, TypedAlways, PTL DEF OnAirSpec

-----------------------------------------------------------------------------
(* Broadcasts *)

\* What a broadcast does to who is registered, parked and told.
Sent(says, list, lock0, members0, txRows0, parked0) ==
    /\ shown' \in [Viewers -> Viewers \cup {Nobody}]
    /\ members' \subseteq members0 /\ members0 \ dead \subseteq members'
    /\ lock' \in {lock0, Nobody}
    /\ txRows' \subseteq txRows0
    /\ parked' \subseteq [says : Viewers, awaits : Viewers, left : SUBSET Viewers]
    /\ \A b \in parked' : b \in parked0 \/ b.awaits \in dead \cap members0
    /\ dead \cap members0 = {} =>
          /\ members' = members0 /\ lock' = lock0 /\ parked' = parked0
          /\ \A v \in list \ dead : place[v] # "gone" => shown'[v] = says

\* It does so whatever it says, to whomever it is said.
LEMMA SendToEffect ==
    ASSUME NEW says \in Viewers \cup {Nobody}, NEW list \in SUBSET Viewers,
           NEW lock0 \in Viewers \cup {Nobody}, NEW members0 \in SUBSET Viewers,
           NEW txRows0 \in SUBSET Viewers,
           NEW parked0 \in SUBSET [says : Viewers, awaits : Viewers, left : SUBSET Viewers],
           says \in Viewers \/ lock0 \notin list,
           shown \in [Viewers -> Viewers \cup {Nobody}],
           SendTo(says, list, lock0, members0, txRows0, parked0)
    PROVE  Sent(says, list, lock0, members0, txRows0, parked0)
<1> DEFINE fallen == dead \cap members0
           stops == lock0 \in list \cap fallen \cap txRows0
           seen == IF stops THEN {v \in list : v <= lock0} ELSE list
           removed == fallen \cap seen
           told == {v \in seen \ dead : place[v] # "gone"}
           rest == [says |-> says, awaits |-> lock0, left |-> list \ seen]
<1>1. /\ shown' = [v \in Viewers |-> IF v \in told THEN says ELSE shown[v]]
      /\ members' = members0 \ removed
      /\ lock' = IF lock0 \in removed THEN Nobody ELSE lock0
      /\ txRows' = IF stops THEN txRows0 \ {lock0} ELSE txRows0
      /\ parked' = IF stops THEN parked0 \cup {rest} ELSE parked0
  BY DEF SendTo
<1>2. seen \subseteq list /\ removed \subseteq dead /\ told \subseteq Viewers
  OBVIOUS
<1>3. stops => lock0 \in Viewers /\ says \in Viewers /\ lock0 \in dead \cap members0
  OBVIOUS
<1>4. list \ seen \in SUBSET Viewers
  OBVIOUS
<1>5. fallen = {} => ~stops /\ removed = {} /\ seen = list
  OBVIOUS
<1>6. told = {v \in seen \ dead : place[v] # "gone"}
  OBVIOUS
<1>7. fallen = dead \cap members0
  OBVIOUS
<1> HIDE DEF fallen, stops, seen, removed, told
<1>8. stops => rest \in [says : Viewers, awaits : Viewers, left : SUBSET Viewers]
               /\ rest.awaits = lock0
  BY <1>3, <1>4
<1>9. shown' \in [Viewers -> Viewers \cup {Nobody}]
  BY <1>1
<1> HIDE DEF rest
<1>10. /\ parked' \subseteq [says : Viewers, awaits : Viewers, left : SUBSET Viewers]
       /\ \A b \in parked' : b \in parked0 \/ b.awaits \in dead \cap members0
  BY <1>1, <1>3, <1>8
<1>11. dead \cap members0 = {} =>
          /\ members' = members0 /\ lock' = lock0 /\ parked' = parked0
          /\ \A v \in list \ dead : place[v] # "gone" => shown'[v] = says
  BY <1>1, <1>5, <1>6, <1>7
<1> QED BY <1>1, <1>2, <1>9, <1>10, <1>11 DEF Sent

\* And one that begins, which says who holds the lock.
LEMMA TellEffect ==
    ASSUME ViewTypeOK, NEW lock0 \in Viewers \cup {Nobody}, NEW members0 \in SUBSET Viewers,
           NEW txRows0 \in SUBSET Viewers, Tell(lock0, members0, txRows0)
    PROVE  Sent(lock0, members0, lock0, members0, txRows0, parked)
<1>1. lock0 \in Viewers \/ lock0 \notin members0
  BY ViewAssumption
<1>2. SendTo(lock0, members0, lock0, members0, txRows0, parked)
  BY DEF Tell
<1>3. /\ parked \in SUBSET [says : Viewers, awaits : Viewers, left : SUBSET Viewers]
      /\ shown \in [Viewers -> Viewers \cup {Nobody}]
  BY DEF ViewTypeOK
<1> QED BY <1>1, <1>2, <1>3, SendToEffect

\* And one that goes on.
LEMMA ResumeEffect ==
    ASSUME ViewTypeOK, NEW b \in parked, ParkedResumes(b)
    PROVE  /\ Sent(b.says, b.left, lock, members, txRows, parked \ {b})
           /\ UNCHANGED <<statusHabits, place, dead>>
<1>1. b.says \in Viewers /\ b.says \in Viewers \cup {Nobody} /\ b.left \in SUBSET Viewers
  BY DEF ViewTypeOK
<1>2. SendTo(b.says, b.left, lock, members, txRows, parked \ {b})
  BY DEF ParkedResumes
<1>3. parked \ {b} \in SUBSET [says : Viewers, awaits : Viewers, left : SUBSET Viewers]
  BY DEF ViewTypeOK
<1>4. /\ lock \in Viewers \cup {Nobody} /\ members \in SUBSET Viewers
      /\ txRows \in SUBSET Viewers /\ shown \in [Viewers -> Viewers \cup {Nobody}]
  BY DEF ViewTypeOK
<1>5. Sent(b.says, b.left, lock, members, txRows, parked \ {b})
  BY <1>1, <1>2, <1>3, <1>4, SendToEffect
<1> QED BY <1>5 DEF ParkedResumes

\* Every variable keeps its type.
THEOREM ViewTypeCorrect == ViewSpec => []ViewTypeOK
<1>1. ViewInit => ViewTypeOK
  BY DEF ViewInit, ViewTypeOK
<1>2. ViewTypeOK /\ [ViewNext]_viewVars => ViewTypeOK'
  <2> SUFFICES ASSUME ViewTypeOK, [ViewNext]_viewVars PROVE ViewTypeOK'
    OBVIOUS
  <2>0. ASSUME NEW lock0 \in Viewers \cup {Nobody}, NEW members0 \in SUBSET Viewers,
               NEW txRows0 \in SUBSET Viewers, Tell(lock0, members0, txRows0),
               statusHabits' = statusHabits,
               place' \in [Viewers -> {"out", "hello", "in", "keying", "leaving", "gone"}],
               dead' \subseteq Viewers
        PROVE  ViewTypeOK'
    <3>1. lock' \in Viewers \cup {Nobody} /\ members' \subseteq Viewers /\ txRows' \subseteq Viewers
      BY <2>0, TellEffect DEF Sent
    <3>2. /\ shown' \in [Viewers -> Viewers \cup {Nobody}]
          /\ parked' \subseteq [says : Viewers, awaits : Viewers, left : SUBSET Viewers]
      BY <2>0, TellEffect DEF Sent
    <3> QED BY <2>0, <3>1, <3>2 DEF ViewTypeOK
  <2>1. ASSUME NEW v \in Viewers, Hello(v) PROVE ViewTypeOK'
    BY <2>1 DEF Hello, ViewTypeOK
  <2>2. ASSUME NEW v \in Viewers, SessionBegun(v) PROVE ViewTypeOK'
    <3>1. place' \in [Viewers -> {"out", "hello", "in", "keying", "leaving", "gone"}]
      BY <2>2 DEF SessionBegun, ViewTypeOK
    <3>2. CASE Tell(lock, members, txRows)
      BY <2>2, <3>1, <3>2, <2>0 DEF SessionBegun, ViewTypeOK
    <3>3. CASE UNCHANGED <<lock, members, txRows, parked, shown>>
      BY <2>2, <3>1, <3>3 DEF SessionBegun, ViewTypeOK
    <3> QED BY <2>2, <3>2, <3>3 DEF SessionBegun
  <2>3. ASSUME NEW v \in Viewers, KeyDown(v) PROVE ViewTypeOK'
    BY <2>3 DEF KeyDown, ViewTypeOK
  <2>4. ASSUME NEW v \in Viewers, RowStarted(v) PROVE ViewTypeOK'
    <3>1. place' \in [Viewers -> {"out", "hello", "in", "keying", "leaving", "gone"}]
      BY <2>4 DEF RowStarted, LetGo, ViewTypeOK
    <3>2. CASE Tell(lock, members, txRows \cup {v})
      BY <2>4, <3>1, <3>2, <2>0 DEF RowStarted, ViewTypeOK
    <3>3. CASE LetGo(v, txRows \cup {v}) /\ UNCHANGED <<members, parked, shown>>
      BY <2>4, <3>1, <3>3 DEF RowStarted, LetGo, ViewTypeOK
    <3> QED BY <2>4, <3>2, <3>3 DEF RowStarted
  <2>5. ASSUME NEW v \in Viewers, KeyUp(v) PROVE ViewTypeOK'
    BY <2>5, <2>0 DEF KeyUp, ViewTypeOK
  <2>6. ASSUME NEW v \in Viewers, Over(v) PROVE ViewTypeOK'
    BY <2>6 DEF Over, LetGo, ViewTypeOK
  <2>7. ASSUME NEW v \in Viewers, HandlerLeft(v) PROVE ViewTypeOK'
    <3>1. /\ members \ {v} \in SUBSET Viewers /\ txRows \ {v} \in SUBSET Viewers
          /\ lock \in Viewers \cup {Nobody} /\ dead' \subseteq Viewers
      BY <2>7 DEF HandlerLeft, ViewTypeOK
    <3>2. place' \in [Viewers -> {"out", "hello", "in", "keying", "leaving", "gone"}]
      BY <2>7 DEF HandlerLeft, ViewTypeOK
    <3> QED BY <2>7, <3>1, <3>2, <2>0 DEF HandlerLeft
  <2>8. ASSUME NEW v \in Viewers, CwTakes(v) PROVE ViewTypeOK'
    BY <2>8 DEF CwTakes, ViewTypeOK
  <2>9. ASSUME NEW v \in Viewers, CwGives(v) PROVE ViewTypeOK'
    BY <2>9, <2>0 DEF CwGives, ViewTypeOK
  <2>10. ASSUME NEW v \in Viewers, KeepaliveFinds(v) PROVE ViewTypeOK'
    BY <2>10 DEF KeepaliveFinds, ViewTypeOK
  <2>11. ASSUME NEW v \in Viewers, ConnectionDies(v) PROVE ViewTypeOK'
    BY <2>11 DEF ConnectionDies, ViewTypeOK
  <2>12. ASSUME NEW b \in parked, ParkedResumes(b) PROVE ViewTypeOK'
    <3>1. lock' \in Viewers \cup {Nobody} /\ members' \subseteq Viewers /\ txRows' \subseteq Viewers
      BY <2>12, ResumeEffect DEF Sent, ViewTypeOK
    <3> QED BY <2>12, <3>1, ResumeEffect DEF Sent, ViewTypeOK
  <2>13. CASE UNCHANGED viewVars
    BY <2>13 DEF viewVars, ViewTypeOK
  <2> QED BY <2>1, <2>2, <2>3, <2>4, <2>5, <2>6, <2>7, <2>8, <2>9, <2>10, <2>11, <2>12, <2>13
          DEF ViewNext
<1> QED BY <1>1, <1>2, PTL DEF ViewSpec

\* Who is connected and alive is registered, and so hears the next broadcast;
\* a broadcast waits for the handler of a dead connection, whose last words are
\* then still to come - unless the database answers out of order.
Registered ==
    /\ \A v \in Viewers : place[v] \in {"hello", "in", "keying", "leaving"} /\ v \notin dead
                              => v \in members
    /\ \A v \in members \cup dead : place[v] \in {"hello", "in", "keying", "leaving"}
    /\ "slow" \notin statusHabits => \A b \in parked : b.awaits \in dead

ViewInv == Registered /\ ViewsAgree

\* A broadcast to all that nothing stops leaves everybody in agreement.
LEMMA TellKeeps ==
    ASSUME ViewTypeOK, ViewInv,
           NEW lock0 \in Viewers \cup {Nobody}, NEW members0 \in SUBSET Viewers,
           NEW txRows0 \in SUBSET Viewers, Tell(lock0, members0, txRows0),
           statusHabits' = statusHabits, NEW v \in Viewers,
           \/ /\ members0 = members /\ dead' = dead
              /\ place[v] \in {"hello", "in", "keying"}
              /\ place' = [place EXCEPT ![v] = "in"]
           \/ /\ members0 = members /\ dead' = dead /\ place' = place
           \/ /\ members0 = members \ {v} /\ dead' = dead \ {v}
              /\ place' = [place EXCEPT ![v] = "gone"]
              /\ "slow" \in statusHabits \/ \A b \in parked : b.awaits # v
    PROVE  ViewInv'
<1> USE DEF ViewTypeOK
<1>1. /\ members' \subseteq members0 /\ members0 \ dead \subseteq members'
      /\ \A b \in parked' : b \in parked \/ b.awaits \in dead \cap members0
      /\ dead \cap members0 = {} =>
            /\ members' = members0 /\ lock' = lock0 /\ parked' = parked
            /\ \A w \in members0 \ dead : place[w] # "gone" => shown'[w] = lock0
  BY TellEffect DEF Sent
<1>2. Registered'
  BY <1>1 DEF ViewInv, Registered
<1>3. ASSUME dead' = {}, NEW w \in Viewers, place'[w] = "in" PROVE shown'[w] = lock'
  <2>1. dead \cap members0 = {} /\ w \in members0 /\ w \notin dead /\ place[w] # "gone"
    BY <1>3 DEF ViewInv, Registered
  <2> QED BY <1>1, <2>1
<1> QED BY <1>2, <1>3 DEF ViewInv, ViewsAgree

\* Once everything has settled every client shows who holds the lock.
THEOREM ViewsAgreeHolds == ViewSpec => []ViewsAgree
<1>1. ViewInit => ViewInv
  BY DEF ViewInit, ViewInv, Registered, ViewsAgree
<1>2. ViewTypeOK /\ ViewInv /\ [ViewNext]_viewVars => ViewInv'
  <2> SUFFICES ASSUME ViewTypeOK, ViewInv, [ViewNext]_viewVars PROVE ViewInv'
    OBVIOUS
  <2>1. ASSUME NEW v \in Viewers, Hello(v) PROVE ViewInv'
    BY <2>1 DEF Hello, ViewInv, Registered, ViewsAgree, ViewTypeOK
  <2>2. ASSUME NEW v \in Viewers, SessionBegun(v) PROVE ViewInv'
    <3>1. CASE v \in dead
      BY <2>2, <3>1 DEF SessionBegun, ViewInv, Registered, ViewsAgree, ViewTypeOK
    <3>2. CASE v \notin dead
      BY <2>2, <3>2, TellKeeps DEF SessionBegun, ViewTypeOK
    <3> QED BY <3>1, <3>2
  <2>3. ASSUME NEW v \in Viewers, KeyDown(v) PROVE ViewInv'
    BY <2>3 DEF KeyDown, ViewInv, Registered, ViewsAgree, ViewTypeOK
  <2>4. ASSUME NEW v \in Viewers, RowStarted(v) PROVE ViewInv'
    <3>1. CASE v \in dead
      BY <2>4, <3>1 DEF RowStarted, LetGo, ViewInv, Registered, ViewsAgree, ViewTypeOK
    <3>2. CASE v \notin dead
      <4>1. Tell(lock, members, txRows \cup {v}) /\ txRows \cup {v} \in SUBSET Viewers
        BY <2>4, <3>2 DEF RowStarted, ViewTypeOK
      <4> QED BY <2>4, <3>2, <4>1, TellKeeps DEF RowStarted, ViewTypeOK
    <3> QED BY <3>1, <3>2
  <2>5. ASSUME NEW v \in Viewers, KeyUp(v) PROVE ViewInv'
    BY <2>5, TellKeeps DEF KeyUp, ViewTypeOK
  <2>6. ASSUME NEW v \in Viewers, Over(v) PROVE ViewInv'
    BY <2>6 DEF Over, LetGo, ViewInv, Registered, ViewsAgree, ViewTypeOK
  <2>7. ASSUME NEW v \in Viewers, HandlerLeft(v) PROVE ViewInv'
    <3>1. /\ members \ {v} \in SUBSET Viewers /\ txRows \ {v} \in SUBSET Viewers
          /\ lock \in Viewers \cup {Nobody}
      BY DEF ViewTypeOK
    <3> QED BY <2>7, <3>1, TellKeeps DEF HandlerLeft
  <2>8. ASSUME NEW v \in Viewers, CwTakes(v) PROVE ViewInv'
    BY <2>8, ViewAssumption DEF CwTakes, ViewInv, Registered, ViewsAgree, ViewTypeOK
  <2>9. ASSUME NEW v \in Viewers, CwGives(v) PROVE ViewInv'
    BY <2>9, TellKeeps DEF CwGives, ViewTypeOK
  <2>10. ASSUME NEW v \in Viewers, KeepaliveFinds(v) PROVE ViewInv'
    BY <2>10 DEF KeepaliveFinds, ViewInv, Registered, ViewsAgree, ViewTypeOK
  <2>11. ASSUME NEW v \in Viewers, ConnectionDies(v) PROVE ViewInv'
    BY <2>11 DEF ConnectionDies, ViewInv, Registered, ViewsAgree, ViewTypeOK
  <2>12. ASSUME NEW b \in parked, ParkedResumes(b) PROVE ViewInv'
    <3>1. "slow" \in statusHabits \/ dead # {}
      BY DEF ViewInv, Registered
    <3> QED BY <2>12, <3>1, ResumeEffect DEF Sent, ViewInv, Registered, ViewsAgree
  <2>13. CASE UNCHANGED viewVars
    BY <2>13 DEF viewVars, ViewInv, Registered, ViewsAgree
  <2> QED BY <2>1, <2>2, <2>3, <2>4, <2>5, <2>6, <2>7, <2>8, <2>9, <2>10, <2>11, <2>12, <2>13
          DEF ViewNext
<1>3. ViewInv => ViewsAgree
  BY DEF ViewInv
<1> QED BY <1>1, <1>2, <1>3, ViewTypeCorrect, PTL DEF ViewSpec
=============================================================================
