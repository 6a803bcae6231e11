---------------------------- MODULE RadioManager ----------------------------
(***************************************************************************)
(* The life of the bridges of one configured radio: the admin requests     *)
(* that create, change and delete it (server/admin_api.py), RadioManager's *)
(* reload_radio and remove_radio, and the bookkeeping of BridgeManager.    *)
(*                                                                         *)
(* Every request runs in a task of its own and no lock is taken, so        *)
(* requests for the same radio interleave at their awaits.  pc[r] names    *)
(* the await at which request r is parked.                                 *)
(*                                                                         *)
(* A bridge is named after the request that constructs it; Boot is the one *)
(* that load_all started.  Each request carries the ports its bridge is to *)
(* have: the serial port and the network ports of the configuration.       *)
(***************************************************************************)
EXTENDS Naturals, FiniteSets

CONSTANTS
    Requests,    \* admin requests for this radio, each made at most once
    Boot,        \* the bridge running when the admin panel comes up
    None,        \* Python's None
    PortSets,    \* sets of ports that have no port in common, by name
    Method       \* "line" (RTS/DTR) or "civ": how PTT keys the radio

Bridges == Requests \cup {Boot}

ASSUME ManagerAssumption ==
    /\ Boot \notin Requests
    /\ None \notin Bridges
    /\ PortSets # {}
    /\ Method \in {"line", "civ"}

VARIABLES
    mode,        \* what may happen: requests in progress at the same time
                 \* (overlap), a start at which no audio device can be opened
    registered,  \* manager.bridges[name]
    task,        \* the bridge served by manager.tasks[name]
    stage,       \* what has become of a bridge
    holder,      \* somebody holds PTT at a bridge: arbiter.holder is not None
    keyed,       \* the transmitter at a serial port is on
    pc,          \* where a request is parked
    kind,        \* what a request asks for
    portsOf,     \* the ports in a bridge's configuration
    old          \* the bridge a request has popped and is shutting down

bridge == <<registered, task, stage>>
air == <<holder, keyed>>
given == <<mode, kind, portsOf>>
request == <<pc, given, old>>
vars == <<bridge, air, request>>

\* opening: ports taken; served: and its servers accept; unserved: ports taken
\* but the task that served it has been cancelled; closed: shut down.
Stages == {"none", "opening", "served", "unserved", "closed"}
HasPorts(b) == stage[b] \in {"opening", "served", "unserved"}
Taken(p) == \E b \in Bridges : HasPorts(b) /\ portsOf[b] = p

\* create and force go ahead with a busy radio; disable saves active = False.
Kinds == {"create", "update", "force", "disable", "delete"}
Steps == {"new", "shutdown", "sleep", "save", "start", "done"}

TypeOK ==
    /\ mode \subseteq {"overlap", "audioless"}
    /\ registered \in Bridges \cup {None}
    /\ task \in Bridges \cup {None}
    /\ stage \in [Bridges -> Stages]
    /\ holder \in [Bridges -> BOOLEAN]
    /\ keyed \in [PortSets -> BOOLEAN]
    /\ pc \in [Requests -> Steps]
    /\ kind \in [Requests -> Kinds]
    /\ portsOf \in [Bridges -> PortSets]
    /\ old \in [Requests -> Bridges \cup {None}]

Init ==
    /\ mode \in SUBSET {"overlap", "audioless"}
    /\ registered = Boot
    /\ task = Boot
    /\ stage = [b \in Bridges |-> IF b = Boot THEN "served" ELSE "none"]
    /\ holder = [b \in Bridges |-> FALSE]
    /\ keyed = [p \in PortSets |-> FALSE]
    /\ pc = [r \in Requests |-> "new"]
    /\ kind \in [Requests -> Kinds]
    /\ portsOf \in [Bridges -> PortSets]
    /\ old = [r \in Requests |-> None]

-----------------------------------------------------------------------------
(* Helpers *)

Goto(r, step) == pc' = [pc EXCEPT ![r] = step]

InProgress(r) == pc[r] \notin {"new", "done"}
Idle == \A r \in Requests : ~InProgress(r)

\* The end of BridgeManager.stop: whatever task is registered under the name by
\* now is popped and cancelled, which closes the servers it was serving.
CancelTask ==
    /\ task' = None
    /\ stage' = [b \in Bridges |-> IF b = task /\ stage[b] = "served"
                                   THEN "unserved" ELSE stage[b]]

-----------------------------------------------------------------------------
(* Requests *)

\* Mutant: the bridge is looked up and not popped.
Begin_KeepEntry(r) ==
    /\ pc[r] = "new"
    /\ "overlap" \in mode \/ Idle
    /\ registered # None
    /\ kind[r] \notin {"create", "force"} => ~holder[registered]
    /\ old' = [old EXCEPT ![r] = registered]
    /\ Goto(r, "shutdown")
    /\ UNCHANGED <<given, bridge, air>>

\* The busy check, and BridgeManager.stop up to its first await.
Begin(r) ==
    /\ pc[r] = "new"
    /\ "overlap" \in mode \/ Idle
    /\ \/ /\ registered # None
          /\ kind[r] \notin {"create", "force"} => ~holder[registered]
          /\ old' = [old EXCEPT ![r] = registered]
          /\ registered' = None
          /\ Goto(r, "shutdown")
          /\ UNCHANGED <<task, stage>>
       \/ /\ registered = None
          /\ CancelTask
          /\ Goto(r, "save")
          /\ UNCHANGED <<registered, old>>
    /\ UNCHANGED <<given, air>>

\* RadioBusyError, answered with 409.
Refused(r) ==
    /\ pc[r] = "new"
    /\ "overlap" \in mode \/ Idle
    /\ registered # None
    /\ kind[r] \notin {"create", "force"} /\ holder[registered]
    /\ Goto(r, "done")
    /\ UNCHANGED <<given, old, bridge, air>>

\* Mutant: the extra port of the PTT line is not closed.
Shutdown_KeepLine(r) ==
    /\ pc[r] = "shutdown"
    /\ stage' = [stage EXCEPT ![old[r]] = "closed"]
    /\ holder' = [holder EXCEPT ![old[r]] = FALSE]
    /\ Goto(r, "sleep")
    /\ UNCHANGED <<registered, task, keyed, given, old>>

\* RadioBridge.shutdown after its broadcast: ports and connections are closed.
\* The clean-up of the closed connections frees the arbiter but reaches the
\* radio no more; closing a serial port drops the lines it drove.
Shutdown(r) ==
    /\ pc[r] = "shutdown"
    /\ stage' = [stage EXCEPT ![old[r]] = "closed"]
    /\ holder' = [holder EXCEPT ![old[r]] = FALSE]
    /\ keyed' = [keyed EXCEPT ![portsOf[old[r]]] = @ /\ Method = "civ"]
    /\ Goto(r, "sleep")
    /\ UNCHANGED <<registered, task, given, old>>

\* After the 50 ms that the serial port gets to close.
Slept(r) ==
    /\ pc[r] = "sleep"
    /\ CancelTask
    /\ old' = [old EXCEPT ![r] = None]
    /\ Goto(r, "save")
    /\ UNCHANGED <<registered, given, air>>

\* Mutant: a start that fails half way keeps what it has opened.
Saved_KeepPorts(r) ==
    /\ pc[r] = "save"
    /\ \/ /\ kind[r] \in {"delete", "disable"}
          /\ Goto(r, "done")
          /\ UNCHANGED stage
       \/ /\ kind[r] \notin {"delete", "disable"}
          /\ \/ /\ ~Taken(portsOf[r])
                /\ stage' = [stage EXCEPT ![r] = "opening"]
                /\ pc' \in {[pc EXCEPT ![r] = "start"], [pc EXCEPT ![r] = "done"]}
             \/ /\ Goto(r, "done")
                /\ UNCHANGED stage
    /\ UNCHANGED <<registered, task, given, old, air>>

\* The row is written or deleted.  A radio that is to run is started at once:
\* it takes the ports of its own configuration if no other bridge has them.  A
\* device that is missing or a port that is taken ends the request with an error,
\* all ports closed again.
\* No usable audio device is an error that _start_radio does not expect: the
\* serial port, opened first, stays open.
Saved(r) ==
    /\ pc[r] = "save"
    /\ \/ /\ kind[r] \in {"delete", "disable"}
          /\ Goto(r, "done")
          /\ UNCHANGED stage
       \/ /\ kind[r] \notin {"delete", "disable"}
          /\ Goto(r, "done")
          /\ UNCHANGED stage
       \/ /\ kind[r] \notin {"delete", "disable"}
          /\ ~Taken(portsOf[r])
          /\ stage' = [stage EXCEPT ![r] = "opening"]
          /\ \/ Goto(r, "start")
             \/ "audioless" \in mode /\ Goto(r, "done")
    /\ UNCHANGED <<registered, task, given, old, air>>

\* The rest of RadioBridge.start, and _track, which overwrites what is registered.
Started(r) ==
    /\ pc[r] = "start"
    /\ stage' = [stage EXCEPT ![r] = "served"]
    /\ registered' = r
    /\ task' = r
    /\ Goto(r, "done")
    /\ UNCHANGED <<given, old, air>>

-----------------------------------------------------------------------------
(* What goes on at the bridges meanwhile *)

\* Mutant: the holder's identity is stored where a flag belongs.
PttOn_ByName(b) ==
    /\ stage[b] \in {"served", "unserved"}
    /\ ~holder[b]
    /\ holder' = [holder EXCEPT ![b] = b]
    /\ keyed' = [keyed EXCEPT ![portsOf[b]] = TRUE]
    /\ UNCHANGED <<bridge, request>>

\* A client of a bridge that still has its ports presses and lets go.
PttOn(b) ==
    /\ stage[b] \in {"served", "unserved"}
    /\ ~holder[b]
    /\ holder' = [holder EXCEPT ![b] = TRUE]
    /\ keyed' = [keyed EXCEPT ![portsOf[b]] = TRUE]
    /\ UNCHANGED <<bridge, request>>

PttOff(b) ==
    /\ stage[b] \in {"served", "unserved"}
    /\ holder[b]
    /\ holder' = [holder EXCEPT ![b] = FALSE]
    /\ keyed' = [keyed EXCEPT ![portsOf[b]] = FALSE]
    /\ UNCHANGED <<bridge, request>>

Next == \/ \E r \in Requests : \/ Begin(r) \/ Refused(r) \/ Shutdown(r)
                               \/ Slept(r) \/ Saved(r) \/ Started(r)
        \/ \E b \in Bridges : PttOn(b) \/ PttOff(b)

Spec == Init /\ [][Next]_vars

-----------------------------------------------------------------------------
(* Properties *)

\* Every request that overlaps another asks for the same ports.
SamePorts == \A q, r \in Requests : portsOf[q] = portsOf[r]

\* A bridge that has a serial port and network ports is one that a later request
\* can find and shut down, or one that a request in progress is about to: no port
\* is lost to a bridge nobody knows, through reloads, moves to other ports,
\* failures and deletions.  Where requests overlap it holds because the ports
\* are what they exclude each other by: two that ask for different ports both
\* start, and _track forgets the first one's bridge, which keeps its ports.  And
\* a start that finds no audio device loses those it has opened.
PortsAccounted ==
    "audioless" \notin mode /\ ("overlap" \in mode => SamePorts) =>
        \A b \in Bridges :
            HasPorts(b) => \/ registered = b
                           \/ \E r \in Requests : pc[r] = "shutdown" /\ old[r] = b
                           \/ b \in Requests /\ pc[b] = "start"

\* A registered bridge is up and served: it has its ports and its task, so
\* clients can connect to the radio that the panel shows.
RegisteredIsServed ==
    registered # None => stage[registered] = "served" /\ task = registered

\* The same as long as admin requests take turns, through reloads, failed starts
\* and deletions.
ServedInTurns == "overlap" \notin mode => RegisteredIsServed

\* A transmitter is on only for a bridge at its serial port at which somebody
\* holds PTT.
OnAirIsHeld ==
    \A p \in PortSets :
        keyed[p] => \E b \in Bridges : /\ portsOf[b] = p /\ holder[b]
                                      /\ stage[b] \in {"served", "unserved"}
=============================================================================
