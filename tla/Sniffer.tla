------------------------------ MODULE Sniffer ------------------------------
(***************************************************************************)
(* The serial sniffer of the admin panel (server/serial_sniffer.py and its *)
(* routes in server/admin_api.py): sessions that are started and stopped   *)
(* by requests, the record of what passes, framed by silence and kept in a *)
(* file and in a ring for the panel, and the keying line of a program that *)
(* is mirrored to the device when the sniffer sits between the two.        *)
(*                                                                         *)
(* A session is named after the request that starts it.                    *)
(***************************************************************************)
EXTENDS Naturals

CONSTANTS
    Starts,     \* POST /api/sniffer/start requests, each made once
    ComPorts,   \* serial ports
    NoOne,      \* no session, no port
    MaxLines    \* bounds what is recorded in a session

ASSUME SnifferAssumption == NoOne \notin Starts \cup ComPorts /\ MaxLines \in Nat

VARIABLES
    brisk,       \* a request may be made while another waits for the database
    radioPorts,  \* the ports in the radios' configurations
    elsewhere,   \* ports that other programs have open
    sniffer,     \* app.state.sniffer
    phase,       \* what has become of a session
    owner,       \* the session that has a port open
    between,     \* sessions in MITM mode
    record,      \* the device's framer of a session and what was written of it
    programKeys, \* the program's keying line, at the other end of the pair
    mirrored     \* the line as a session has seen it and set it at the device

surroundings == <<brisk, radioPorts, elsewhere>>
snifferVars == <<surroundings, sniffer, phase, owner, between, record, programKeys, mirrored>>

(* checking: waits for list_configs; running, unplugged: _transports is not  *)
(* empty, and the device is there or gone.                                   *)
Phases == {"new", "checking", "refused", "running", "unplugged", "stopped"}

(* pending: bytes wait in the buffer; timer: the silence that ends a frame   *)
(* is waited for; losing: connection_lost is due; ring, file: lines written. *)
Records == [pending : BOOLEAN, timer : BOOLEAN, losing : BOOLEAN,
            ring : Nat, file : Nat]
Empty == [pending |-> FALSE, timer |-> FALSE, losing |-> FALSE,
          ring |-> 0, file |-> 0]

Levels == {"up", "down"}
Unseen == [seen |-> "none", set |-> "down", failed |-> FALSE]

SnifferTypeOK ==
    /\ brisk \in BOOLEAN
    /\ {radioPorts, elsewhere} \subseteq SUBSET ComPorts
    /\ sniffer \in Starts \cup {NoOne}
    /\ phase \in [Starts -> Phases]
    /\ owner \in [ComPorts -> Starts \cup {NoOne}]
    /\ between \subseteq Starts
    /\ record \in [Starts -> Records]
    /\ programKeys \in Levels
    /\ mirrored \in [Starts -> [seen : Levels \cup {"none"}, set : Levels, failed : BOOLEAN]]

SnifferInit ==
    /\ brisk \in BOOLEAN
    /\ radioPorts \in SUBSET ComPorts
    /\ elsewhere \in SUBSET (ComPorts \ radioPorts)
    /\ sniffer = NoOne
    /\ phase = [s \in Starts |-> "new"]
    /\ owner = [p \in ComPorts |-> NoOne]
    /\ between = {}
    /\ record = [s \in Starts |-> Empty]
    /\ programKeys \in Levels
    /\ mirrored = [s \in Starts |-> Unseen]

-----------------------------------------------------------------------------
(* Helpers *)

Become(s, what) == phase' = [phase EXCEPT ![s] = what]
Active == sniffer # NoOne /\ phase[sniffer] \in {"running", "unplugged"}

\* Mutant: without flush() the last line stays in the file's buffer.
Emit_NoFlush(s, r) == [r EXCEPT !.ring = @ + 1, !.file = r.ring]

\* _emit: into the ring, then into the file, which raises once that is closed.
Emit(s, r) ==
    [r EXCEPT !.ring = @ + 1,
              !.file = IF phase[s] \in {"running", "unplugged"} THEN @ + 1 ELSE @]

\* _flush: the frame is written and the buffer cleared, unless writing raised.
FlushFrame(s, r) ==
    IF ~r.pending THEN r
    ELSE [Emit(s, r) EXCEPT !.pending = phase[s] \notin {"running", "unplugged"}]

-----------------------------------------------------------------------------
(* Requests *)

\* POST /api/sniffer/start up to list_configs.
BeginStart(s) ==
    /\ phase[s] = "new"
    /\ brisk \/ \A t \in Starts : phase[t] # "checking"
    /\ Become(s, IF Active THEN "refused" ELSE "checking")
    /\ UNCHANGED <<surroundings, sniffer, owner, between, record, programKeys, mirrored>>

CanOpen(p) == owner[p] = NoOne /\ p \notin elsewhere

\* Mutant: the first port stays open when the second one cannot be opened.
OpenPorts_Leak(s, ports) ==
    IF \A p \in ports : CanOpen(p)
    THEN /\ owner' = [p \in ComPorts |-> IF p \in ports THEN s ELSE owner[p]]
         /\ sniffer' = s /\ Become(s, "running")
    ELSE /\ \E q \in ports : CanOpen(q) /\ owner' = [owner EXCEPT ![q] = s]
         /\ Become(s, "refused") /\ UNCHANGED sniffer

\* Mutant: the port is stored in the place of the session.
OpenPorts_ByPort(s, ports) ==
    IF \A p \in ports : CanOpen(p)
    THEN /\ owner' = [p \in ComPorts |-> IF p \in ports THEN s ELSE owner[p]]
         /\ sniffer' \in ports /\ Become(s, "running")
    ELSE Become(s, "refused") /\ UNCHANGED <<owner, sniffer>>

\* SnifferSession.start, without suspension: all ports are opened and the
\* session is registered, or what was opened is closed again.
OpenPorts(s, ports) ==
    IF \A p \in ports : CanOpen(p)
    THEN /\ owner' = [p \in ComPorts |-> IF p \in ports THEN s ELSE owner[p]]
         /\ sniffer' = s /\ Become(s, "running")
    ELSE Become(s, "refused") /\ UNCHANGED <<owner, sniffer>>

\* The rest of the request.  A port of a radio is refused.
Start(s) ==
    /\ phase[s] = "checking"
    /\ \E port \in ComPorts, mitm \in ComPorts \cup {NoOne} :
          LET ports == {port, mitm} \ {NoOne} IN
          \/ /\ port # mitm /\ ports \cap radioPorts = {}
             /\ OpenPorts(s, ports)
             /\ between' = IF mitm # NoOne /\ phase'[s] = "running"
                            THEN between \cup {s} ELSE between
          \/ /\ port = mitm \/ ports \cap radioPorts # {}
             /\ Become(s, "refused")
             /\ UNCHANGED <<owner, sniffer, between>>
    /\ UNCHANGED <<surroundings, record, programKeys, mirrored>>

\* POST /api/sniffer/stop: the file is closed before connection_lost is run.
\* A session that is not running any more is stopped once more to no effect.
Stop ==
    /\ Active
    /\ Become(sniffer, "stopped")
    /\ owner' = [p \in ComPorts |-> IF owner[p] = sniffer THEN NoOne ELSE owner[p]]
    /\ between' = between \ {sniffer}
    /\ record' = [record EXCEPT ![sniffer].losing = phase[sniffer] = "running"]
    /\ mirrored' = [mirrored EXCEPT ![sniffer] = Unseen]
    /\ UNCHANGED <<surroundings, sniffer, programKeys>>

-----------------------------------------------------------------------------
(* What a running session does *)

\* Bytes of the device: passed on at once in MITM mode, and kept for the record.
DataReceived(s) ==
    /\ phase[s] = "running"
    /\ record[s].ring < MaxLines
    /\ record' = [record EXCEPT ![s].pending = TRUE, ![s].timer = TRUE]
    /\ UNCHANGED <<surroundings, sniffer, phase, owner, between, programKeys, mirrored>>

\* 20 ms of silence.
FrameEnds(s) ==
    /\ record[s].timer
    /\ record' = [record EXCEPT ![s] = [FlushFrame(s, @) EXCEPT !.timer = FALSE]]
    /\ UNCHANGED <<surroundings, sniffer, phase, owner, between, programKeys, mirrored>>

\* connection_lost, after the transport was closed.
ConnectionLost(s) ==
    /\ record[s].losing
    /\ record' = [record EXCEPT ![s] = [FlushFrame(s, @) EXCEPT !.losing = FALSE]]
    /\ UNCHANGED <<surroundings, sniffer, phase, owner, between, programKeys, mirrored>>

\* The device is pulled out: connection_lost, and the watch of the lines ends.
\* The session stays the active one until it is stopped.
Unplugged(s) ==
    /\ phase[s] = "running"
    /\ Become(s, "unplugged")
    /\ record' = [record EXCEPT ![s] = FlushFrame(s, @)]
    /\ UNCHANGED <<surroundings, sniffer, owner, between, programKeys, mirrored>>

\* Mutant: the first reading is the base line and is recorded only.
WatchLines_FromSecond(s) ==
    /\ phase[s] = "running" /\ s \in between
    /\ mirrored[s].seen # programKeys
    /\ record' = [record EXCEPT ![s] = Emit(s, @)]
    /\ mirrored' = [mirrored EXCEPT
          ![s].seen = programKeys,
          ![s].set = IF mirrored[s].seen = "none" THEN @ ELSE programKeys]
    /\ UNCHANGED <<surroundings, sniffer, phase, owner, between, programKeys>>

\* _watch_lines at the program's port: a change is recorded and set at the
\* device.  If that fails, the new state counts as seen all the same.
WatchLines(s) ==
    /\ phase[s] = "running" /\ s \in between
    /\ mirrored[s].seen # programKeys
    /\ record' = [record EXCEPT ![s] = Emit(s, @)]
    /\ \/ mirrored' = [mirrored EXCEPT ![s].seen = programKeys, ![s].set = programKeys,
                                       ![s].failed = FALSE]
       \/ mirrored' = [mirrored EXCEPT ![s].seen = programKeys, ![s].failed = TRUE]
    /\ UNCHANGED <<surroundings, sniffer, phase, owner, between, programKeys>>

\* The program keys or un-keys, as often as a session has room for.
ProgramKeys ==
    /\ \E s \in Starts : /\ phase[s] = "running" /\ s \in between
                         /\ record[s].ring < MaxLines
    /\ programKeys' \in Levels \ {programKeys}
    /\ UNCHANGED <<surroundings, sniffer, phase, owner, between, record, mirrored>>

SnifferNext ==
    \/ \E s \in Starts : BeginStart(s) \/ Start(s) \/ DataReceived(s) \/ FrameEnds(s)
                         \/ ConnectionLost(s) \/ Unplugged(s) \/ WatchLines(s)
    \/ Stop \/ ProgramKeys

SnifferSpec == SnifferInit /\ [][SnifferNext]_snifferVars

-----------------------------------------------------------------------------
(* Properties *)

\* Whoever has a port open is the session that the next stop reaches: a start
\* that failed half way has closed what it opened, and so has a session that
\* was stopped.  Two starts that overlap both find no session active; the first
\* one then keeps its ports, and nothing can stop it.
OpenIsStoppable ==
    ~brisk => \A p \in ComPorts : owner[p] # NoOne => owner[p] = sniffer /\ Active

\* The panel's ring shows what the file has - except for a frame that a stop
\* cut off: the ring gets it, even twice, and the file does not.
RingIsFile == \A s \in Starts :
    record[s].ring = record[s].file \/ (phase[s] = "stopped" /\ record[s].pending)

\* The sniffer between a program and its device does not keep the program's
\* keying from the device: the state that was seen is the one that was set,
\* unless setting it failed.
KeyingPassesThrough == \A s \in between :
    phase[s] = "running" /\ mirrored[s].seen = programKeys /\ ~mirrored[s].failed
        => mirrored[s].set = programKeys

\* The sniffer can be stopped, shows what it writes, and is not in the way.
SnifferInOrder == OpenIsStoppable /\ RingIsFile /\ KeyingPassesThrough
=============================================================================
