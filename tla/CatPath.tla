------------------------------ MODULE CatPath ------------------------------
(***************************************************************************)
(* The CAT path of one radio: the relay of every client                    *)
(* (client/com_relay.py, kept going by session.py), the connections of the *)
(* server's CAT bridge (server/cat_bridge.py) and the reloads of the radio *)
(* under them.  Commands go to the radio from every connection; replies go *)
(* to tcp_writer alone.  A relay that gets none for 60 s takes its         *)
(* connection for dead and makes a new one.                                *)
(***************************************************************************)
EXTENDS Naturals, FiniteSets

CONSTANTS
    CatStations, \* clients, each with a relay for this radio
    NoConn,      \* Python's None
    MaxCatEvents \* bounds reloads and losses of the radio's serial port

ASSUME CatAssumption ==
    /\ IsFiniteSet(CatStations) /\ NoConn \notin CatStations \X {1, 2}
    /\ MaxCatEvents \in Nat

\* Two connections per relay: one may still be known to the server when the next
\* one is made.
Conns == CatStations \X {1, 2}
Of(s) == {s} \X {1, 2}

VARIABLES
    refusable,  \* it happens that a relay tries while the radio's ports are closed
    drained,    \* a program reads the other end of the COM port pair
    serving,    \* the radio's bridge accepts connections
    serialUp,   \* serial_proto.transport is not None
    relay,      \* where a station's relay is: "idle", "connecting", "up" or "blocked"
    comOpen,    \* relay.serial holds the local COM port
    conn,       \* connections: "free", "open", "stale" (to a bridge that was
                \* shut down) or "left" (closed by the client, not yet noticed)
    tcpWriter,  \* serial_proto.tcp_writer
    latest,     \* the connection accepted last
    catEvents

weather == <<refusable, drained>>
catVars == <<weather, serving, serialUp, relay, comOpen, conn, tcpWriter, latest, catEvents>>

CatTypeOK ==
    /\ {refusable, drained, serving, serialUp} \subseteq BOOLEAN
    /\ relay \in [CatStations -> {"idle", "connecting", "up", "blocked"}]
    /\ comOpen \in [CatStations -> BOOLEAN]
    /\ conn \in [Conns -> {"free", "open", "stale", "left"}]
    /\ {tcpWriter, latest} \subseteq Conns \cup {NoConn}
    /\ catEvents \in 0..MaxCatEvents

CatInit ==
    /\ refusable \in BOOLEAN
    /\ drained \in BOOLEAN
    /\ serving = TRUE
    /\ serialUp = TRUE
    /\ relay = [s \in CatStations |-> "idle"]
    /\ comOpen = [s \in CatStations |-> FALSE]
    /\ conn = [c \in Conns |-> "free"]
    /\ tcpWriter = NoConn
    /\ latest = NoConn
    /\ catEvents = 0

-----------------------------------------------------------------------------
(* Relays *)

\* run opens the COM port.  A port that an earlier run has left open cannot be
\* opened again: the attempt raises, and so do all the later ones.
OpenCom(s) ==
    /\ relay[s] = "idle"
    /\ ~comOpen[s]
    /\ refusable \/ serving
    /\ relay' = [relay EXCEPT ![s] = "connecting"]
    /\ comOpen' = [comOpen EXCEPT ![s] = TRUE]
    /\ UNCHANGED <<weather, serving, serialUp, conn, tcpWriter, latest, catEvents>>

\* Mutant: the station is stored where its connection belongs.
Connected_ByStation(s) ==
    /\ relay[s] = "connecting"
    /\ serving
    /\ relay' = [relay EXCEPT ![s] = "up"]
    /\ \E c \in Of(s) : conn[c] = "free" /\ conn' = [conn EXCEPT ![c] = "open"] /\ latest' = c
    /\ tcpWriter' = s
    /\ UNCHANGED <<weather, serving, serialUp, comOpen, catEvents>>

\* The bridge accepts: replies go to the new connection from now on.
Connected(s) ==
    /\ relay[s] = "connecting"
    /\ serving
    /\ \E c \in Of(s) :
         /\ conn[c] = "free"
         /\ conn' = [conn EXCEPT ![c] = "open"]
         /\ tcpWriter' = c
         /\ latest' = c
    /\ relay' = [relay EXCEPT ![s] = "up"]
    /\ UNCHANGED <<weather, serving, serialUp, comOpen, catEvents>>

\* The connection is refused: open_connection raises before the try, and the COM
\* port stays open.
ConnectRefused(s) ==
    /\ relay[s] = "connecting"
    /\ ~serving
    /\ relay' = [relay EXCEPT ![s] = "idle"]
    /\ UNCHANGED <<weather, serving, serialUp, comOpen, conn, tcpWriter, latest, catEvents>>

Serves(s) == tcpWriter \in Of(s) /\ serialUp

\* A reply is handed to the listeners and then written to the COM port.  If
\* nobody reads the other end the port's buffer fills, and the pump waits for the
\* write: it reads no more replies, and its 60 s do not run.
ComFills(s) ==
    /\ relay[s] = "up"
    /\ Serves(s) /\ ~drained
    /\ relay' = [relay EXCEPT ![s] = "blocked"]
    /\ UNCHANGED <<weather, serving, serialUp, comOpen, conn, tcpWriter, latest, catEvents>>

\* Mutant: a relay that finds its connection dead keeps the COM port.
RelayGivesUp_KeepCom(s) ==
    /\ relay[s] = "up"
    /\ ~Serves(s)
    /\ relay' = [relay EXCEPT ![s] = "idle"]
    /\ conn' = [c \in Conns |-> IF c \in Of(s) /\ conn[c] \in {"open", "stale"}
                                THEN "left" ELSE conn[c]]
    /\ UNCHANGED <<weather, serving, serialUp, comOpen, tcpWriter, latest, catEvents>>

\* Mutant: silence does not end a connection, a closed bridge does.
RelayGivesUp_NoTimeout(s) ==
    /\ relay[s] = "up"
    /\ ~serving
    /\ relay' = [relay EXCEPT ![s] = "idle"]
    /\ comOpen' = [comOpen EXCEPT ![s] = FALSE]
    /\ conn' = [c \in Conns |-> IF c \in Of(s) /\ conn[c] \in {"open", "stale"}
                                THEN "left" ELSE conn[c]]
    /\ UNCHANGED <<weather, serving, serialUp, tcpWriter, latest, catEvents>>

\* No reply for 60 s, or the other pump has ended with an error: run ends, and
\* its finally clause closes the connection and the COM port.
RelayGivesUp(s) ==
    /\ relay[s] = "up"
    /\ ~Serves(s)
    /\ relay' = [relay EXCEPT ![s] = "idle"]
    /\ comOpen' = [comOpen EXCEPT ![s] = FALSE]
    /\ conn' = [c \in Conns |-> IF c \in Of(s) /\ conn[c] \in {"open", "stale"}
                                THEN "left" ELSE conn[c]]
    /\ UNCHANGED <<weather, serving, serialUp, tcpWriter, latest, catEvents>>

\* A client program is closed, or its COM port fails.
RelayFails(s) ==
    /\ relay[s] \in {"up", "blocked"}
    /\ catEvents < MaxCatEvents
    /\ catEvents' = catEvents + 1
    /\ relay' = [relay EXCEPT ![s] = "idle"]
    /\ comOpen' = [comOpen EXCEPT ![s] = FALSE]
    /\ conn' = [c \in Conns |-> IF c \in Of(s) /\ conn[c] \in {"open", "stale"}
                                THEN "left" ELSE conn[c]]
    /\ UNCHANGED <<weather, serving, serialUp, tcpWriter, latest>>

-----------------------------------------------------------------------------
(* The server *)

\* Mutant: whoever leaves takes the replies with it.
HandlerEnds_Always(c) ==
    /\ conn[c] = "left"
    /\ conn' = [conn EXCEPT ![c] = "free"]
    /\ tcpWriter' = NoConn
    /\ UNCHANGED <<weather, serving, serialUp, relay, comOpen, latest, catEvents>>

\* handle_client reads end of file; its finally clause.
HandlerEnds(c) ==
    /\ conn[c] = "left"
    /\ conn' = [conn EXCEPT ![c] = "free"]
    /\ tcpWriter' = IF tcpWriter = c THEN NoConn ELSE tcpWriter
    /\ UNCHANGED <<weather, serving, serialUp, relay, comOpen, latest, catEvents>>

\* The radio's bridge is shut down.  Its server stops listening; connections
\* stay, to a bridge whose serial port is closed.
BridgeDown ==
    /\ serving
    /\ refusable \/ \A s \in CatStations : relay[s] # "connecting"
    /\ catEvents < MaxCatEvents
    /\ catEvents' = catEvents + 1
    /\ serving' = FALSE
    /\ serialUp' = FALSE
    /\ tcpWriter' = NoConn
    /\ latest' = NoConn
    /\ conn' = [c \in Conns |-> IF conn[c] = "open" THEN "stale" ELSE conn[c]]
    /\ UNCHANGED <<weather, relay, comOpen>>

\* The new bridge has opened the serial port and listens.
BridgeUp ==
    /\ ~serving
    /\ serving' = TRUE
    /\ serialUp' = TRUE
    /\ UNCHANGED <<weather, relay, comOpen, conn, tcpWriter, latest, catEvents>>

\* connection_lost: nothing opens the port again before the radio is reloaded.
SerialLost ==
    /\ serialUp
    /\ catEvents < MaxCatEvents
    /\ catEvents' = catEvents + 1
    /\ serialUp' = FALSE
    /\ UNCHANGED <<weather, serving, relay, comOpen, conn, tcpWriter, latest>>

RelayStep(s) == OpenCom(s) \/ Connected(s) \/ ConnectRefused(s) \/ RelayGivesUp(s)

CatNext ==
    \/ \E s \in CatStations : RelayStep(s) \/ ComFills(s) \/ RelayFails(s)
    \/ \E c \in Conns : HandlerEnds(c)
    \/ BridgeDown \/ BridgeUp \/ SerialLost

CatFairness ==
    /\ \A s \in CatStations : WF_catVars(RelayStep(s))
    /\ \A c \in Conns : WF_catVars(HandlerEnds(c))
    /\ WF_catVars(BridgeUp)

CatSpec == CatInit /\ [][CatNext]_catVars /\ CatFairness

-----------------------------------------------------------------------------
(* Properties *)

\* Replies go to the connection accepted last for as long as it is open: one
\* that leaves late does not take them away from its successor.
LatestGetsReplies == latest # NoConn /\ conn[latest] = "open" => tcpWriter = latest

\* A local COM port is open only for a relay that is connecting or connected,
\* so that the next attempt can open it; a refused connection leaves it open.
ComPortReleased == ~refusable => \A s \in CatStations : comOpen[s] => relay[s] # "idle"

\* The station's programs and its radio panel get the radio's replies.
Fed(s) == relay[s] = "up" /\ Serves(s)

\* Stations that share a radio take the replies from each other, and a reload
\* leaves their connections to a dead bridge; still each of them is fed again
\* and again, provided no relay is refused, the serial port stays up and the
\* COM port's other end is read.
EveryStationFed ==
    ~refusable /\ drained /\ <>[]serialUp => \A s \in CatStations : []<>Fed(s)

\* The CAT relay reconnects (session.py:84-89): after a restart of the server
\* every station is fed again.
RelayRecovers == drained /\ <>[]serialUp => \A s \in CatStations : []<>Fed(s)

\* What the radio says has one way to go, and a port that is let go is free.
CatInOrder == LatestGetsReplies /\ ComPortReleased
=============================================================================
