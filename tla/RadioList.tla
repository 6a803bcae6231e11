----------------------------- MODULE RadioList -----------------------------
(***************************************************************************)
(* The client's view of the server's radios (client/session.py):           *)
(* refresh_radios fetches the list, replaces the status watchers and       *)
(* starts a CAT relay for every radio that has none, first creating a pair *)
(* of virtual COM ports if need be (client/com0com.py).  Refreshes are     *)
(* coroutines that wait for threads, and nothing keeps two of them apart.  *)
(***************************************************************************)
EXTENDS Naturals, FiniteSets

CONSTANTS
    Refreshes,  \* calls of refresh_radios: at start, of reconnect, after a change
    Names,      \* names of radios
    Absent      \* no radio, relay or pair

ASSUME RadioListAssumption == Absent \notin Refreshes \cup Names

Relays == Refreshes \X Names  \* a relay, or a pair, named after its creator
Off == 0                      \* a row's CAT port stands for it; Off: not active

VARIABLES
    weather,    \* of "overlap" and "moves", what may happen
    at,         \* where a refresh is parked
    rows,       \* the list a refresh works on
    todo,       \* radios a refresh has still to look at
    making,     \* the radio whose pair a refresh is creating
    watched,    \* the row a radio's status watcher was made for
    catRelays,  \* session.cat_relays: the refresh that made the radio's relay
    running,    \* relays whose task runs, and the CAT port they connect to
    comPorts,   \* app_cfg["com_ports"]: the refresh that made the radio's pair
    pairs       \* pairs that exist

progress == <<at, rows, todo, making>>
relayVars == <<catRelays, running>>
listVars == <<weather, progress, watched, relayVars, comPorts, pairs>>

\* overlap: a refresh begins before the one before has ended; moves: the admin
\* gives a radio another CAT port.
Places == {"new", "fetch", "find", "relays", "create", "done"}
Lists == [Names -> 0..2]

ListTypeOK ==
    /\ weather \subseteq {"overlap", "moves"}
    /\ at \in [Refreshes -> Places]
    /\ rows \in [Refreshes -> Lists]
    /\ todo \in [Refreshes -> SUBSET Names]
    /\ making \in [Refreshes -> Names \cup {Absent}]
    /\ watched \in Lists
    /\ catRelays \in [Names -> Refreshes \cup {Absent}]
    /\ running \in [Relays -> 0..2]
    /\ comPorts \in [Names -> Refreshes \cup {Absent}]
    /\ pairs \subseteq Relays

ListInit ==
    /\ weather \in SUBSET {"overlap", "moves"}
    /\ at = [o \in Refreshes |-> "new"]
    /\ rows = [o \in Refreshes |-> [n \in Names |-> Off]]
    /\ todo = [o \in Refreshes |-> {}]
    /\ making = [o \in Refreshes |-> Absent]
    /\ watched = [n \in Names |-> Off]
    /\ catRelays = [n \in Names |-> Absent]
    /\ running = [p \in Relays |-> Off]
    /\ comPorts = [n \in Names |-> Absent]
    /\ pairs = {}

-----------------------------------------------------------------------------

RefreshesIdle == \A o \in Refreshes : at[o] \in {"new", "done"}
Move(o, place) == at' = [at EXCEPT ![o] = place]

\* The relays of these radios are dropped, and the tasks kept for them ended.
EndRelays(names) ==
    /\ catRelays' = [n \in Names |-> IF n \in names THEN Absent ELSE catRelays[n]]
    /\ running' = [p \in Relays |-> IF p[2] \in names /\ catRelays[p[2]] = p[1]
                                    THEN Off ELSE running[p]]

\* reconnect ends all relays before it calls refresh_radios.
BeginRefresh(o) ==
    /\ at[o] = "new"
    /\ "overlap" \in weather \/ RefreshesIdle
    /\ Move(o, "fetch")
    /\ EndRelays(Names) \/ UNCHANGED relayVars
    /\ UNCHANGED <<weather, rows, todo, making, watched, comPorts, pairs>>

\* Mutant: a relay is kept although its radio is not active any more.
Fetched_KeepRelays(o) ==
    /\ at[o] = "fetch"
    /\ Move(o, "find")
    /\ \E list \in [Names -> 0..1] : rows' = [rows EXCEPT ![o] = list] /\ watched' = list
    /\ UNCHANGED <<weather, todo, making, relayVars, comPorts, pairs>>

\* The server's list, or the saved one, whatever it says by now.  All status
\* watchers are replaced; the relays of radios that are not active are ended.
Fetched(o) ==
    /\ at[o] = "fetch"
    /\ Move(o, "find")
    /\ \E list \in [Names -> IF "moves" \in weather THEN 0..2 ELSE 0..1] :
         /\ rows' = [rows EXCEPT ![o] = list]
         /\ watched' = list
         /\ EndRelays({n \in Names : list[n] = Off})
    /\ UNCHANGED <<weather, todo, making, comPorts, pairs>>

\* find_setupc: without the driver there are no relays.
FoundDriver(o) ==
    /\ at[o] = "find"
    /\ Move(o, "relays") \/ Move(o, "done")
    /\ todo' = [todo EXCEPT ![o] = Names]
    /\ UNCHANGED <<weather, rows, making, watched, relayVars, comPorts, pairs>>

\* Mutant: the relay itself is stored.
StartRelay_Itself(o, n) ==
    /\ catRelays' = [catRelays EXCEPT ![n] = <<o, n>>]
    /\ running' = [running EXCEPT ![<<o, n>>] = rows[o][n]]

\* Mutant: the relay's task is not kept.
StartRelay_Untracked(o, n) ==
    /\ running' = [running EXCEPT ![<<o, n>>] = rows[o][n]]
    /\ UNCHANGED catRelays

StartRelay(o, n) ==
    /\ catRelays' = [catRelays EXCEPT ![n] = o]
    /\ running' = [running EXCEPT ![<<o, n>>] = rows[o][n]]

\* The loop looks at a radio: nothing to do, or a relay for the pair it has, or
\* a new pair first, which a thread creates.
NextRadio(o, n) ==
    /\ at[o] = "relays" /\ n \in todo[o]
    /\ todo' = [todo EXCEPT ![o] = @ \ {n}]
    /\ IF rows[o][n] = Off \/ catRelays[n] # Absent
       THEN UNCHANGED <<at, making, relayVars>>
       ELSE IF comPorts[n] # Absent
       THEN StartRelay(o, n) /\ UNCHANGED <<at, making>>
       ELSE /\ Move(o, "create")
            /\ making' = [making EXCEPT ![o] = n]
            /\ UNCHANGED relayVars
    /\ UNCHANGED <<weather, rows, watched, comPorts, pairs>>

\* setupc has installed the pair, or failed: then the radio goes without.  It is
\* not looked again whether the radio has a relay by now.
PairMade(o) ==
    /\ at[o] = "create"
    /\ Move(o, "relays")
    /\ making' = [making EXCEPT ![o] = Absent]
    /\ \/ /\ pairs' = pairs \cup {<<o, making[o]>>}
          /\ comPorts' = [comPorts EXCEPT ![making[o]] = o]
          /\ StartRelay(o, making[o])
       \/ UNCHANGED <<pairs, comPorts, relayVars>>
    /\ UNCHANGED <<weather, rows, todo, watched>>

RefreshEnds(o) ==
    /\ at[o] = "relays" /\ todo[o] = {}
    /\ Move(o, "done")
    /\ UNCHANGED <<weather, rows, todo, making, watched, relayVars, comPorts, pairs>>

ListNext == \E o \in Refreshes :
    \/ BeginRefresh(o) \/ Fetched(o) \/ FoundDriver(o) \/ PairMade(o) \/ RefreshEnds(o)
    \/ \E n \in Names : NextRadio(o, n)

ListSpec == ListInit /\ [][ListNext]_listVars

-----------------------------------------------------------------------------
(* Properties *)

\* A relay that runs is the one the session knows for its radio, which can be
\* ended and which the dial and the panel use, and no pair was made in vain -
\* unless refreshes overlap: the second one's relay then replaces the first.
RelaysAreKnown ==
    "overlap" \notin weather =>
        /\ \A p \in Relays : running[p] # Off => catRelays[p[2]] = p[1]
        /\ \A p \in pairs : comPorts[p[2]] = p[1]

\* A radio with a relay has a status watcher, over which the line changes that
\* its relay reports are sent, and the relay connects to the port that is listed
\* - unless the port was changed: a relay that is there is left alone.
RelayIsWatched ==
    weather = {} => \A n \in Names :
        catRelays[n] # Absent => running[<<catRelays[n], n>>] = watched[n] /\ watched[n] # Off

\* Relays, pairs and watchers are those of the listed radios.
ListInOrder == RelaysAreKnown /\ RelayIsWatched
=============================================================================
