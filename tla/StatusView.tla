----------------------------- MODULE StatusView -----------------------------
(***************************************************************************)
(* Who is on the air, as the clients of one radio show it (busy_by), and   *)
(* as the arbiter has it (server/radio_bridge.py).  The server tells by    *)
(* broadcasts, each of which reads the holder once and then writes to the  *)
(* clients it lists, removing those that turn out to be dead; the database *)
(* call for a dead holder's transmission parks it halfway.                 *)
(*                                                                         *)
(* A viewer is one control connection, numbered as they come: a client     *)
(* that returns is another.  control_clients, a dict, keeps the order of   *)
(* registration, which is that of the numbers.                             *)
(* A release and the broadcast that is scheduled with it are one step.     *)
(***************************************************************************)
EXTENDS Naturals

CONSTANTS
    MaxViewers,  \* bounds the connections
    Nobody       \* Python's None

Viewers == 1..MaxViewers

ASSUME ViewAssumption == MaxViewers \in Nat /\ Nobody \notin Viewers

VARIABLES
    statusHabits, \* "cw": CW is keyed, over connections that last; "slow": the
                  \* database may answer two calls out of order
    lock,         \* arbiter.holder
    members,      \* control_clients
    place,        \* where the handler of each connection is
    dead,         \* the connections whose sends raise, until they are closed
    txRows,       \* the keys of tx_ids whose handler runs
    parked,       \* broadcasts that wait for the database
    shown         \* busy_by of each client

viewVars == <<statusHabits, lock, members, place, dead, txRows, parked, shown>>

ViewTypeOK ==
    /\ statusHabits \subseteq {"cw", "slow"}
    /\ lock \in Viewers \cup {Nobody}
    /\ members \subseteq Viewers
    /\ place \in [Viewers -> {"out", "hello", "in", "keying", "leaving", "gone"}]
    /\ {dead, txRows} \subseteq SUBSET Viewers
    /\ parked \subseteq [says : Viewers, awaits : Viewers, left : SUBSET Viewers]
    /\ shown \in [Viewers -> Viewers \cup {Nobody}]

ViewInit ==
    /\ statusHabits \in {{}, {"cw"}, {"slow"}}
    /\ lock = Nobody
    /\ members = {}
    /\ place = [v \in Viewers |-> "out"]
    /\ dead = {} /\ txRows = {} /\ parked = {}
    /\ shown = [v \in Viewers |-> Nobody]

-----------------------------------------------------------------------------
(* _broadcast *)

\* Writes `says' to `list' in order, for the lock, members, rows and parked
\* broadcasts given, up to the dead holder whose transmission has a row to end.
SendTo(says, list, lock0, members0, txRows0, parked0) ==
    LET fallen == dead \cap members0
        stops == lock0 \in list \cap fallen \cap txRows0
        seen == IF stops THEN {v \in list : v <= lock0} ELSE list
        removed == fallen \cap seen
        told == {v \in seen \ dead : place[v] # "gone"}
    IN  /\ shown' = [v \in Viewers |-> IF v \in told THEN says ELSE shown[v]]
        /\ members' = members0 \ removed
        /\ lock' = IF lock0 \in removed THEN Nobody ELSE lock0
        /\ txRows' = IF stops THEN txRows0 \ {lock0} ELSE txRows0
        /\ parked' = IF stops
                     THEN parked0 \cup {[says |-> says, awaits |-> lock0, left |-> list \ seen]}
                     ELSE parked0

\* _broadcast_status
Tell(lock0, members0, txRows0) ==
    SendTo(lock0, members0, lock0, members0, txRows0, parked)

\* The database has ended the transmission: the broadcast goes on as it was.
ParkedResumes(b) ==
    /\ b \in parked
    /\ SendTo(b.says, b.left, lock, members, txRows, parked \ {b})
    /\ UNCHANGED <<statusHabits, place, dead>>

-----------------------------------------------------------------------------
(* _handle_control_client *)

Hello(v) ==
    /\ place[v] = "out" /\ \A w \in 1..(v - 1) : place[w] # "out"
    /\ place' = [place EXCEPT ![v] = "hello"]
    /\ members' = members \cup {v}
    /\ UNCHANGED <<statusHabits, lock, dead, txRows, parked, shown>>

\* The database has begun the session.  The acknowledgement to a dead client
\* raises, which ends its handler.
SessionBegun(v) ==
    /\ place[v] = "hello"
    /\ \/ /\ v \notin dead /\ place' = [place EXCEPT ![v] = "in"]
          /\ Tell(lock, members, txRows)
       \/ /\ v \in dead /\ place' = [place EXCEPT ![v] = "leaving"]
          /\ UNCHANGED <<lock, members, txRows, parked, shown>>
    /\ UNCHANGED <<statusHabits, dead>>

\* Granted; the line is keyed and the database begins a transmission.
KeyDown(v) ==
    /\ place[v] = "in" /\ v \notin dead
    /\ lock = Nobody
    /\ lock' = v
    /\ place' = [place EXCEPT ![v] = "keying"]
    /\ UNCHANGED <<statusHabits, members, dead, txRows, parked, shown>>

\* finally: _release_if_holder, for the rows given.
LetGo(v, txRows0) ==
    /\ place' = [place EXCEPT ![v] = "leaving"]
    /\ lock' = IF lock = v THEN Nobody ELSE lock
    /\ txRows' = IF lock = v THEN txRows0 \ {v} ELSE txRows0

RowStarted(v) ==
    /\ place[v] = "keying"
    /\ \/ /\ v \notin dead
          /\ place' = [place EXCEPT ![v] = "in"]
          /\ Tell(lock, members, txRows \cup {v})
       \/ /\ v \in dead
          /\ LetGo(v, txRows \cup {v})
          /\ UNCHANGED <<members, parked, shown>>
    /\ UNCHANGED <<statusHabits, dead>>

\* _release_ptt, after the tail if there is one.
KeyUp(v) ==
    /\ place[v] = "in" /\ lock = v /\ v \in txRows
    /\ place' = place
    /\ Tell(Nobody, members, txRows \ {v})
    /\ UNCHANGED <<statusHabits, dead>>

\* The end of a connection is read, or its silence has lasted too long.
Over(v) ==
    /\ place[v] = "in"
    /\ LetGo(v, txRows)
    /\ UNCHANGED <<statusHabits, members, dead, parked, shown>>

\* Mutant: those who stay are not told.
HandlerLeft_Quiet(v) ==
    /\ place[v] = "leaving"
    /\ "slow" \in statusHabits \/ \A b \in parked : b.awaits # v
    /\ place' = [place EXCEPT ![v] = "gone"]
    /\ members' = members \ {v}
    /\ dead' = dead \ {v}
    /\ UNCHANGED <<statusHabits, lock, txRows, parked, shown>>

\* The session is ended, after the transmission unless the database is slow.
HandlerLeft(v) ==
    /\ place[v] = "leaving"
    /\ "slow" \in statusHabits \/ \A b \in parked : b.awaits # v
    /\ place' = [place EXCEPT ![v] = "gone"]
    /\ dead' = dead \ {v}
    /\ Tell(lock, members \ {v}, txRows \ {v})
    /\ UNCHANGED statusHabits

-----------------------------------------------------------------------------
(* CW, the keepalive and the network *)

\* _handle_cw_event takes the lock and tells nobody.
CwTakes(v) ==
    /\ "cw" \in statusHabits /\ place[v] = "in" /\ lock = Nobody
    /\ lock' = v
    /\ UNCHANGED <<statusHabits, members, place, dead, txRows, parked, shown>>

\* _cw_release
CwGives(v) ==
    /\ "cw" \in statusHabits /\ lock = v
    /\ place' = place
    /\ Tell(Nobody, members, txRows)
    /\ UNCHANGED <<statusHabits, dead>>

\* A keepalive removes dead connections as any broadcast does, and says nothing
\* of the holder.  Those it has still to ping when it parks are not modelled.
KeepaliveFinds(v) ==
    /\ v \in dead \cap members
    /\ members' = members \ {v}
    /\ lock' = IF lock = v THEN Nobody ELSE lock
    /\ txRows' = IF lock = v THEN txRows \ {v} ELSE txRows
    /\ UNCHANGED <<statusHabits, place, dead, parked, shown>>

ConnectionDies(v) ==
    /\ "cw" \notin statusHabits
    /\ place[v] \in {"hello", "in", "keying"} /\ v \notin dead
    /\ dead' = dead \cup {v}
    /\ UNCHANGED <<statusHabits, lock, members, place, txRows, parked, shown>>

ViewNext ==
    \/ \E v \in Viewers :
          \/ Hello(v) \/ SessionBegun(v) \/ KeyDown(v) \/ RowStarted(v) \/ KeyUp(v)
          \/ Over(v) \/ HandlerLeft(v) \/ CwTakes(v) \/ CwGives(v)
          \/ KeepaliveFinds(v) \/ ConnectionDies(v)
    \/ \E b \in parked : ParkedResumes(b)

ViewSpec == ViewInit /\ [][ViewNext]_viewVars

-----------------------------------------------------------------------------
(* Properties *)

\* Once nothing is under way - no broadcast parked, no handler waiting for the
\* database, no dead connection unnoticed - every client shows the holder of the
\* lock, whatever order holders, deaths and broadcasts came in: the last word is
\* that of a broadcast begun after the last change.  Where CW takes the lock
\* unannounced they agree only while it is free; where an old broadcast outlasts
\* the handler it waits for, not even then.
ViewsAgree ==
    /\ "slow" \notin statusHabits /\ ("cw" \in statusHabits => lock = Nobody)
    /\ parked = {}
    /\ dead = {}
    /\ \A v \in Viewers : place[v] \in {"out", "in", "gone"}
    => \A v \in Viewers : place[v] = "in" => shown[v] = lock
=============================================================================
