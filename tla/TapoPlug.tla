------------------------------ MODULE TapoPlug ------------------------------
(***************************************************************************)
(* A Tapo plug that follows the radio it is linked to                      *)
(* (server/tapo_bridge.py): the poll loop, the manual switch of the admin  *)
(* panel, and a mains relay that may be out of reach or switched by hand.  *)
(***************************************************************************)
EXTENDS Naturals

CONSTANT MaxPlugEvents  \* bounds what happens around the plug

ASSUME PlugAssumption == MaxPlugEvents \in Nat

VARIABLES
    mains,      \* the relay of the plug: "on" or "off"
    isOn,       \* bridge.is_on, "unknown" before the first reading
    online,     \* bridge.online
    loop,       \* where _poll_loop is parked
    manual,     \* the admin panel's request under way
    reachable,  \* the plug answers
    radioUp,    \* the linked radio is in radio_manager.bridges
    plugEvents

plugWorld == <<reachable, radioUp, plugEvents>>
plugVars == <<mains, isOn, online, loop, manual, plugWorld>>

PlugTypeOK ==
    /\ mains \in {"on", "off"}
    /\ isOn \in {"on", "off", "unknown"}
    /\ online \in BOOLEAN
    /\ loop \in {"sleep", "read", "turn_on", "turn_off", "dead"}
    /\ manual \in {"none", "on", "off"}
    /\ reachable \in BOOLEAN
    /\ radioUp \in BOOLEAN
    /\ plugEvents \in 0..MaxPlugEvents

\* start has discovered the plug and read it once, or found it offline.
PlugInit ==
    /\ mains \in {"on", "off"}
    /\ reachable \in BOOLEAN
    /\ online = reachable
    /\ isOn = IF reachable THEN mains ELSE "unknown"
    /\ loop = "sleep"
    /\ manual = "none"
    /\ radioUp \in BOOLEAN
    /\ plugEvents = 0

\* should_be_on
Wanted == IF radioUp THEN "on" ELSE "off"

\* The 5 s are over: device.update is sent.
PollDue ==
    /\ loop = "sleep"
    /\ loop' = "read"
    /\ UNCHANGED <<mains, isOn, online, manual, plugWorld>>

\* Mutant: an offline plug is compared with what was last read.
Polled_OldReading ==
    /\ loop = "read"
    /\ online' = reachable
    /\ UNCHANGED <<mains, isOn, manual, plugWorld>>
    /\ loop' = IF Wanted = isOn THEN "sleep"
               ELSE IF radioUp THEN "turn_on" ELSE "turn_off"

\* _refresh, and _sync_link up to its first await.
Polled ==
    /\ loop = "read"
    /\ online' = reachable
    /\ isOn' = IF reachable THEN mains ELSE isOn
    /\ loop' = IF ~reachable \/ Wanted = mains THEN "sleep"
               ELSE IF radioUp THEN "turn_on" ELSE "turn_off"
    /\ UNCHANGED <<mains, manual, plugWorld>>

\* Mutant: the command is kept for the state it leads to.
Synced_Command ==
    /\ loop \in {"turn_on", "turn_off"}
    /\ IF reachable
       THEN /\ mains' = IF loop = "turn_on" THEN "on" ELSE "off"
            /\ isOn' = loop
            /\ loop' = "sleep"
       ELSE loop' = "dead" /\ UNCHANGED <<mains, isOn>>
    /\ UNCHANGED <<online, manual, plugWorld>>

\* The plug does as told; if it is out of reach by now the exception ends the
\* loop.
Synced ==
    /\ loop \in {"turn_on", "turn_off"}
    /\ IF reachable
       THEN /\ mains' = IF loop = "turn_on" THEN "on" ELSE "off"
            /\ isOn' = mains'
            /\ loop' = "sleep"
       ELSE loop' = "dead" /\ UNCHANGED <<mains, isOn>>
    /\ UNCHANGED <<online, manual, plugWorld>>

\* POST /api/tapo/<name>/power: the plug answers, or the request ends with 500.
ManualDone ==
    /\ manual # "none"
    /\ manual' = "none"
    /\ IF reachable THEN mains' = manual /\ isOn' = manual
                    ELSE UNCHANGED <<mains, isOn>>
    /\ UNCHANGED <<online, loop, plugWorld>>

\* What happens around the plug.
PlugEvent ==
    /\ plugEvents < MaxPlugEvents
    /\ plugEvents' = plugEvents + 1
    /\ \/ reachable' = ~reachable /\ UNCHANGED <<mains, radioUp, manual>>
       \/ radioUp' = ~radioUp /\ UNCHANGED <<mains, reachable, manual>>
       \/ mains' \in {"on", "off"} \ {mains} /\ UNCHANGED <<reachable, radioUp, manual>>
       \/ /\ manual = "none"
          /\ manual' \in {"on", "off"}
          /\ UNCHANGED <<mains, reachable, radioUp>>
    /\ UNCHANGED <<isOn, online, loop>>

PlugStep == PollDue \/ Polled \/ Synced \/ ManualDone
PlugNext == PlugStep \/ PlugEvent

PlugFairness == WF_plugVars(PollDue) /\ WF_plugVars(Polled) /\ WF_plugVars(Synced)
PlugSpec == PlugInit /\ [][PlugNext]_plugVars /\ PlugFairness

-----------------------------------------------------------------------------
(* Properties *)

\* The plug's power is matched to whether the radio is running, whatever was
\* switched by hand or by radios that came and went: once things have settled,
\* a plug in reach has the radio's state, provided that no command failed (one
\* that does ends the poll loop for good).
PlugFollowsRadio == <>[](reachable /\ loop # "dead" => mains = Wanted)
=============================================================================
