---------------------------- MODULE MCLifecycles ----------------------------
(***************************************************************************)
(* Small instances of the components that come and go under requests: the  *)
(* server's radio and device managers, accounts, sniffer and port plan, a  *)
(* bridge's transmitter and its broadcasts, the client's session, radio    *)
(* list and CW sources.  They share no state here, so a behaviour is one   *)
(* of one component, `part', and the others stay as they are at start.     *)
(***************************************************************************)
EXTENDS RadioManager, DeviceManager, ClientSession, RadioList, Accounts, CwSources,
        Sniffer, PortPlan, OnAir, StatusView

VARIABLE part

allVars == <<part, vars, devVars, sessionVars, listVars, accountVars, cwVars,
             snifferVars, planVars, onAirVars, viewVars>>

\* Requests are interchangeable, and so are the ports of two radios: it is enough
\* to start from one order of what numbered requests ask for, and from one choice
\* of the ports of Boot.
KindRank == [create |-> 0, update |-> 1, force |-> 2, disable |-> 3, delete |-> 4]
Rank(r) == 2 * KindRank[kind[r]] + (IF portsOf[r] = portsOf[Boot] THEN 0 ELSE 1)
RadioBound ==
    /\ portsOf[Boot] = CHOOSE p \in PortSets : TRUE
    /\ \A q, r \in Requests : q < r => Rank(q) <= Rank(r)

RadioAsleep ==
    /\ Init
    /\ mode = {}
    /\ kind = [r \in Requests |-> "create"]
    /\ portsOf = [b \in Bridges |-> CHOOSE p \in PortSets : TRUE]
DeviceAsleep ==
    /\ DevInit
    /\ device = [kind |-> "serial", overlap |-> FALSE, race |-> FALSE]
    /\ wired = NoBridge
    /\ asks = [r \in DevRequests |-> "save"]
SessionAsleep == SessionInit /\ pace = {} /\ enabled = {}
ListAsleep == ListInit /\ weather = {}
AccountsAsleep == AccountsInit /\ adminHabits = {}
CwAsleep == CwInit /\ cwHabits = {} /\ source = "straight"
SnifferAsleep ==
    SnifferInit /\ ~brisk /\ radioPorts = {} /\ elsewhere = {} /\ programKeys = "up"
PlanAsleep == PlanInit /\ ~hurried
ViewAsleep == ViewInit /\ statusHabits = {}
OnAirAsleep == OnAirInit /\ wiring = "shared" /\ ~tailed

LifecyclesInit ==
    /\ part \in {"radio", "device", "session", "list", "accounts", "cw", "sniffer",
                 "plan", "onair", "view"}
    /\ IF part = "radio" THEN Init /\ RadioBound ELSE RadioAsleep
    /\ IF part = "device" THEN DevInit ELSE DeviceAsleep
    /\ IF part = "session" THEN SessionInit ELSE SessionAsleep
    /\ IF part = "list" THEN ListInit ELSE ListAsleep
    /\ IF part = "accounts" THEN AccountsInit ELSE AccountsAsleep
    /\ IF part = "cw" THEN CwInit ELSE CwAsleep
    /\ IF part = "sniffer" THEN SnifferInit ELSE SnifferAsleep
    /\ IF part = "plan" THEN PlanInit ELSE PlanAsleep
    /\ IF part = "onair" THEN OnAirInit ELSE OnAirAsleep
    /\ IF part = "view" THEN ViewInit ELSE ViewAsleep

LifecyclesNext ==
    \/ /\ part = "radio" /\ Next
       /\ UNCHANGED <<part, devVars, sessionVars, listVars, accountVars, cwVars,
                       snifferVars, planVars, onAirVars, viewVars>>
    \/ /\ part = "device" /\ DevNext
       /\ UNCHANGED <<part, vars, sessionVars, listVars, accountVars, cwVars,
                       snifferVars, planVars, onAirVars, viewVars>>
    \/ /\ part = "session" /\ SessionNext
       /\ UNCHANGED <<part, vars, devVars, listVars, accountVars, cwVars,
                       snifferVars, planVars, onAirVars, viewVars>>
    \/ /\ part = "list" /\ ListNext
       /\ UNCHANGED <<part, vars, devVars, sessionVars, accountVars, cwVars,
                       snifferVars, planVars, onAirVars, viewVars>>
    \/ /\ part = "accounts" /\ AccountsNext
       /\ UNCHANGED <<part, vars, devVars, sessionVars, listVars, cwVars,
                       snifferVars, planVars, onAirVars, viewVars>>
    \/ /\ part = "cw" /\ CwNext
       /\ UNCHANGED <<part, vars, devVars, sessionVars, listVars, accountVars,
                       snifferVars, planVars, onAirVars, viewVars>>
    \/ /\ part = "sniffer" /\ SnifferNext
       /\ UNCHANGED <<part, vars, devVars, sessionVars, listVars, accountVars,
                       cwVars, planVars, onAirVars, viewVars>>
    \/ /\ part = "plan" /\ PlanNext
       /\ UNCHANGED <<part, vars, devVars, sessionVars, listVars, accountVars,
                       cwVars, snifferVars, onAirVars, viewVars>>
    \/ /\ part = "onair" /\ OnAirNext
       /\ UNCHANGED <<part, vars, devVars, sessionVars, listVars, accountVars,
                       cwVars, snifferVars, planVars, viewVars>>
    \/ /\ part = "view" /\ ViewNext
       /\ UNCHANGED <<part, vars, devVars, sessionVars, listVars, accountVars,
                       cwVars, snifferVars, planVars, onAirVars>>

LifecyclesSpec == LifecyclesInit /\ [][LifecyclesNext]_allVars

\* Every component's variables keep their types: no handle outlives its timers, no
\* port is taken for a session, no task is where only a bridge can be.
LifecyclesTypeOK ==
    /\ TypeOK /\ DevTypeOK /\ SessionTypeOK /\ ListTypeOK /\ AccountsTypeOK
    /\ CwTypeOK /\ SnifferTypeOK /\ PlanTypeOK /\ OnAirTypeOK /\ ViewTypeOK
=============================================================================
