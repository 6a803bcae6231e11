----------------------------- MODULE MCChannels -----------------------------
(***************************************************************************)
(* Small instances of the components that keep up a connection or follow a *)
(* device: external PTT, the CAT path, plug, antenna switch, audio link,   *)
(* radio panel, device windows and amplifier telemetry.  They share no     *)
(* state here, so a behaviour is one of one component, `part', and the     *)
(* others stay in a state that is at rest.                                 *)
(***************************************************************************)
EXTENDS ExternalPtt, CatPath, TapoPlug, AntennaSwitch, AudioPath, RadioPanel, DevicePanel,
        AmpTelemetry

\* What the amplifier reports at rest.
ASSUME RestAssumption == <<1, 0>> \in Readings

VARIABLE part

allVars == <<part, vars, catVars, plugVars, switchVars, audioVars, panelVars,
             displayVars, telemetryVars>>

PttAtRest == Init /\ method = "line" /\ ~hasTail
CatAtRest == CatInit /\ refusable /\ ~drained
PlugAtRest == PlugInit /\ mains = "on" /\ reachable /\ radioUp
SwitchAtRest == SwitchInit /\ chunks = "split" /\ selected = 1 /\ toSwitch = <<>>

\* Where the liveness properties hold without a step.
AudioAtRest ==
    /\ haste = {} /\ row = 1 /\ asked = 1 /\ serverLink = 1 /\ clientLink = 1
    /\ change = "idle"
    /\ peerKnown = TRUE /\ ctl = TRUE
    /\ announcing = FALSE /\ notice = FALSE /\ refetch = FALSE
    /\ audioEvents = 0
PanelAtRest ==
    /\ rig = [c \in Controls |-> 0] /\ view = rig /\ dialOn = TRUE /\ base = 0
    /\ editing = FALSE /\ field = 0 /\ drawn = 0
    /\ jobs = <<>> /\ commands = <<>> /\ replies = <<>> /\ asking = "freq"
    /\ panelEvents = 0

\* To keep the run short: the RC-28 runs at the start, and the radio's controls
\* are at 0 until somebody turns them.
PanelBound == dialOn /\ rig = [c \in Controls |-> 0]

DisplayAtRest ==
    /\ gear = "amplifier" /\ serverUp = TRUE /\ presence = "served" /\ allowed = TRUE
    /\ actual = 1 /\ reported = 1 /\ answerDue = FALSE /\ drifted = FALSE
    /\ fetch = "sleep" /\ answer = NoRow /\ fetched = Truth /\ shownRow = Truth
    /\ pressed = {} /\ touched = FALSE
    /\ clicks = [m \in Modes |-> "none"] /\ changes = 0
TelemetryAtRest ==
    /\ medium = "http" /\ linkUp = TRUE /\ enabled = TRUE
    /\ reading = <<1, 0>> /\ sending = reading /\ previous = reading
    /\ sent = 0 /\ buffer = <<>> /\ lastFrame = Nothing
    /\ fault = FALSE /\ clean = TRUE /\ upsets = 0

ChannelsInit ==
    /\ part \in {"ptt", "cat", "plug", "switch", "audio", "panel", "display",
                 "telemetry"}
    /\ IF part = "ptt" THEN Init ELSE PttAtRest
    /\ IF part = "cat" THEN CatInit ELSE CatAtRest
    /\ IF part = "plug" THEN PlugInit ELSE PlugAtRest
    /\ IF part = "switch" THEN SwitchInit ELSE SwitchAtRest
    /\ IF part = "audio" THEN AudioInit ELSE AudioAtRest
    /\ IF part = "panel" THEN PanelInit /\ PanelBound ELSE PanelAtRest
    /\ IF part = "display" THEN DisplayInit ELSE DisplayAtRest
    /\ IF part = "telemetry" THEN TelemetryInit ELSE TelemetryAtRest

ChannelsNext ==
    \/ /\ part = "ptt" /\ Next
       /\ UNCHANGED <<part, catVars, plugVars, switchVars, audioVars, panelVars,
                       displayVars, telemetryVars>>
    \/ /\ part = "cat" /\ CatNext
       /\ UNCHANGED <<part, vars, plugVars, switchVars, audioVars, panelVars,
                       displayVars, telemetryVars>>
    \/ /\ part = "plug" /\ PlugNext
       /\ UNCHANGED <<part, vars, catVars, switchVars, audioVars, panelVars,
                       displayVars, telemetryVars>>
    \/ /\ part = "switch" /\ SwitchNext
       /\ UNCHANGED <<part, vars, catVars, plugVars, audioVars, panelVars,
                       displayVars, telemetryVars>>
    \/ /\ part = "audio" /\ AudioNext
       /\ UNCHANGED <<part, vars, catVars, plugVars, switchVars, panelVars,
                       displayVars, telemetryVars>>
    \/ /\ part = "panel" /\ PanelNext
       /\ UNCHANGED <<part, vars, catVars, plugVars, switchVars, audioVars,
                       displayVars, telemetryVars>>
    \/ /\ part = "display" /\ DisplayNext
       /\ UNCHANGED <<part, vars, catVars, plugVars, switchVars, audioVars,
                       panelVars, telemetryVars>>
    \/ /\ part = "telemetry" /\ TelemetryNext
       /\ UNCHANGED <<part, vars, catVars, plugVars, switchVars, audioVars,
                       panelVars, displayVars>>

\* The fairness each component's own specification states, for the one that runs.
ChannelsFairness ==
    /\ \A s \in Stations :
          /\ WF_vars(part = "ptt" /\ Poll(s))
          /\ WF_vars(part = "ptt" /\ Receive(s))
          /\ WF_vars(part = "ptt" /\ Reconnect(s))
    /\ WF_vars(part = "ptt" /\ TailFires)
    /\ \A s \in CatStations : WF_catVars(part = "cat" /\ RelayStep(s))
    /\ \A c \in Conns : WF_catVars(part = "cat" /\ HandlerEnds(c))
    /\ WF_catVars(part = "cat" /\ BridgeUp)
    /\ WF_plugVars(part = "plug" /\ PollDue)
    /\ WF_plugVars(part = "plug" /\ Polled)
    /\ WF_plugVars(part = "plug" /\ Synced)
    /\ WF_audioVars(part = "audio" /\ RowSaved)
    /\ WF_audioVars(part = "audio" /\ BridgeStarted)
    /\ WF_audioVars(part = "audio" /\ ServerHears)
    /\ WF_audioVars(part = "audio" /\ NoticeRead)
    /\ WF_audioVars(part = "audio" /\ Refetched)
    /\ WF_panelVars(part = "panel" /\ Tick)
    /\ WF_panelVars(part = "panel" /\ RunJob)
    /\ WF_panelVars(part = "panel" /\ PollNext)
    /\ WF_panelVars(part = "panel" /\ ReplyHandled)
    /\ WF_panelVars(part = "panel" /\ Answer)
    /\ WF_displayVars(part = "display" /\ Polling)
    /\ WF_displayVars(part = "display" /\ Redraw)
    /\ WF_displayVars(part = "display" /\ Reports)
    /\ WF_telemetryVars(part = "telemetry" /\ ByteArrives)
    /\ WF_telemetryVars(part = "telemetry" /\ Reenable)
    /\ WF_telemetryVars(part = "telemetry" /\ PollEbox)

ChannelsSpec == ChannelsInit /\ [][ChannelsNext]_allVars /\ ChannelsFairness

\* Every component's variables keep their types: no timer is called off that is
\* not armed, no reply is taken that was not awaited, no frame to a radio says
\* what its digits cannot hold.
ChannelsTypeOK ==
    /\ TypeOK /\ CatTypeOK /\ PlugTypeOK /\ SwitchTypeOK
    /\ AudioTypeOK /\ PanelTypeOK /\ DisplayTypeOK /\ TelemetryTypeOK
=============================================================================
