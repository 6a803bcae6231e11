---------------------------- MODULE DevicePanel ----------------------------
(***************************************************************************)
(* What a client's window shows of an amplifier or an antenna switch: the  *)
(* session's poll loop (client/session.py), the rows of the window         *)
(* (client/ui.py, client/antenna_switch_panel.py), and the routes of       *)
(* server/admin_api.py that list the devices and pass commands on.         *)
(***************************************************************************)
EXTENDS Naturals

CONSTANT MaxPanelChanges  \* bounds clicks and what happens around the client

ASSUME DisplayAssumption == MaxPanelChanges \in Nat

Modes == 1..2    \* an amplifier's modes, a switch's ports
Unreported == 0  \* None

Row == [listed : BOOLEAN, state : Modes \cup {Unreported}, can : BOOLEAN]
NoRow == [listed |-> FALSE, state |-> Unreported, can |-> FALSE]

VARIABLES
    gear,      \* "amplifier", "ebox" (an amplifier behind an eBox) or "switch"
    serverUp,  \* the server can be reached
    presence,  \* of the device at the server
    allowed,   \* the user has been given the device
    actual,    \* the mode the device is in
    reported,  \* the mode its bridge knows
    answerDue, \* a switch has a query or a command to answer
    drifted,   \* it was turned by hand, or its answer lost, since it last told
               \* its port
    fetch,     \* where the poll is
    answer,    \* the row the server is putting together
    fetched,   \* session.amplifiers, session.antenna_switches
    shownRow,  \* the row as drawn
    pressed,   \* the buttons drawn as pressed
    touched,   \* a button was clicked since
    clicks,    \* commands under way
    changes

world == <<gear, serverUp, presence, allowed>>
device == <<actual, reported, answerDue, drifted>>

Gears == {"amplifier", "ebox", "switch"}
polling == <<fetch, answer, fetched>>
rowsShown == <<shownRow, pressed, touched>>
displayVars == <<world, device, polling, rowsShown, clicks, changes>>

(* served: in the database and with a bridge; idle: in the database only. *)
DisplayTypeOK ==
    /\ gear \in Gears
    /\ {serverUp, allowed, touched, answerDue, drifted} \subseteq BOOLEAN
    /\ presence \in {"served", "idle", "absent"}
    /\ actual \in Modes
    /\ reported \in Modes \cup {Unreported}
    /\ fetch \in {"sleep", "configs", "access", "answered", "dead"}
    /\ {answer, fetched, shownRow} \subseteq Row
    /\ pressed \subseteq Modes
    /\ clicks \in [Modes -> {"none", "sent", "granted"}]
    /\ changes \in 0..MaxPanelChanges

\* A bridge that starts asks a switch for its port, once; the query is dropped if
\* the serial port is not open by then.
StartAsks == IF gear = "switch" THEN BOOLEAN ELSE {FALSE}

\* The client has just been started, and the bridge.
DisplayInit ==
    /\ gear \in Gears
    /\ serverUp = TRUE
    /\ presence = "served"
    /\ allowed = TRUE
    /\ actual = 1
    /\ reported = Unreported
    /\ answerDue \in StartAsks
    /\ drifted = (gear = "switch" /\ ~answerDue)
    /\ fetch = "sleep"
    /\ answer = NoRow /\ fetched = NoRow /\ shownRow = NoRow
    /\ pressed = {}
    /\ touched = FALSE
    /\ clicks = [m \in Modes |-> "none"]
    /\ changes = 0

-----------------------------------------------------------------------------
(* The poll loop and the route that lists the devices *)

\* The 5 s are over.
FetchDue ==
    /\ fetch = "sleep"
    /\ fetch' = "configs"
    /\ UNCHANGED <<world, device, answer, fetched, rowsShown, clicks, changes>>

\* Mutant: a device without a report is listed with a status of its own.
ListDevices_Default ==
    /\ fetch = "configs" /\ serverUp
    /\ fetch' = "access"
    /\ answer' = [listed |-> TRUE, can |-> FALSE,
                  state |-> IF reported = Unreported THEN 9 ELSE reported]
    /\ UNCHANGED <<world, device, fetched, rowsShown, clicks, changes>>

\* list_client_...: the configurations have been read, and then the bridges'
\* status at once.
ListDevices ==
    /\ fetch = "configs" /\ serverUp
    /\ fetch' = "access"
    /\ answer' = IF presence = "absent" THEN NoRow
                 ELSE [listed |-> TRUE, can |-> FALSE,
                       state |-> IF presence = "served" THEN reported ELSE Unreported]
    /\ UNCHANGED <<world, device, fetched, rowsShown, clicks, changes>>

\* user_can_access_... for the row.
CanControl ==
    /\ fetch = "access" /\ serverUp
    /\ fetch' = "answered"
    /\ answer' = [answer EXCEPT !.can = answer.listed /\ allowed]
    /\ UNCHANGED <<world, device, fetched, rowsShown, clicks, changes>>

\* The rows arrive.
Fetched ==
    /\ fetch = "answered" /\ serverUp
    /\ fetch' = "sleep"
    /\ fetched' = answer
    /\ answer' = NoRow
    /\ UNCHANGED <<world, device, rowsShown, clicks, changes>>

\* The server cannot be reached: no rows.  An answer that breaks off raises
\* IncompleteRead instead, which is none of the exceptions that are caught, and
\* ends the loop.
FetchFails ==
    /\ fetch \in {"configs", "access", "answered"} /\ ~serverUp
    /\ \/ fetch' = "sleep" /\ fetched' = NoRow
       \/ fetch = "answered" /\ fetch' = "dead" /\ UNCHANGED fetched
    /\ answer' = NoRow
    /\ UNCHANGED <<world, device, rowsShown, clicks, changes>>

-----------------------------------------------------------------------------
(* The window *)

\* Mutant: the signature leaves the right out.
RedrawAmplifiers_NoRight ==
    /\ gear # "switch" /\ [fetched EXCEPT !.can = shownRow.can] # shownRow
    /\ shownRow' = fetched
    /\ UNCHANGED <<world, device, polling, pressed, touched, clicks, changes>>

\* _refresh_amplifier_panel: the rows are made anew if their signature changed.
RedrawAmplifiers ==
    /\ gear # "switch" /\ fetched # shownRow
    /\ shownRow' = fetched
    /\ UNCHANGED <<world, device, polling, pressed, touched, clicks, changes>>

\* Mutant: the buttons are made anew without their state.
RedrawSwitches_Released ==
    /\ gear = "switch" /\ fetched # shownRow
    /\ shownRow' = fetched
    /\ pressed' = {}
    /\ touched' = FALSE
    /\ UNCHANGED <<world, device, polling, clicks, changes>>

\* tick and _rebuild of the switch window, likewise.
RedrawSwitches ==
    /\ gear = "switch" /\ fetched # shownRow
    /\ shownRow' = fetched
    /\ pressed' = {fetched.state} \ {Unreported}
    /\ touched' = FALSE
    /\ UNCHANGED <<world, device, polling, clicks, changes>>

Change == changes < MaxPanelChanges /\ changes' = changes + 1

\* A command goes out in a thread of its own.
Ask(m) ==
    /\ Change
    /\ shownRow.can
    /\ clicks[m] = "none"
    /\ clicks' = [clicks EXCEPT ![m] = "sent"]

ClickMode(m) ==
    /\ gear # "switch"
    /\ Ask(m)
    /\ UNCHANGED <<world, device, polling, rowsShown>>

\* A port's button is checkable: Qt toggles it.
ClickPort(m) ==
    /\ gear = "switch"
    /\ Ask(m)
    /\ pressed' = (pressed \ {m}) \cup ({m} \ pressed)
    /\ touched' = TRUE
    /\ UNCHANGED <<world, device, polling, shownRow>>

-----------------------------------------------------------------------------
(* The routes that pass a command on *)

\* set_client_...: the user's right, 403 without it.
Granted(m) ==
    /\ clicks[m] = "sent"
    /\ clicks' = [clicks EXCEPT ![m] = IF serverUp /\ allowed THEN "granted" ELSE "none"]
    /\ UNCHANGED <<world, device, polling, rowsShown, changes>>

\* Once the database has answered, the bridge is looked up: 404 without one.
Found(m) ==
    /\ clicks[m] = "granted"
    /\ clicks' = [clicks EXCEPT ![m] = "none"]
    /\ actual' = IF serverUp /\ presence = "served" THEN m ELSE actual

SetMode(m) ==
    /\ gear # "switch"
    /\ Found(m)
    /\ UNCHANGED <<world, reported, answerDue, drifted, polling, rowsShown, changes>>

\* The bridge shows the port at once; the switch has a command to answer.
SelectsPort(m) ==
    /\ gear = "switch"
    /\ Found(m)
    /\ IF serverUp /\ presence = "served"
       THEN reported' = m /\ answerDue' = TRUE /\ drifted' = FALSE
       ELSE UNCHANGED <<reported, answerDue, drifted>>
    /\ UNCHANGED <<world, polling, rowsShown, changes>>

-----------------------------------------------------------------------------
(* The device and its bridge *)

\* An amplifier on a cable goes on sending telemetry; a switch answers what it is
\* asked, and nobody asks it again; an eBox tells no mode.
Reports ==
    /\ presence = "served"
    /\ \/ gear = "amplifier" /\ reported # actual
       \/ gear = "switch" /\ answerDue
    /\ reported' = actual /\ answerDue' = FALSE /\ drifted' = FALSE
    /\ UNCHANGED <<world, actual, polling, rowsShown, clicks, changes>>

\* query_port, the button of the admin panel.
QueryAgain ==
    /\ Change
    /\ gear = "switch" /\ presence = "served"
    /\ answerDue' = TRUE
    /\ UNCHANGED <<world, actual, reported, drifted, polling, rowsShown, clicks>>

\* The answer of the switch is lost or not understood.
AnswerLost ==
    /\ Change
    /\ answerDue
    /\ answerDue' = FALSE /\ drifted' = (reported # actual)
    /\ UNCHANGED <<world, actual, reported, polling, rowsShown, clicks>>

OperatedByHand ==
    /\ Change
    /\ actual' \in Modes \ {actual}
    /\ drifted' = (gear = "switch")
    /\ UNCHANGED <<world, reported, answerDue, polling, rowsShown, clicks>>

\* The device is saved, which starts its bridge, or deleted.
Configured ==
    /\ Change
    /\ presence' \in {"served", "idle", "absent"} \ {presence}
    /\ reported' = Unreported
    /\ answerDue' \in IF presence' = "served" THEN StartAsks ELSE {FALSE}
    /\ drifted' = (presence' = "served" /\ gear = "switch" /\ ~answerDue')
    /\ UNCHANGED <<gear, serverUp, allowed, actual, polling, rowsShown, clicks>>

\* It is given to the user or taken away; the server goes down or comes back.
Around ==
    /\ Change
    /\ \/ allowed' = ~allowed /\ UNCHANGED serverUp
       \/ serverUp' = ~serverUp /\ UNCHANGED allowed
    /\ UNCHANGED <<gear, presence, device, polling, rowsShown, clicks>>

Polling == FetchDue \/ ListDevices \/ CanControl \/ Fetched \/ FetchFails
Redraw == RedrawAmplifiers \/ RedrawSwitches
Order(m) == ClickMode(m) \/ ClickPort(m) \/ Granted(m) \/ SetMode(m) \/ SelectsPort(m)

Outside == QueryAgain \/ AnswerLost \/ OperatedByHand \/ Configured \/ Around

DisplayNext == Polling \/ Redraw \/ Reports \/ Outside \/ \E m \in Modes : Order(m)

DisplayFairness ==
    WF_displayVars(Polling) /\ WF_displayVars(Redraw) /\ WF_displayVars(Reports)
DisplaySpec == DisplayInit /\ [][DisplayNext]_displayVars /\ DisplayFairness

-----------------------------------------------------------------------------
(* Properties *)

\* The row there should be: what the device does, as far as it tells.  A switch
\* turned by hand keeps the port it told last.
Truth ==
    IF presence = "absent" \/ ~serverUp THEN NoRow
    ELSE [listed |-> TRUE, can |-> allowed,
          state |-> IF presence # "served" \/ gear = "ebox" THEN Unreported
                    ELSE IF drifted THEN reported ELSE actual]

\* In the end the window shows what the device does and whether the user may
\* touch it, whatever polls, commands and changes overlapped - while the poll
\* loop lives; of a switch that was turned by hand or whose answer was lost it
\* shows what its bridge knows until somebody asks or selects again.  And the
\* pressed button of a switch is the one of the port shown.  Only a click that
\* changed nothing, because it was refused or the port was selected already,
\* leaves a button toggled: the rows are not drawn again.
RowSettles ==
    <>[](fetch # "dead" =>
            /\ shownRow = Truth
            /\ gear = "switch" /\ ~touched => pressed = {Truth.state} \ {Unreported})
=============================================================================
