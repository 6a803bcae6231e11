--------------------------- MODULE AntennaSwitch ---------------------------
(***************************************************************************)
(* The port that the server shows for an antenna switch                    *)
(* (server/antenna_switch_bridge.py) against the one the switch has        *)
(* selected: commands and replies on the serial line, the optimistic value *)
(* in between, and a switch that can be turned at its own front panel.     *)
(***************************************************************************)
EXTENDS Naturals, Sequences

CONSTANTS
    PortCount,     \* antenna ports of the switch
    MaxCommands,   \* bounds the commands on their way
    MaxTurns       \* bounds the selections at the front panel

ASSUME SwitchAssumption == PortCount \in Nat \ {0} /\ {MaxCommands, MaxTurns} \subseteq Nat

Ports == 1..PortCount
Query == 0     \* CMD_QUERY_STATE on the line; a port stands for its W command
Unknown == 0   \* self.port before the first reply: None

VARIABLES
    chunks,    \* how replies arrive: "whole", or "split" before their prompt
    selected,  \* the port the switch has selected
    shown,     \* bridge.port
    toSwitch,  \* commands on the line
    toServer,  \* replies on the line
    prompt,    \* a '>' is left at the start of the parser's buffer
    turned,    \* the switch was turned by hand after its latest reply
    turns

switchVars == <<chunks, selected, shown, toSwitch, toServer, prompt, turned, turns>>

SwitchTypeOK ==
    /\ chunks \in {"whole", "split"}
    /\ selected \in Ports
    /\ shown \in Ports \cup {Unknown}
    /\ toSwitch \in Seq(Ports \cup {Query})
    /\ toServer \in Seq(Ports)
    /\ prompt \in BOOLEAN
    /\ turned \in BOOLEAN
    /\ turns \in 0..MaxTurns

\* start has connected; its query is on the line, unless connection_made had
\* not run yet and the write was dropped.
SwitchInit ==
    /\ chunks \in {"whole", "split"}
    /\ selected \in Ports
    /\ shown = Unknown
    /\ toSwitch \in {<<>>, <<Query>>}
    /\ toServer = <<>>
    /\ prompt = FALSE
    /\ turned = TRUE
    /\ turns = 0

\* select_port: the command is written and the port is shown at once.
SelectPort(p) ==
    /\ Len(toSwitch) + Len(toServer) < MaxCommands
    /\ toSwitch' = Append(toSwitch, p)
    /\ shown' = p
    /\ UNCHANGED <<chunks, selected, toServer, prompt, turned, turns>>

QueryPort ==
    /\ Len(toSwitch) + Len(toServer) < MaxCommands
    /\ toSwitch' = Append(toSwitch, Query)
    /\ UNCHANGED <<chunks, selected, shown, toServer, prompt, turned, turns>>

\* The switch executes a command and answers with the port it has selected.
SwitchAnswers ==
    /\ toSwitch # <<>>
    /\ toSwitch' = Tail(toSwitch)
    /\ selected' = IF Head(toSwitch) = Query THEN selected ELSE Head(toSwitch)
    /\ toServer' = Append(toServer, selected')
    /\ turned' = FALSE
    /\ UNCHANGED <<chunks, shown, prompt, turns>>

\* Mutant: the first reply after the server's own selection is taken for its echo.
ReplyArrives_SkipEcho ==
    /\ toServer # <<>>
    /\ toServer' = Tail(toServer)
    /\ shown' = IF prompt \/ shown # Unknown THEN shown ELSE Head(toServer)
    /\ prompt' \in IF chunks = "split" THEN BOOLEAN ELSE {FALSE}
    /\ UNCHANGED <<chunks, selected, toSwitch, turned, turns>>

\* Mutant: the digit is taken for an index that starts at 0.
ReplyArrives_ByIndex ==
    /\ toServer # <<>>
    /\ toServer' = Tail(toServer)
    /\ shown' = IF prompt THEN shown ELSE Head(toServer) + 1
    /\ prompt' \in IF chunks = "split" THEN BOOLEAN ELSE {FALSE}
    /\ UNCHANGED <<chunks, selected, toSwitch, turned, turns>>

\* ReplyParser.feed: a prompt that came in a chunk of its own is not dropped;
\* it makes the next line's field ">R", which _on_data does not know.
ReplyArrives ==
    /\ toServer # <<>>
    /\ toServer' = Tail(toServer)
    /\ shown' = IF prompt THEN shown ELSE Head(toServer)
    /\ prompt' \in IF chunks = "split" THEN BOOLEAN ELSE {FALSE}
    /\ UNCHANGED <<chunks, selected, toSwitch, turned, turns>>

TurnedByHand ==
    /\ turns < MaxTurns
    /\ turns' = turns + 1
    /\ selected' \in Ports \ {selected}
    /\ turned' = TRUE
    /\ UNCHANGED <<chunks, shown, toSwitch, toServer, prompt>>

SwitchNext == \/ \E p \in Ports : SelectPort(p)
              \/ QueryPort \/ SwitchAnswers \/ ReplyArrives \/ TurnedByHand

SwitchSpec == SwitchInit /\ [][SwitchNext]_switchVars

-----------------------------------------------------------------------------
(* Properties *)

LineQuiet == toSwitch = <<>> /\ toServer = <<>>

\* When every command has been answered and the answers have been read, the
\* port shown is the one selected, however selections, queries and turns at the
\* front panel were interleaved - as long as no reply is cut off its prompt.
ShownIsSelected == chunks = "whole" /\ LineQuiet /\ ~turned => shown = selected
=============================================================================
