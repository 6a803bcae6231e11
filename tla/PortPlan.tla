------------------------------ MODULE PortPlan ------------------------------
(***************************************************************************)
(* The TCP and UDP ports of the configured radios (server/admin_api.py,    *)
(* server/port_ranges.py, the radio_configs table of server/db.py): what   *)
(* the "new radio" form suggests, the check for conflicts, and the row     *)
(* that is written some awaits later.  A port is the number of its slot in *)
(* the range of its channel.                                               *)
(***************************************************************************)
EXTENDS Naturals

CONSTANTS
    RadioNames,  \* names of radios
    Channels,    \* CAT, control, audio and CW, each with a range of its own
    Slots,       \* MAX_RADIOS
    Forms        \* forms that are open in the admin panels

ASSUME PlanAssumption == RadioNames # {} /\ Slots \in Nat \ {0}

Typed == Slots + 1   \* a port the admin typed that is in no range
NoPort == 0          \* None: a radio that is not there, a range that is used up
Plans == [Channels -> NoPort..Typed]

Contents == [name : RadioNames, ports : Plans]
Entered == [name : RadioNames, ports : [Channels -> 1..Typed]]

VARIABLES
    hurried, \* a form may be sent while another is being handled
    plan,    \* the radios' ports in radio_configs
    formAt,  \* where a form is
    form,    \* the radio and the ports of a form that is filled or checked
    fresh    \* forms as suggested, nothing having been written since

planVars == <<hurried, plan, formAt, form, fresh>>

PlanTypeOK ==
    /\ hurried \in BOOLEAN
    /\ plan \in [RadioNames -> Plans]
    /\ formAt \in [Forms -> {"blank", "filled", "checked", "refused"}]
    /\ form \in [Forms -> Contents]
    /\ fresh \subseteq Forms

NoPlan == [c \in Channels |-> NoPort]
Blank == [name |-> CHOOSE n \in RadioNames : TRUE, ports |-> NoPlan]

PlanInit ==
    /\ hurried \in BOOLEAN
    /\ plan = [n \in RadioNames |-> NoPlan]
    /\ formAt = [f \in Forms |-> "blank"]
    /\ form = [f \in Forms |-> Blank]
    /\ fresh = {}

-----------------------------------------------------------------------------

Proceed(f, place) == formAt' = [formAt EXCEPT ![f] = place]
Blanked(f) == Proceed(f, "blank") /\ form' = [form EXCEPT ![f] = Blank]
Used(c) == {plan[n][c] : n \in RadioNames}

\* Mutant: as many ports are taken as there are radios, the first ones.
NextFree_Count(c) ==
    IF 1..Slots \subseteq Used(c) THEN NoPort
    ELSE IF \E n \in RadioNames : plan[n] # NoPlan THEN 2 ELSE 1

\* next_free_port
NextFree(c) ==
    IF 1..Slots \subseteq Used(c) THEN NoPort
    ELSE CHOOSE p \in 1..Slots :
            p \notin Used(c) /\ \A q \in 1..Slots : q < p => q \in Used(c)

Suggestion == [c \in Channels |-> NextFree(c)]

\* Mutant: only radios that agree in every channel are in conflict.
Conflict_All(n, ports) ==
    \E m \in RadioNames \ {n} : \A c \in Channels : ports[c] = plan[m][c]

\* _port_conflict: each channel against the same channel of every other radio.
Conflict(n, ports) ==
    \E m \in RadioNames \ {n}, c \in Channels : plan[m] # NoPlan /\ ports[c] = plan[m][c]

\* The form of a new radio is filled with the suggestion; what it leaves open
\* has to be typed.
Suggest(f) ==
    /\ formAt[f] = "blank"
    /\ \A c \in Channels : NextFree(c) # NoPort
    /\ Proceed(f, "filled")
    /\ \E n \in RadioNames :
          form' = [form EXCEPT ![f] = [name |-> n, ports |-> Suggestion]]
    /\ fresh' = fresh \cup {f}
    /\ UNCHANGED <<hurried, plan>>

Answer(f, content) ==
    IF Conflict(content.name, content.ports)
    THEN Proceed(f, "refused") /\ form' = [form EXCEPT ![f] = Blank]
    ELSE Proceed(f, "checked") /\ form' = [form EXCEPT ![f] = content]

\* POST or PUT, with the ports that were suggested or others that the admin
\* entered: the check, once list_configs has returned.
Check(f) ==
    /\ hurried \/ \A g \in Forms : formAt[g] # "checked"
    /\ \/ formAt[f] = "filled" /\ Answer(f, form[f])
       \/ formAt[f] = "blank" /\ \E content \in Entered : Answer(f, content)
    /\ UNCHANGED <<hurried, plan, fresh>>

\* Mutant: the whole form is stored in the place of the radio's ports.
WriteRow_Form(f) ==
    /\ formAt[f] = "checked"
    /\ plan' = [plan EXCEPT ![form[f].name] = form[f]]
    /\ fresh' = {}
    /\ Blanked(f)
    /\ UNCHANGED hurried

\* reload_radio, having stopped the bridge before, writes the row, whether or not
\* the bridge can be started with it.
WriteRow(f) ==
    /\ formAt[f] = "checked"
    /\ plan' = [plan EXCEPT ![form[f].name] = form[f].ports]
    /\ fresh' = {}
    /\ Blanked(f)
    /\ UNCHANGED hurried

\* The radio is on the air: 409, before anything is done.
Busy(f) ==
    /\ formAt[f] = "checked" /\ plan[form[f].name] # NoPlan
    /\ fresh' = fresh \ {f}
    /\ Blanked(f)
    /\ UNCHANGED <<hurried, plan>>

\* The admin closes a form that was refused, or was not sent.
Close(f) ==
    /\ formAt[f] \in {"filled", "refused"}
    /\ fresh' = fresh \ {f}
    /\ Blanked(f)
    /\ UNCHANGED <<hurried, plan>>

DeleteRow(n) ==
    /\ plan[n] # NoPlan
    /\ plan' = [plan EXCEPT ![n] = NoPlan]
    /\ fresh' = {}
    /\ UNCHANGED <<hurried, formAt, form>>

PlanNext ==
    \/ \E f \in Forms : Suggest(f) \/ Check(f) \/ WriteRow(f) \/ Busy(f) \/ Close(f)
    \/ \E n \in RadioNames : DeleteRow(n)

PlanSpec == PlanInit /\ [][PlanNext]_planVars

-----------------------------------------------------------------------------
(* Properties *)

\* Two radios never share a port of a channel, whatever the admins enter -
\* unless two forms are handled at a time: the check is some awaits old when
\* the row is written.  (Ports of different channels are not compared.)
PortsAreDistinct ==
    ~hurried => \A m, n \in RadioNames, c \in Channels :
        m # n /\ plan[m] # NoPlan /\ plan[n] # NoPlan => plan[m][c] # plan[n][c]

\* A form sent as suggested is not refused, if nothing was written in between.
SuggestionFits == \A f \in fresh : formAt[f] # "refused"

\* Every form that is accepted, and every one as suggested, has ports of its own.
PlanInOrder == PortsAreDistinct /\ SuggestionFits
=============================================================================
