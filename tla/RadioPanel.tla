----------------------------- MODULE RadioPanel -----------------------------
(***************************************************************************)
(* The controls of one radio on the client: the panel's window             *)
(* (client/radio_panel.py) on the user interface's thread, the controller  *)
(* it reads (client/radio_panel_ctl.py) and the RC-28's dial               *)
(* (client/rc28.py) on the event loop.  CI-V (common/civ.py) has requests  *)
(* and replies only, so the controller polls, and shows what it has asked  *)
(* for before the radio has taken it.                                      *)
(***************************************************************************)
EXTENDS Integers, Sequences

CONSTANTS
    Controls,        \* "freq" and the model's other controls
    MaxValue,        \* the radio takes and reports 0..MaxValue for a control
    MaxCode,         \* the highest frequency that a frame's ten digits hold
    Unread,          \* Python's None: no reply yet
    Typed,           \* a field with other text, and the _UNSET sentinel
    MaxInFlight,     \* bounds what is under way to and from the radio, and jobs
    MaxPanelEvents   \* bounds what operators do and what goes wrong

ASSUME PanelAssumption ==
    /\ "freq" \in Controls
    /\ MaxValue \in Nat /\ MaxCode \in Nat \ {0} /\ MaxValue <= MaxCode
    /\ Unread \notin Nat /\ Typed \notin Nat
    /\ MaxInFlight \in Nat \ {0} /\ MaxPanelEvents \in Nat

VARIABLES
    view,     \* the controller's values
    dialOn,   \* the RC-28's driver runs
    base,     \* its current_freq_hz
    jobs,     \* coroutines the window has handed to the event loop
    commands, \* frames under way to the radio
    replies,  \* frames under way back
    rig,      \* the radio's own values
    asking,   \* the control that is polled next
    editing,  \* _editing_freq
    field,    \* what the frequency field shows
    drawn,    \* _last_freq_shown
    panelEvents

window == <<editing, field, drawn>>
dial == <<dialOn, base>>
panelCtl == <<view, dial>>
bus == <<commands, replies>>
panelVars == <<window, panelCtl, jobs, bus, rig, asking, panelEvents>>

Values == 0..MaxValue
Codes == 0..MaxCode
Entries == Codes \cup {MaxCode + 1}   \* numbers typed; the last stands for all longer ones
Job == [control : Controls, value : Nat]
Report == [control : Controls, value : Values]
Command == [kind : {"get"}, control : Controls]
           \cup [kind : {"set"}, control : Controls, value : Codes]

\* The panel and the dial have no upper limit of their own: a frequency that was
\* typed or dialled is any number until a reply corrects it.
PanelTypeOK ==
    /\ editing \in BOOLEAN /\ dialOn \in BOOLEAN
    /\ view \in [Controls -> Nat \cup {Unread}] /\ base \in Nat \cup {Unread}
    /\ jobs \in Seq(Job)
    /\ commands \in Seq(Command)
    /\ replies \in Seq(Report)
    /\ rig \in [Controls -> Values]
    /\ asking \in Controls
    /\ {field, drawn} \subseteq Nat \cup {Unread, Typed}
    /\ panelEvents \in 0..MaxPanelEvents

PanelInit ==
    /\ editing = FALSE /\ field = Typed /\ drawn = Typed
    /\ view = [c \in Controls |-> Unread] /\ dialOn \in BOOLEAN /\ base = Unread
    /\ jobs = <<>> /\ commands = <<>> /\ replies = <<>>
    /\ rig \in [Controls -> Values]
    /\ asking = "freq"
    /\ panelEvents = 0

PanelEvent == panelEvents < MaxPanelEvents /\ panelEvents' = panelEvents + 1
Room == Len(jobs) + Len(commands) + Len(replies) < MaxInFlight

SetCommand(c, v) == [kind |-> "set", control |-> c, value |-> v]
GetCommand(c) == [kind |-> "get", control |-> c]
At(c, v) == [control |-> c, value |-> v]

Stepped(v, d) == IF d = "up" THEN v + 1 ELSE v - 1

\* What a frame says of a value: of a number with more than ten digits its first
\* ten.
Encodings(v) == IF v \in Codes THEN {v} ELSE {w \in Codes : 10 * w > MaxCode}

-----------------------------------------------------------------------------
(* The window *)

\* run_coroutine_threadsafe(panelCtl.set_...)
Hand(c, v) == jobs' = Append(jobs, At(c, v))

\* The buttons, the wheel and the tuning dial step what the controller shows,
\* and stop at nothing but 0.
StepFrequency(d) ==
    /\ Room /\ PanelEvent
    /\ view["freq"] # Unread
    /\ LET v == Stepped(view["freq"], d) IN Hand("freq", IF v < 0 THEN 0 ELSE v)
    /\ editing' = FALSE
    /\ UNCHANGED <<field, drawn, panelCtl, bus, rig, asking>>

Edit ==
    /\ PanelEvent
    /\ editing' = TRUE
    /\ field' = Typed
    /\ UNCHANGED <<drawn, panelCtl, jobs, bus, rig, asking>>

\* Mutant: what was entered is not checked.
FreqEntered_Unchecked(v) ==
    /\ editing /\ Room
    /\ editing' = FALSE
    /\ Hand("freq", v)
    /\ UNCHANGED <<field, drawn, panelCtl, bus, rig, asking, panelEvents>>

\* Return: any number, or something else, which is ignored.
FreqEntered(v) ==
    /\ editing /\ Room
    /\ editing' = FALSE
    /\ IF v = Typed THEN UNCHANGED jobs ELSE Hand("freq", v)
    /\ UNCHANGED <<field, drawn, panelCtl, bus, rig, asking, panelEvents>>

\* A band, a mode, a switch or a level.
Click(c, v) ==
    /\ Room /\ PanelEvent
    /\ Hand(c, v)
    /\ editing' = (editing /\ c # "freq")
    /\ UNCHANGED <<field, drawn, panelCtl, bus, rig, asking>>

\* Mutant: the value is drawn when there is none yet only.
Tick_Once ==
    /\ ~editing /\ view["freq"] # drawn /\ drawn \in {Typed, Unread}
    /\ field' = view["freq"] /\ drawn' = view["freq"]
    /\ UNCHANGED <<editing, panelCtl, jobs, bus, rig, asking, panelEvents>>

\* The timer redraws the field when the value is not the one drawn last.
Tick ==
    /\ ~editing /\ view["freq"] # drawn
    /\ field' = view["freq"] /\ drawn' = view["freq"]
    /\ UNCHANGED <<editing, panelCtl, jobs, bus, rig, asking, panelEvents>>

-----------------------------------------------------------------------------
(* The event loop *)

\* set_frequency, set_mode, set_toggle, set_level, set_split, set_attenuator
RunJob ==
    /\ jobs # <<>>
    /\ LET j == Head(jobs) IN
       /\ view' = [view EXCEPT ![j.control] = j.value]
       /\ \E w \in Encodings(j.value) :
             commands' = Append(commands, SetCommand(j.control, w))
    /\ jobs' = Tail(jobs)
    /\ UNCHANGED <<window, dial, replies, rig, asking, panelEvents>>

\* handle_report: the dial steps what the RC-28 driver takes for the frequency,
\* without limits.  Below 0 there is no frame, which ends the driver.
DialTurned(d) ==
    /\ Room /\ PanelEvent
    /\ dialOn /\ base # Unread
    /\ LET v == Stepped(base, d) IN
       \/ /\ v >= 0
          /\ base' = v
          /\ \E w \in Encodings(v) : commands' = Append(commands, SetCommand("freq", w))
          /\ UNCHANGED dialOn
       \/ /\ v < 0
          /\ dialOn' = FALSE /\ base' = Unread
          /\ UNCHANGED commands
    /\ UNCHANGED <<window, view, jobs, replies, rig, asking>>

\* The operator switches the dial off or on; a new driver knows no frequency.
DialSwitched ==
    /\ PanelEvent
    /\ dialOn' = ~dialOn /\ base' = Unread
    /\ UNCHANGED <<window, view, jobs, bus, rig, asking>>

\* Mutant: a control is polled until its first reply only.
PollNext_Once ==
    /\ Room
    /\ commands' = IF view[asking] = Unread
                   THEN Append(commands, GetCommand(asking)) ELSE commands
    /\ \E c \in Controls \ {asking} : asking' = c
    /\ UNCHANGED <<window, panelCtl, jobs, replies, rig, panelEvents>>

\* run and _poll_one: one control after the other, for ever.
PollNext ==
    /\ Room
    /\ commands' = Append(commands, GetCommand(asking))
    /\ \E c \in Controls \ {asking} : asking' = c
    /\ UNCHANGED <<window, panelCtl, jobs, replies, rig, panelEvents>>

\* on_cat_reply of the controller and of the RC-28 driver, if it runs; a reply
\* does not say whose request it answers, or how old it is.
ReplyHandled ==
    /\ replies # <<>>
    /\ LET r == Head(replies) IN
       /\ view' = [view EXCEPT ![r.control] = r.value]
       /\ base' = IF dialOn /\ r.control = "freq" THEN r.value ELSE base
    /\ replies' = Tail(replies)
    /\ UNCHANGED <<window, dialOn, jobs, commands, rig, asking, panelEvents>>

-----------------------------------------------------------------------------
(* The radio *)

\* It takes a value that it has, and refuses any other.
Answer ==
    /\ commands # <<>>
    /\ commands' = Tail(commands)
    /\ LET c == Head(commands) IN
       \/ /\ c.kind = "get"
          /\ replies' = Append(replies, At(c.control, rig[c.control]))
          /\ UNCHANGED rig
       \/ /\ c.kind = "set"
          /\ rig' = IF c.value \in Values THEN [rig EXCEPT ![c.control] = c.value] ELSE rig
          /\ UNCHANGED replies
    /\ UNCHANGED <<window, panelCtl, jobs, asking, panelEvents>>

\* It refuses a value for reasons of its own, or a frame is lost on the way.
Refuse ==
    /\ commands # <<>> /\ PanelEvent
    /\ commands' = Tail(commands)
    /\ UNCHANGED <<window, panelCtl, jobs, replies, rig, asking>>

\* Its own front panel, or another program that shares the CAT connection.
Turn(c, v) ==
    /\ PanelEvent
    /\ rig' = [rig EXCEPT ![c] = v]
    /\ UNCHANGED <<window, panelCtl, jobs, bus, asking>>

PanelNext ==
    \/ Edit \/ Tick \/ RunJob \/ PollNext \/ ReplyHandled \/ Answer \/ Refuse
    \/ DialSwitched
    \/ \E d \in {"up", "down"} : StepFrequency(d) \/ DialTurned(d)
    \/ \E v \in Entries \cup {Typed} : FreqEntered(v)
    \/ \E c \in Controls, v \in Values : Click(c, v) \/ Turn(c, v)

PanelSpec ==
    /\ PanelInit /\ [][PanelNext]_panelVars
    /\ WF_panelVars(Tick) /\ WF_panelVars(RunJob) /\ WF_panelVars(PollNext)
    /\ WF_panelVars(ReplyHandled) /\ WF_panelVars(Answer)

-----------------------------------------------------------------------------
(* Properties *)

\* What the panel shows and what an RC-28 that runs steps from is the radio's in
\* the end, whatever was asked for, refused, cut to ten digits or lost, however
\* old the replies were, whoever else turned a knob ("the next poll corrects
\* it").  So is the frequency field, unless what the operator typed is still in
\* it: an old frequency does not stay.
PanelSettles ==
    <>[](/\ dialOn => base = rig["freq"]
         /\ view = rig
         /\ field \in {rig["freq"], Typed})
=============================================================================
