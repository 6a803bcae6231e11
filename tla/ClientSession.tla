--------------------------- MODULE ClientSession ---------------------------
(***************************************************************************)
(* What runs for the radio that is selected in the client                  *)
(* (client/session.py): switch_to with its tear-down, and the switches of  *)
(* the RC-28 dial and of the radio panel, as coroutines of one event loop. *)
(*                                                                         *)
(* The loop runs what is in its queue, first in first out, each up to its  *)
(* next await.  A job is the coroutine of a request, or a task that a      *)
(* request has created, named after it.  Tasks that wait for the network   *)
(* or for a device are not in the queue.                                   *)
(***************************************************************************)
EXTENDS Naturals, Sequences, SequencesExt

CONSTANTS
    Clicks,  \* requests of the user, or of a reconfigured radio, each made once
    Radios,  \* radios with a CI-V address and a CAT relay
    NoJob,   \* Python's None
    NoRadio  \* radio_name before the first switch_to

Request(c) == <<c, "request">>
Tasks == Clicks \X {"control", "rc28", "panel"}
Jobs == Tasks \cup Clicks \X {"request"}

ASSUME SessionAssumption ==
    /\ NoRadio \notin Radios /\ NoJob \notin Jobs \cup Clicks
    /\ Clicks \cap Jobs = {}
    /\ Radios \cap {"rc28_on", "rc28_off", "panel_on", "panel_off", "none"} = {}

VARIABLES
    pace,       \* which requests may come, and what may fail
    want,       \* what a request asks for
    queue,      \* the event loop's
    job,        \* what has become of a job
    awaited,    \* what a request waits for: the list of that name, or a task
    sleepers,   \* requests parked at an await of a task, in the order they came
    lists,      \* lists of tasks, named after the request that made them
    current,    \* session._tasks
    radio,      \* session.radio_name, and with it audio and CW
    rc28,       \* session.rc28
    panel,      \* session.radio_ctl
    panelTask,  \* session._radio_panel_task
    home,       \* the radio whose relay a task was created with
    listeners,  \* the drivers among the CAT relays' listeners
    enabled,    \* of "rc28" and "panel", those switched on
    stopped     \* drivers with their _stopped flag set

askedFor == <<pace, want>>
loop == <<queue, job, awaited, sleepers>>
refs == <<rc28, panel, panelTask, listeners>>
built == <<lists, current, radio, home>>
sessionVars == <<askedFor, loop, built, refs, enabled, stopped>>

(* queued: not run yet, or woken; parked: at an await; cancelled: queued,    *)
(* and CancelledError will be thrown into it; doomed: the same before it has *)
(* run at all, so that no finally clause of it will ever run.                *)
JobStates == {"none", "queued", "parked", "cancelled", "doomed", "done"}

(* overlap: a request may come while others are under way; quick: before a   *)
(* stopped driver has looked at its flag; fail: connections and devices do.  *)
Paces == SUBSET {"overlap", "quick", "fail"}
Wants == Radios \cup {"rc28_on", "rc28_off", "panel_on", "panel_off", "none"}

SessionTypeOK ==
    /\ pace \in Paces
    /\ want \in [Clicks -> Wants]
    /\ queue \in Seq(Jobs)
    /\ job \in [Jobs -> JobStates]
    /\ awaited \in [Clicks -> Clicks \cup Tasks \cup {NoJob}]
    /\ sleepers \in Seq(Clicks)
    /\ lists \in [Clicks -> Seq(Tasks)]
    /\ current \in Clicks \cup {NoJob}
    /\ radio \in Radios \cup {NoRadio}
    /\ {rc28, panel, panelTask} \subseteq Tasks \cup {NoJob}
    /\ home \in [Tasks -> Radios \cup {NoRadio}]
    /\ listeners \cup stopped \subseteq Tasks
    /\ enabled \subseteq {"rc28", "panel"}

SessionInit ==
    /\ pace \in Paces
    /\ want = [c \in Clicks |-> "none"]
    /\ queue = <<>> /\ sleepers = <<>>
    /\ job = [j \in Jobs |-> "none"]
    /\ awaited = [c \in Clicks |-> NoJob]
    /\ lists = [c \in Clicks |-> <<>>]
    /\ current = NoJob
    /\ radio = NoRadio
    /\ rc28 = NoJob /\ panel = NoJob /\ panelTask = NoJob
    /\ home = [t \in Tasks |-> NoRadio]
    /\ listeners = {} /\ stopped = {}
    /\ enabled \in SUBSET {"rc28", "panel"}

-----------------------------------------------------------------------------
(* The event loop *)

Settled == queue = <<>> /\ sleepers = <<>>

MayClick == \/ "overlap" \in pace
            \/ Settled /\ ("quick" \in pace \/ \A t \in stopped : job[t] = "done")

\* The members of a sequence that are in a set, in their order.
Those(s, S) == FlattenSeq([i \in DOMAIN s |-> IF s[i] \in S THEN <<s[i]>> ELSE <<>>])

\* What an await loop has left; the list may have grown since it began.
Undone(ts) == Those(ts, {t \in Tasks : job[t] # "done"})
Left(c) == IF awaited[c] \in Clicks THEN Undone(lists[awaited[c]])
           ELSE IF awaited[c] = NoJob THEN <<>> ELSE Undone(<<awaited[c]>>)

TasksHeld == IF current = NoJob THEN <<>> ELSE lists[current]  \* session._tasks

\* t.cancel() for the tasks of a list: those that are parked are woken.
CancelledJobs(ts) ==
    [j \in Jobs |-> IF j \notin ToSet(ts) THEN job[j]
                    ELSE CASE job[j] = "parked" -> "cancelled"
                           [] job[j] = "queued" -> "doomed"
                           [] OTHER -> job[j]]
Woken(ts) == Those(ts, {t \in Tasks : job[t] = "parked"})

Runs(j) == queue # <<>> /\ Head(queue) = j

\* The request whose turn it is waits for a task: x cancels the list it waits for.
Parks(c, x, ts) ==
    /\ awaited' = [awaited EXCEPT ![c] = x]
    /\ sleepers' = Append(sleepers, c)
    /\ job' = [CancelledJobs(ts) EXCEPT ![Request(c)] = "parked"]
    /\ queue' = Tail(queue) \o Woken(ts)

\* The request ends, having created the tasks ts.
Ends(c, ts) ==
    /\ awaited' = [awaited EXCEPT ![c] = NoJob]
    /\ job' = [j \in Jobs |-> IF j = Request(c) THEN "done"
                              ELSE IF j \in ToSet(ts) THEN "queued" ELSE job[j]]
    /\ queue' = Tail(queue) \o ts
    /\ UNCHANGED sleepers

\* A task is done; the requests that wait for it are queued.
TaskDone(t, q) ==
    LET wakes == {c \in ToSet(sleepers) : Head(Left(c)) = t}
        woken == Those(sleepers, wakes)
    IN  /\ job' = [j \in Jobs |-> IF j = t THEN "done"
                                  ELSE IF j[1] \in wakes /\ j = Request(j[1])
                                  THEN "queued" ELSE job[j]]
        /\ queue' = q \o [i \in DOMAIN woken |-> Request(woken[i])]
        /\ sleepers' = Those(sleepers, ToSet(sleepers) \ wakes)
        /\ UNCHANGED awaited

Click(c) ==
    /\ job[Request(c)] = "none"
    /\ MayClick
    /\ want' \in {[want EXCEPT ![c] = w] : w \in Wants \ {"none"}}
    /\ job' = [job EXCEPT ![Request(c)] = "queued"]
    /\ queue' = Append(queue, Request(c))
    /\ UNCHANGED <<pace, awaited, sleepers, built, refs, enabled, stopped>>

-----------------------------------------------------------------------------
(* Tasks *)

\* The first run of a task takes it to an await; a driver's may end there.
TaskBegins(t) ==
    /\ Runs(t) /\ job[t] = "queued"
    /\ job' = [job EXCEPT ![t] = "parked"]
    /\ queue' = Tail(queue)
    /\ UNCHANGED <<askedFor, awaited, sleepers, built, refs, enabled, stopped>>

\* Mutant: the reference is left for the next start to replace.
CleanUp_KeepRef(t) ==
    /\ listeners' = listeners \ {t}
    /\ UNCHANGED <<rc28, panel>>

\* Mutant: the references get the radio's name back.
CleanUp_ToRadio(t) ==
    /\ listeners' = listeners \ {t}
    /\ rc28' = IF rc28 = t THEN NoRadio ELSE rc28
    /\ panel' = IF panel = t THEN NoRadio ELSE panel

\* The finally clauses of _run_rc28 and _run_radio_panel.
CleanUp(t) ==
    /\ listeners' = listeners \ {t}
    /\ rc28' = IF rc28 = t THEN NoJob ELSE rc28
    /\ panel' = IF panel = t THEN NoJob ELSE panel

TaskCancelled(t) ==
    /\ Runs(t) /\ job[t] \in {"cancelled", "doomed"}
    /\ TaskDone(t, Tail(queue))
    /\ IF job[t] = "cancelled" THEN CleanUp(t) ELSE UNCHANGED <<rc28, panel, listeners>>
    /\ UNCHANGED <<askedFor, built, panelTask, enabled, stopped>>

\* A stopped driver's poll loop looks at the flag, a device is unplugged, the
\* panel's relay loses its connection while it sends, or the server denies the
\* log-in.
TaskEnds(t) ==
    /\ job[t] = "parked"
    /\ t \in stopped \/ "fail" \in pace
    /\ TaskDone(t, queue)
    /\ CleanUp(t)
    /\ UNCHANGED <<askedFor, built, panelTask, enabled, stopped>>

-----------------------------------------------------------------------------
(* Requests *)

\* What _start_rc28 and _start_radio_panel create: nothing if there is one.
NewRc28(c) == IF rc28 = NoJob /\ "rc28" \in enabled' THEN <<<<c, "rc28">>>> ELSE <<>>
NewPanel(c) == IF panel = NoJob /\ "panel" \in enabled' THEN <<<<c, "panel">>>> ELSE <<>>

Created(c, ts) ==
    /\ rc28' = IF <<c, "rc28">> \in ToSet(ts) THEN <<c, "rc28">> ELSE rc28
    /\ panel' = IF <<c, "panel">> \in ToSet(ts) THEN <<c, "panel">> ELSE panel
    /\ panelTask' = IF <<c, "panel">> \in ToSet(ts) THEN <<c, "panel">> ELSE panelTask
    /\ home' = [t \in Tasks |-> IF t \in ToSet(ts) THEN radio' ELSE home[t]]
    /\ listeners' = listeners \cup {t \in ToSet(ts) : t[2] # "control"}

\* _teardown up to its first await: listeners are dropped, tasks are cancelled.
Teardown(c) ==
    /\ Parks(c, current, TasksHeld)
    /\ listeners' = {}

BeginSwitch(c) ==
    /\ Runs(Request(c)) /\ want[c] \in Radios
    /\ awaited[c] = NoJob
    /\ Undone(TasksHeld) # <<>>
    /\ Teardown(c)
    /\ UNCHANGED <<askedFor, built, rc28, panel, panelTask, enabled, stopped>>

\* The task awaited is done, another one in the list is not.
AwaitNext(c) ==
    /\ Runs(Request(c))
    /\ Left(c) # <<>>
    /\ Parks(c, awaited[c], <<>>)
    /\ UNCHANGED <<askedFor, built, refs, enabled, stopped>>

\* Mutant: the dial's task is not kept for the next tear-down.
FinishSwitch_DialUntracked(c) ==
    /\ Runs(Request(c)) /\ want[c] \in Radios
    /\ Left(c) = <<>>
    /\ awaited[c] = NoJob => Undone(TasksHeld) = <<>>
    /\ radio' = want[c]
    /\ current' = c
    /\ UNCHANGED <<askedFor, enabled, stopped>>
    /\ LET ts == <<<<c, "control">>>> \o NewRc28(c) \o NewPanel(c) IN
         /\ lists' = [lists EXCEPT ![c] = <<<<c, "control">>>> \o NewPanel(c)]
         /\ Ends(c, ts)
         /\ Created(c, ts)

\* All tasks of the list are done.  The rest of _teardown and of switch_to has
\* no await: a new list, the control client, audio and CW, the dial, the panel.
FinishSwitch(c) ==
    /\ Runs(Request(c)) /\ want[c] \in Radios
    /\ Left(c) = <<>>
    /\ awaited[c] = NoJob => Undone(TasksHeld) = <<>>
    /\ radio' = want[c]
    /\ current' = c
    /\ UNCHANGED <<askedFor, enabled, stopped>>
    /\ LET ts == <<<<c, "control">>>> \o NewRc28(c) \o NewPanel(c) IN
         /\ lists' = [lists EXCEPT ![c] = ts]
         /\ Ends(c, ts)
         /\ Created(c, ts)

\* Mutant: a driver that is switched on waits for the next switch_to.
SwitchOn_NextTime(c) ==
    /\ Runs(Request(c)) /\ want[c] \in {"rc28_on", "panel_on"}
    /\ enabled' = enabled \cup {IF want[c] = "rc28_on" THEN "rc28" ELSE "panel"}
    /\ Ends(c, <<>>)
    /\ UNCHANGED <<askedFor, built, refs, stopped>>

\* set_rc28_enabled(True), set_radio_panel_enabled(True)
SwitchOn(c) ==
    /\ Runs(Request(c)) /\ want[c] \in {"rc28_on", "panel_on"}
    /\ enabled' = enabled \cup {IF want[c] = "rc28_on" THEN "rc28" ELSE "panel"}
    /\ LET ts == IF radio = NoRadio THEN <<>>
                 ELSE IF want[c] = "rc28_on" THEN NewRc28(c) ELSE NewPanel(c)
       IN  /\ UNCHANGED <<current, radio>>
           /\ lists' = IF current = NoJob THEN lists ELSE [lists EXCEPT ![current] = @ \o ts]
           /\ Ends(c, ts)
           /\ Created(c, ts)
    /\ UNCHANGED <<askedFor, stopped>>

\* set_rc28_enabled(False): the flag is for the driver's next poll.
Rc28Off(c) ==
    /\ Runs(Request(c)) /\ want[c] = "rc28_off"
    /\ enabled' = enabled \ {"rc28"}
    /\ stopped' = stopped \cup ({rc28} \ {NoJob})
    /\ Ends(c, <<>>)
    /\ UNCHANGED <<askedFor, built, refs>>

\* set_radio_panel_enabled(False) cancels the panel's task and awaits it.
PanelOff(c) ==
    /\ Runs(Request(c)) /\ want[c] = "panel_off"
    /\ Left(c) = <<>>
    /\ enabled' = enabled \ {"panel"}
    /\ IF awaited[c] = NoJob /\ panelTask # NoJob /\ job[panelTask] # "done"
       THEN Parks(c, panelTask, <<panelTask>>) /\ UNCHANGED panelTask
       ELSE Ends(c, <<>>) /\ panelTask' = NoJob
    /\ UNCHANGED <<askedFor, built, rc28, panel, listeners, stopped>>

RunRequest(c) == BeginSwitch(c) \/ AwaitNext(c) \/ FinishSwitch(c)
                 \/ SwitchOn(c) \/ Rc28Off(c) \/ PanelOff(c)

SessionNext ==
    \/ \E c \in Clicks : Click(c) \/ RunRequest(c)
    \/ \E t \in Tasks : TaskBegins(t) \/ TaskCancelled(t) \/ TaskEnds(t)

SessionSpec == SessionInit /\ [][SessionNext]_sessionVars

-----------------------------------------------------------------------------
(* Properties *)

Running(t) == job[t] \in {"queued", "parked"}

\* The dial and the panel, where there is one, run on the selected radio's relay
\* and hear its replies.
Follows(d) == d # NoJob => Running(d) /\ home[d] = radio /\ d \in listeners

\* Whatever the user turns off, on or to in between, once the requests have run
\* to their end dial and panel work on the selected radio - provided that a
\* request does not come while another one is under way.
DriversFollowRadio == "overlap" \notin pace /\ Settled => Follows(rc28) /\ Follows(panel)

\* No task survives the tear-down of its radio: what runs is in the list that
\* the next tear-down cancels, and belongs to the selected radio.
NothingOrphaned ==
    "overlap" \notin pace /\ Settled =>
        \A t \in Tasks : Running(t) => t \in ToSet(TasksHeld) /\ home[t] = radio

\* A driver that is switched on runs, unless it failed, was switched on again
\* before its predecessor had noticed that it was stopped, or requests overlap.
EnabledRuns ==
    pace = {} /\ Settled /\ radio # NoRadio =>
        ("rc28" \in enabled => rc28 # NoJob) /\ ("panel" \in enabled => panel # NoJob)

\* _teardown guarantees that no driver of another radio is left
\* (session.py:544-549).
TeardownLeavesNoDriver == Settled => Follows(rc28) /\ Follows(panel)

\* What runs, what is switched on and what the selected radio needs are the same
\* when the requests have run to their end.
SessionInOrder == DriversFollowRadio /\ NothingOrphaned /\ EnabledRuns
=============================================================================
