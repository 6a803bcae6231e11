---------------------------- MODULE ExternalPtt ----------------------------
(***************************************************************************)
(* PTT by a third-party CAT program on a client's virtual COM port, from   *)
(* the program to the radio.                                               *)
(*                                                                         *)
(* method = "line": the program raises RTS or DTR; ComRelay polls the      *)
(* crossed-over lines and the session forwards every change over the       *)
(* control connection to RadioBridge._handle_external_ptt.                 *)
(*                                                                         *)
(* method = "civ": the program sends CI-V PTT frames; they travel over the *)
(* CAT connection to RadioBridge._on_external_cat_write, which sees what   *)
(* one read of the socket returned.                                        *)
(*                                                                         *)
(* Neither goes through the arbiter.  Both share one handle for the        *)
(* release that the audio tail puts off.                                   *)
(***************************************************************************)
EXTENDS Naturals, Sequences

CONSTANTS
    Stations,    \* clients with a third-party program on this radio
    Methods,     \* PTT methods a radio may have: "line" (RTS, DTR), "civ"
    Tails,       \* whether a radio may have audio.ptt_tail_ms > 0
    MaxQueue,    \* model bound: messages of one station under way
    MaxTimers    \* model bound: release timers armed at the same time

ASSUME ExternalAssumption ==
    /\ Methods \subseteq {"line", "civ"}
    /\ Tails \subseteq BOOLEAN
    /\ MaxQueue \in Nat /\ MaxTimers \in Nat

VARIABLES
    method,  \* the radio's PTT method
    hasTail, \* it has an audio tail
    want,    \* the program keys: its RTS or DTR is up, or it last sent "on"
    seen,    \* the keying line in last_lines of the running
             \* _pump_serial_to_tcp; <<>> if last_lines is None or out of date
    link,    \* the connection that carries the station's PTT is up
    chan,    \* PTT messages under way on it: TRUE for on, FALSE for off
    keyed,   \* what the radio was last told
    timers,  \* number of armed release timers; all have the same delay
    handle,  \* _external_ptt_release_handle is set; it is the newest timer
    intact   \* history: no connection has broken so far

config == <<method, hasTail>>
station == <<want, seen, link, chan>>
server == <<keyed, timers, handle>>
vars == <<config, station, server, intact>>

TypeOK ==
    /\ method \in Methods
    /\ hasTail \in Tails
    /\ want \in [Stations -> BOOLEAN]
    /\ seen \in [Stations -> {<<>>, <<TRUE>>, <<FALSE>>}]
    /\ link \in [Stations -> BOOLEAN]
    /\ chan \in [Stations -> Seq(BOOLEAN)]
    /\ keyed \in BOOLEAN
    /\ timers \in Nat
    /\ handle \in BOOLEAN
    /\ intact \in BOOLEAN

Init ==
    /\ method \in Methods
    /\ hasTail \in Tails
    /\ want = [s \in Stations |-> FALSE]
    /\ seen = [s \in Stations |-> <<>>]
    /\ link = [s \in Stations |-> TRUE]
    /\ chan = [s \in Stations |-> <<>>]
    /\ keyed = FALSE
    /\ timers = 0
    /\ handle = FALSE
    /\ intact = TRUE

-----------------------------------------------------------------------------
(* The station *)

\* What is sent while the connection is down is dropped: notify_external_ptt
\* without a writer, bytes that no relay reads.
Send(s, on) ==
    /\ Len(chan[s]) < MaxQueue
    /\ chan' = IF link[s] THEN [chan EXCEPT ![s] = Append(@, on)] ELSE chan

\* The program keys or un-keys; with CI-V that is a frame it sends.
Toggle(s) ==
    /\ want' = [want EXCEPT ![s] = ~@]
    /\ \/ method = "line" /\ UNCHANGED chan
       \/ method = "civ" /\ Send(s, ~want[s])
    /\ UNCHANGED <<seen, link, config, server, intact>>

\* One turn of _pump_serial_to_tcp: what is new since last_lines is reported,
\* and of the two lines in the report the session picks the one that keys.
Poll(s) ==
    /\ method = "line"
    /\ seen[s] # <<want[s]>>
    /\ seen' = [seen EXCEPT ![s] = <<want[s]>>]
    /\ Send(s, want[s])
    /\ UNCHANGED <<want, link, config, server, intact>>

\* Mutant: whatever makes the relay look again, it starts from what it finds.
LookAgain_Seeded(s) ==
    /\ method = "line"
    /\ seen' = [seen EXCEPT ![s] = <<want[s]>>]
    /\ UNCHANGED <<want, link, chan, config, server, intact>>

\* The program moves its other line, so that the pair differs from last_lines;
\* or ComRelay.run ends (no CAT traffic for a minute, a lost connection) and is
\* run again, so that last_lines is None.
LookAgain(s) ==
    /\ method = "line"
    /\ seen' = [seen EXCEPT ![s] = <<>>]
    /\ UNCHANGED <<want, link, chan, config, server, intact>>

\* The connection breaks; of what was under way a prefix still arrives.
Drop(s) ==
    /\ link[s]
    /\ link' = [link EXCEPT ![s] = FALSE]
    /\ \E n \in 0..Len(chan[s]) : chan' = [chan EXCEPT ![s] = SubSeq(@, 1, n)]
    /\ intact' = FALSE
    /\ UNCHANGED <<want, seen, server, config>>

\* The reconnect loop succeeds; nothing is sent again.
Reconnect(s) ==
    /\ ~link[s]
    /\ link' = [link EXCEPT ![s] = TRUE]
    /\ UNCHANGED <<want, seen, chan, config, server, intact>>

-----------------------------------------------------------------------------
(* The server *)

Consume(s, n) ==
    /\ chan' = [chan EXCEPT ![s] = SubSeq(@, n + 1, Len(@))]
    /\ UNCHANGED <<want, seen, link, config, intact>>

\* Mutant: an off report cancels the pending release, and that is all.
OnReport_OffCancels(on) ==
    \/ /\ handle
       /\ timers' = timers - 1
       /\ handle' = FALSE
       /\ UNCHANGED keyed
    \/ /\ on /\ ~handle
       /\ keyed' = TRUE
       /\ UNCHANGED <<timers, handle>>
    \/ /\ ~on /\ hasTail /\ ~handle
       /\ timers < MaxTimers
       /\ timers' = timers + 1
       /\ handle' = TRUE
       /\ UNCHANGED keyed
    \/ /\ ~on /\ ~hasTail
       /\ keyed' = FALSE
       /\ UNCHANGED <<timers, handle>>

\* _handle_external_ptt(on).  An off report arms a timer and overwrites the
\* handle, whether or not it names an armed timer already.
OnReport(on) ==
    \/ /\ on /\ handle
       /\ timers' = timers - 1
       /\ handle' = FALSE
       /\ UNCHANGED keyed
    \/ /\ on /\ ~handle
       /\ keyed' = TRUE
       /\ UNCHANGED <<timers, handle>>
    \/ /\ ~on /\ hasTail
       /\ timers < MaxTimers
       /\ timers' = timers + 1
       /\ handle' = TRUE
       /\ UNCHANGED keyed
    \/ /\ ~on /\ ~hasTail
       /\ keyed' = FALSE
       /\ UNCHANGED <<timers, handle>>

LineReport(s) ==
    /\ method = "line"
    /\ chan[s] # <<>>
    /\ OnReport(Head(chan[s]))
    /\ Consume(s, 1)

\* Mutants: off cancels the release held back before and is itself lost; on
\* cancels a release without asking whether one is pending.
OnFrame_OffCancels(on) ==
    \/ /\ on
       /\ keyed' = TRUE
       /\ timers' = IF handle THEN timers - 1 ELSE timers
       /\ handle' = FALSE
    \/ /\ ~on /\ hasTail
       /\ handle \/ timers < MaxTimers
       /\ timers' = IF handle THEN timers - 1 ELSE timers + 1
       /\ handle' = ~handle
       /\ UNCHANGED keyed
OnFrame_BlindCancel(on) ==
    \/ /\ on
       /\ keyed' = TRUE
       /\ timers' = timers - 1
       /\ handle' = FALSE
    \/ /\ ~on /\ hasTail
       /\ handle \/ timers < MaxTimers
       /\ timers' = IF handle THEN timers ELSE timers + 1
       /\ handle' = TRUE
       /\ UNCHANGED keyed

\* _on_external_cat_write of exactly one PTT frame: off is held back in place
\* of an off held back before; on cancels it.
OnFrame(on) ==
    \/ /\ on
       /\ keyed' = TRUE
       /\ timers' = IF handle THEN timers - 1 ELSE timers
       /\ handle' = FALSE
    \/ /\ ~on /\ hasTail
       /\ handle \/ timers < MaxTimers
       /\ timers' = IF handle THEN timers ELSE timers + 1
       /\ handle' = TRUE
       /\ UNCHANGED keyed
    \/ /\ ~on /\ ~hasTail
       /\ keyed' = FALSE
       /\ handle' = FALSE
       /\ UNCHANGED timers

CatFrame(s) ==
    /\ method = "civ"
    /\ chan[s] # <<>>
    /\ OnFrame(Head(chan[s]))
    /\ Consume(s, 1)

\* One read returns PTT frames together with other bytes: parse_ptt_command
\* wants a frame of its own, so everything is forwarded at once.
CatChunk(s) ==
    /\ method = "civ"
    /\ \E n \in DOMAIN chan[s] : keyed' = chan[s][n] /\ Consume(s, n)
    /\ handle' = FALSE
    /\ UNCHANGED timers

\* Other CAT bytes are forwarded: _forward_external_cat forgets the handle of
\* a release that stays armed.
CatOther ==
    /\ handle
    /\ handle' = FALSE
    /\ UNCHANGED <<config, station, keyed, timers, intact>>

\* The oldest release timer fires: _forward_external_cat of the off frame, or
\* _release_external_ptt.
TailFires ==
    /\ timers > 0
    /\ timers' = timers - 1
    /\ handle' = FALSE
    /\ keyed' = FALSE
    /\ UNCHANGED <<config, station, intact>>

Receive(s) == LineReport(s) \/ CatFrame(s) \/ CatChunk(s)

Next == \/ \E s \in Stations :
              \/ Toggle(s) \/ Poll(s) \/ LookAgain(s)
              \/ Drop(s) \/ Reconnect(s)
              \/ Receive(s)
        \/ CatOther
        \/ TailFires

Spec == Init /\ [][Next]_vars

\* The relay keeps polling, the server reads what has arrived, timers that are
\* due fire and a lost connection is re-established.
Fairness == /\ \A s \in Stations : /\ WF_vars(Poll(s))
                                   /\ WF_vars(Receive(s))
                                   /\ WF_vars(Reconnect(s))
            /\ WF_vars(TailFires)

FairSpec == Spec /\ Fairness

-----------------------------------------------------------------------------
(* Properties *)

\* Everything the programs did has been noticed, delivered and carried out, and
\* no connection broke meanwhile.
Settled ==
    /\ intact
    /\ \A s \in Stations : /\ chan[s] = <<>>
                           /\ method = "line" => seen[s] = <<want[s]>>
    /\ timers = 0

\* Once things have settled the radio does what the programs asked for last: a
\* re-key during the tail must neither be lost nor be cut by the release it
\* was to replace.
KeyedFollowsPrograms ==
    Settled => /\ (\A s \in Stations : want[s]) => keyed
               /\ (\A s \in Stations : ~want[s]) => ~keyed

\* So it is where no release is put off, through restarts of the relay, moves
\* of the other line and reads that return several frames.
FollowedWithoutTail == ~hasTail => KeyedFollowsPrograms

\* The dangerous half of it holds with a tail, too: a radio that no program keys
\* is not left transmitting, however handle and timers have been confused.
NotLeftKeyed == Settled /\ keyed => \E s \in Stations : want[s]

\* Connections may break, and a release may be lost with one.  A release that
\* is under way, with nothing of other stations, gets the transmitter off unless
\* a connection breaks or a program keys again, whatever was lost before it.
ReleaseUnderWayUnkeys ==
    \A s \in Stations :
        (/\ chan[s] # <<>> /\ ~chan[s][Len(chan[s])]
         /\ \A t \in Stations : link[t] /\ ~want[t] /\ (t = s \/ chan[t] = <<>>))
            ~> (~keyed \/ \E t \in Stations : want[t] \/ ~link[t])
=============================================================================
