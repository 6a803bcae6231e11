------------------------------- MODULE OnAir -------------------------------
(***************************************************************************)
(* The transmitter of one radio under everything that keys it              *)
(* (server/radio_bridge.py): the operators' PTT, which the arbiter grants, *)
(* the third-party programs at their clients, which do not ask it, both    *)
(* with an audio tail of their own, and the loss of the serial port        *)
(* (server/cat_bridge.py) while somebody is on the air.                    *)
(*                                                                         *)
(* A message is handled in one step: the awaits of rows and broadcasts     *)
(* only keep later messages of the same connection waiting.                *)
(***************************************************************************)
EXTENDS Naturals, Sequences, SequencesExt

CONSTANTS
    Operators,   \* users, each with a client and a third-party program
    NoOperator,  \* Python's None
    MaxArmed     \* bounds the release timers armed at once

ASSUME OnAirAssumption == NoOperator \notin Operators /\ MaxArmed \in Nat \ {0}

VARIABLES
    wiring,    \* "shared": a line of the CAT port, or on Windows of another one;
               \* "own": a line of another port on POSIX, where keying a lost
               \* port raises; "civ": CI-V frames
    tailed,    \* audio.ptt_tail_ms > 0
    portUp,    \* the port that keys the radio is there
    handler,   \* of each operator's control connection
    pressed,   \* who reported the button as down
    wants,     \* whose program keys
    lockedBy,  \* arbiter.holder
    tails,     \* whose _release_ptt timers are armed, oldest first
    handle,    \* _ptt_release_handle is set
    extTails,  \* timers of external releases that are armed
    extHandle, \* _external_ptt_release_handle is set
    transmits, \* what the radio does
    intact     \* no program was cut off while it keyed

setting == <<wiring, tailed>>
operatorTails == <<tails, handle>>
programTails == <<extTails, extHandle>>
onAirVars == <<setting, portUp, handler, pressed, wants, lockedBy, operatorTails,
               programTails, transmits, intact>>

(* crashed: the clean-up raised, so the connection is neither closed nor read. *)
OnAirTypeOK ==
    /\ wiring \in {"shared", "own", "civ"}
    /\ {tailed, portUp, handle, extHandle, transmits, intact} \subseteq BOOLEAN
    /\ handler \in [Operators -> {"absent", "reading", "crashed"}]
    /\ {pressed, wants} \subseteq SUBSET Operators
    /\ lockedBy \in Operators \cup {NoOperator}
    /\ tails \in Seq(Operators) /\ Len(tails) <= MaxArmed
    /\ extTails \in 0..MaxArmed

OnAirInit ==
    /\ wiring \in {"shared", "own", "civ"}
    /\ tailed \in BOOLEAN
    /\ portUp = TRUE
    /\ handler = [o \in Operators |-> "absent"]
    /\ pressed = {} /\ wants = {}
    /\ lockedBy = NoOperator
    /\ tails = <<>> /\ handle = FALSE
    /\ extTails = 0 /\ extHandle = FALSE
    /\ transmits = FALSE
    /\ intact = TRUE

-----------------------------------------------------------------------------
(* Helpers *)

\* ptt_method.set: dropped when the shared port is gone, while a port of its own
\* raises on POSIX.
Raises == wiring = "own" /\ ~portUp
Key(on) == transmits' = IF portUp THEN on ELSE transmits

\* Mutant: the line first, then the lock.
EndHandler_LineFirst(o, holder) ==
    IF holder # o THEN lockedBy' = holder /\ handler' = [handler EXCEPT ![o] = "absent"]
                       /\ UNCHANGED transmits
    ELSE /\ lockedBy' = IF Raises THEN holder ELSE NoOperator
         /\ handler' = [handler EXCEPT ![o] = IF Raises THEN "crashed" ELSE "absent"]
         /\ Key(FALSE)

\* The finally clause of the handler, for the lock as it is then: the lock is
\* given back before the line is let go, which may raise.
EndHandler(o, holder) ==
    IF holder # o THEN lockedBy' = holder /\ handler' = [handler EXCEPT ![o] = "absent"]
                       /\ UNCHANGED transmits
    ELSE /\ lockedBy' = NoOperator
         /\ handler' = [handler EXCEPT ![o] = IF Raises THEN "crashed" ELSE "absent"]
         /\ Key(FALSE)

-----------------------------------------------------------------------------
(* Operators *)

\* A client connects, for the first time or again.
Join(o) ==
    /\ handler[o] # "reading"
    /\ handler' = [handler EXCEPT ![o] = "reading"]
    /\ UNCHANGED <<setting, portUp, pressed, wants, lockedBy, operatorTails,
                   programTails, transmits, intact>>

PressDenied(o) ==
    /\ handler[o] = "reading" /\ o \notin pressed
    /\ lockedBy \notin {NoOperator, o}
    /\ pressed' = pressed \cup {o}
    /\ UNCHANGED <<setting, portUp, handler, wants, lockedBy, operatorTails,
                   programTails, transmits, intact>>

\* Granted.  A release that is put off is called off, and the line left alone.
Press(o) ==
    /\ handler[o] = "reading" /\ o \notin pressed
    /\ lockedBy \in {NoOperator, o}
    /\ pressed' = pressed \cup {o}
    /\ \/ /\ handle
          /\ tails' = Front(tails) /\ handle' = FALSE
          /\ lockedBy' = o
          /\ UNCHANGED <<handler, transmits>>
       \/ /\ ~handle /\ ~Raises
          /\ Key(TRUE)
          /\ lockedBy' = o
          /\ UNCHANGED <<handler, operatorTails>>
       \/ ~handle /\ Raises /\ EndHandler(o, o) /\ UNCHANGED operatorTails
    /\ UNCHANGED <<setting, portUp, wants, programTails, intact>>

\* The button is let go.  _release_ptt frees the lock first; if the line then
\* raises, the clean-up of the handler finds nothing to do.
Unpress(o) ==
    /\ handler[o] = "reading" /\ o \in pressed
    /\ pressed' = pressed \ {o}
    /\ \/ lockedBy # o /\ UNCHANGED <<handler, lockedBy, operatorTails, transmits>>
       \/ /\ lockedBy = o /\ tailed /\ Len(tails) < MaxArmed
          /\ tails' = Append(tails, o) /\ handle' = TRUE
          /\ UNCHANGED <<handler, lockedBy, transmits>>
       \/ /\ lockedBy = o /\ ~tailed
          /\ lockedBy' = NoOperator
          /\ Key(FALSE)
          /\ handle' = FALSE
          /\ handler' = [handler EXCEPT ![o] = IF Raises THEN "absent" ELSE @]
          /\ UNCHANGED tails
    /\ UNCHANGED <<setting, portUp, wants, programTails, intact>>

TailEnds ==
    /\ tails # <<>>
    /\ tails' = Tail(tails) /\ handle' = FALSE
    /\ IF lockedBy = Head(tails) THEN lockedBy' = NoOperator /\ Key(FALSE)
                                 ELSE UNCHANGED <<lockedBy, transmits>>
    /\ UNCHANGED <<setting, portUp, handler, pressed, wants, programTails, intact>>

\* A client leaves, and takes its program along: what that does later is not
\* reported.
Depart(o) ==
    /\ handler[o] = "reading"
    /\ EndHandler(o, lockedBy)
    /\ pressed' = pressed \ {o}
    /\ wants' = wants \ {o}
    /\ intact' = (intact /\ o \notin wants)
    /\ UNCHANGED <<setting, portUp, operatorTails, programTails>>

-----------------------------------------------------------------------------
(* Third-party programs *)

\* Mutant: a program that keys calls off the operator's release.
ProgramKeysLine_AnyHandle(o) ==
    /\ wiring # "civ" /\ handler[o] = "reading" /\ o \notin wants
    /\ wants' = wants \cup {o}
    /\ \/ /\ handle
          /\ tails' = Front(tails) /\ handle' = FALSE
          /\ UNCHANGED <<handler, lockedBy, programTails, transmits, intact>>
       \/ /\ ~handle /\ ~Raises
          /\ Key(TRUE)
          /\ UNCHANGED <<handler, lockedBy, operatorTails, programTails, intact>>
    /\ UNCHANGED <<setting, portUp, pressed>>

\* _handle_external_ptt: on.
ProgramKeysLine(o) ==
    /\ wiring # "civ" /\ handler[o] = "reading" /\ o \notin wants
    /\ wants' = wants \cup {o}
    /\ \/ /\ extHandle
          /\ extTails' = extTails - 1 /\ extHandle' = FALSE
          /\ UNCHANGED <<handler, lockedBy, transmits, intact>>
       \/ /\ ~extHandle /\ ~Raises
          /\ Key(TRUE)
          /\ UNCHANGED <<handler, lockedBy, programTails, intact>>
       \/ /\ ~extHandle /\ Raises
          /\ EndHandler(o, lockedBy)
          /\ intact' = FALSE
          /\ UNCHANGED programTails
    /\ UNCHANGED <<setting, portUp, pressed, operatorTails>>

\* _handle_external_ptt: off.
ProgramUnkeysLine(o) ==
    /\ wiring # "civ" /\ handler[o] = "reading" /\ o \in wants
    /\ wants' = wants \ {o}
    /\ \/ /\ tailed /\ extTails < MaxArmed
          /\ extTails' = extTails + 1 /\ extHandle' = TRUE
          /\ UNCHANGED <<handler, lockedBy, transmits>>
       \/ /\ ~tailed /\ ~Raises
          /\ Key(FALSE)
          /\ UNCHANGED <<handler, lockedBy, programTails>>
       \/ ~tailed /\ Raises /\ EndHandler(o, lockedBy) /\ UNCHANGED programTails
    /\ UNCHANGED <<setting, portUp, pressed, operatorTails, intact>>

\* _on_external_cat_write, unless the port is gone and the server drops the frame.
ProgramSendsFrame(o) ==
    /\ wiring = "civ" /\ handler[o] = "reading"
    /\ wants' = IF o \in wants THEN wants \ {o} ELSE wants \cup {o}
    /\ \/ ~portUp /\ UNCHANGED <<programTails, transmits>>
       \/ /\ portUp /\ (o \notin wants \/ ~tailed)
          /\ Key(o \notin wants)
          /\ extTails' = IF tailed /\ extHandle THEN extTails - 1 ELSE extTails
          /\ extHandle' = FALSE
       \/ /\ portUp /\ o \in wants /\ tailed /\ (extHandle \/ extTails < MaxArmed)
          /\ extTails' = IF extHandle THEN extTails ELSE extTails + 1
          /\ extHandle' = TRUE
          /\ UNCHANGED transmits
    /\ UNCHANGED <<setting, portUp, handler, pressed, lockedBy, operatorTails, intact>>

\* Any other frame of a program: passed on by _forward_external_cat, which
\* forgets the handle of a release that is still armed.
ProgramPolls(o) ==
    /\ wiring = "civ" /\ handler[o] = "reading" /\ portUp
    /\ extHandle' = FALSE
    /\ UNCHANGED <<setting, portUp, handler, pressed, wants, lockedBy, operatorTails,
                   extTails, transmits, intact>>

\* Mutant: the handle outlives its timer.
ProgramTailEnds_KeepHandle ==
    /\ extTails > 0
    /\ extTails' = extTails - 1
    /\ Key(FALSE)
    /\ UNCHANGED <<setting, portUp, handler, pressed, wants, lockedBy, operatorTails,
                   extHandle, intact>>

ProgramTailEnds ==
    /\ extTails > 0
    /\ extTails' = extTails - 1 /\ extHandle' = FALSE
    /\ Key(FALSE)
    /\ UNCHANGED <<setting, portUp, handler, pressed, wants, lockedBy, operatorTails,
                   intact>>

\* The port is unplugged, and nothing opens it again.  Its lines drop with it; a
\* radio that is keyed by CI-V goes on transmitting.
PortLost ==
    /\ portUp
    /\ portUp' = FALSE
    /\ transmits' = (transmits /\ wiring = "civ")
    /\ UNCHANGED <<setting, handler, pressed, wants, lockedBy, operatorTails,
                   programTails, intact>>

OnAirNext ==
    \/ \E o \in Operators :
          \/ Join(o) \/ PressDenied(o) \/ Press(o) \/ Unpress(o) \/ Depart(o)
          \/ ProgramKeysLine(o) \/ ProgramUnkeysLine(o) \/ ProgramSendsFrame(o)
          \/ ProgramPolls(o)
    \/ TailEnds \/ ProgramTailEnds \/ PortLost

OnAirSpec == OnAirInit /\ [][OnAirNext]_onAirVars

-----------------------------------------------------------------------------
(* Properties *)

\* Two ways to key, two tails and one line: whatever was called off or cut
\* short between operators and programs, when no button is down, no program
\* keys and no timer is armed, the transmitter is off and the lock is free.
\* Only a program that was cut off while it keyed, or a CI-V radio without its
\* serial port, goes on transmitting.
QuietIsOff ==
    intact /\ pressed = {} /\ wants = {} /\ tails = <<>> /\ extTails = 0 =>
        /\ lockedBy = NoOperator
        /\ portUp \/ wiring # "civ" => ~transmits

\* The lock is held by an operator whose messages are read, so it will be given
\* back, even if the line raised while the port was gone.
HolderIsServed == lockedBy # NoOperator => handler[lockedBy] = "reading"
=============================================================================
