---------------------------- MODULE RadioBridge ----------------------------
(***************************************************************************)
(* One radio's control channel, server/radio_bridge.py: log-in, PTT        *)
(* arbitration, the keying of the transmitter, the audio tail that delays  *)
(* the un-keying, CW keying, and the clean-up after clients that leave.    *)
(*                                                                         *)
(* The server is one asyncio loop, so a handler runs without interruption  *)
(* from one await to the next.  Each action below is one such stretch, and *)
(* pc[c] names the await at which the handler of connection c is parked.   *)
(* Only awaits that can suspend are parking places: the socket read, the   *)
(* database calls and the status broadcast.  A send to one client is not:  *)
(* drain() suspends only above the transport's 64 KiB high-water mark.     *)
(*                                                                         *)
(* A connection is a Python writer object and is never used twice.         *)
(***************************************************************************)
EXTENDS Naturals, Sequences

CONSTANTS
    Users,        \* user names
    NoUser,       \* Python's None
    Conns,        \* control connections (writer objects)
    PttUsers,     \* the users who operate the PTT button
    CwUsers,      \* the users who send CW key events
    CwLine,       \* the line cw_method drives; "ptt" when cfg has no "cw"
    HasTail,      \* audio.ptt_tail_ms > 0
    AmpLinked,    \* an amplifier's fault check is wired to this radio
    SharedLogin,  \* one account may be logged in over two connections at once
    Resets,       \* the transport may learn that a peer is dead
    MaxTails      \* model bound: tail timers armed at the same time

Lines == {"ptt", "cw"}

ASSUME BridgeAssumption ==
    /\ NoUser \notin Users
    /\ PttUsers \subseteq Users
    /\ CwUsers \subseteq Users
    /\ CwLine \in Lines
    /\ HasTail \in BOOLEAN
    /\ AmpLinked \in BOOLEAN
    /\ SharedLogin \in BOOLEAN
    /\ Resets \in BOOLEAN
    /\ MaxTails \in Nat

VARIABLES
    holder,      \* arbiter.holder
    line,        \* what the radio was last told on each keying line
    pc,          \* where the handler of a connection is parked
    user,        \* the handler's local variable username
    registered,  \* the keys of control_clients
    net,         \* up; silent: the peer is gone; lost: and sends to it raise
    down,        \* the client's PTT button, as last reported on a connection
    tx,          \* tx_ids holds an open database row for the connection
    stray,       \* connections with an open row that tx_ids no longer names
    tails,       \* armed _release_ptt timers, oldest first, by connection
    handle,      \* _ptt_release_handle is set; it is then the newest timer
    cwTimer      \* the user of the armed _cw_release timer, or NoUser

conn == <<pc, user, registered, net, down>>
rows == <<tx, stray>>
timers == <<tails, handle, cwTimer>>
vars == <<holder, line, conn, rows, timers>>

Steps == {"new", "start_session", "read", "start_tx", "broadcast", "ending",
          "closed"}

TypeOK ==
    /\ holder \in Users \cup {NoUser}
    /\ line \in [Lines -> BOOLEAN]
    /\ pc \in [Conns -> Steps]
    /\ user \in [Conns -> Users \cup {NoUser}]
    /\ registered \subseteq Conns
    /\ net \in [Conns -> {"up", "silent", "lost"}]
    /\ down \in [Conns -> BOOLEAN]
    /\ tx \in [Conns -> BOOLEAN]
    /\ stray \subseteq Conns
    /\ tails \in Seq(Conns)
    /\ handle \in BOOLEAN
    /\ cwTimer \in Users \cup {NoUser}

Init ==
    /\ holder = NoUser
    /\ line = [l \in Lines |-> FALSE]
    /\ pc = [c \in Conns |-> "new"]
    /\ user = [c \in Conns |-> NoUser]
    /\ registered = {}
    /\ net = [c \in Conns |-> "up"]
    /\ down = [c \in Conns |-> FALSE]
    /\ tx = [c \in Conns |-> FALSE]
    /\ stray = {}
    /\ tails = <<>>
    /\ handle = FALSE
    /\ cwTimer = NoUser

-----------------------------------------------------------------------------
(* Helpers *)

\* A message of c can be read: its handler waits for one and the peer is there.
Reading(c) == pc[c] = "read" /\ net[c] = "up"

Goto(c, step) == pc' = [pc EXCEPT ![c] = step]

\* A handler whose reply cannot be sent leaves its loop instead.
Reply(c, step) == Goto(c, IF net[c] = "lost" THEN "read" ELSE step)

\* Mutant: the lock is freed and the radio is not told.
Unkey_LockOnly == holder' = NoUser /\ UNCHANGED line

\* arbiter.release and ptt_method.set(False), which go together wherever a
\* user's PTT ends.
Unkey == /\ holder' = NoUser
         /\ line' = [line EXCEPT !["ptt"] = FALSE]

\* tx_ids.pop(c) followed by end_transmission.
EndTx(c) == /\ tx' = [tx EXCEPT ![c] = FALSE]
            /\ UNCHANGED stray

\* Mutants: nothing is done; no check of the holder; the row is forgotten.
ReleaseIfHolder_Nothing(c) == UNCHANGED <<holder, line, rows>>
ReleaseIfHolder_AnyUser(c) == Unkey /\ EndTx(c)
ReleaseIfHolder_KeepRow(c) ==
    /\ IF holder = user[c] THEN Unkey ELSE UNCHANGED <<holder, line>>
    /\ UNCHANGED rows

\* _release_if_holder(writer, username).
ReleaseIfHolder(c) ==
    IF holder = user[c] THEN Unkey /\ EndTx(c)
                        ELSE UNCHANGED <<holder, line, rows>>

\* Mutant: the radio is un-keyed and the lock is not released.
ReleasePtt_NoRelease(c) ==
    /\ line' = [line EXCEPT !["ptt"] = FALSE]
    /\ EndTx(c)
    /\ UNCHANGED holder

\* _release_ptt(writer, username), but for the handle it clears.
ReleasePtt(c) ==
    /\ IF holder = user[c] THEN Unkey ELSE UNCHANGED <<holder, line>>
    /\ EndTx(c)

\* _broadcast over the registered connections reg: a send that fails proves
\* its connection dead.  It is dropped and its user's PTT released.
Broadcast(reg) ==
    LET dead == {d \in reg : net[d] = "lost"}
        holding == {d \in dead : user[d] = holder}
    IN /\ registered' = reg \ dead
       /\ \/ /\ holding = {}
             /\ UNCHANGED <<holder, line, rows>>
          \/ \E d \in holding : ReleaseIfHolder(d)

-----------------------------------------------------------------------------
(* The control connection: _handle_control_client *)

\* hello, authorized: the connection is registered, then start_session is
\* awaited.  The operator may be holding the button already.
Hello(c, u) ==
    /\ pc[c] = "new"
    /\ SharedLogin \/ \A d \in Conns : user[d] = u => pc[d] = "closed"
    /\ user' = [user EXCEPT ![c] = u]
    /\ registered' = registered \cup {c}
    /\ down' \in {down, [down EXCEPT ![c] = TRUE]}
    /\ Goto(c, "start_session")
    /\ UNCHANGED <<net, holder, line, rows, timers>>

\* hello_denied: the loop is left without a username.
HelloDenied(c) ==
    /\ pc[c] = "new"
    /\ Goto(c, "ending")
    /\ UNCHANGED <<user, registered, net, down, holder, line, rows, timers>>

SessionStarted(c) ==
    /\ pc[c] = "start_session"
    /\ Reply(c, "broadcast")
    /\ UNCHANGED <<user, registered, net, down, holder, line, rows, timers>>

\* await _broadcast_status() at the end of a message.
Broadcasted(c) ==
    /\ pc[c] = "broadcast"
    /\ Broadcast(registered)
    /\ Goto(c, "read")
    /\ UNCHANGED <<user, net, down, timers>>

\* Mutant: without the read timeout only a reset ends the loop.
Leave_OnlyLost(c) ==
    /\ pc[c] = "read"
    /\ net[c] = "lost"
    /\ ReleaseIfHolder(c)
    /\ Goto(c, "ending")
    /\ UNCHANGED <<user, registered, net, down, timers>>

\* The read timeout, end of file or a reset ends the loop: the finally block
\* up to its first await.
Leave(c) ==
    /\ pc[c] = "read"
    /\ net[c] # "up"
    /\ ReleaseIfHolder(c)
    /\ Goto(c, "ending")
    /\ UNCHANGED <<user, registered, net, down, timers>>

\* The rest of the finally block: deregister, close, broadcast.
Left(c) ==
    /\ pc[c] = "ending"
    /\ Broadcast(registered \ {c})
    /\ Goto(c, "closed")
    /\ UNCHANGED <<user, net, down, timers>>

-----------------------------------------------------------------------------
(* PTT messages: _handle_ptt.  The client has one button, so what a         *)
(* connection reports alternates between on and off.                        *)

Press(c) == /\ Reading(c)
            /\ user[c] \in PttUsers
            /\ ~down[c]
            /\ down' = [down EXCEPT ![c] = TRUE]
            /\ UNCHANGED <<user, registered, net>>

Unpress(c) == /\ Reading(c)
              /\ user[c] \in PttUsers
              /\ down[c]
              /\ down' = [down EXCEPT ![c] = FALSE]
              /\ UNCHANGED <<user, registered, net>>

\* PTT on, refused: the amplifier reports a fault or another user has the lock.
PttDenied(c) ==
    /\ Press(c)
    /\ AmpLinked \/ holder \notin {NoUser, user[c]}
    /\ UNCHANGED <<pc, holder, line, rows, timers>>

\* Mutant: the lock is taken over from whoever holds it.
PttOn_NoCheck(c) ==
    /\ Press(c)
    /\ ~handle
    /\ holder' = user[c]
    /\ line' = [line EXCEPT !["ptt"] = TRUE]
    /\ Goto(c, "start_tx")
    /\ UNCHANGED <<rows, timers>>

\* PTT on: acquire, key the radio and await start_transmission.
PttOn(c) ==
    /\ Press(c)
    /\ holder \in {NoUser, user[c]}
    /\ ~handle
    /\ holder' = user[c]
    /\ line' = [line EXCEPT !["ptt"] = TRUE]
    /\ Goto(c, "start_tx")
    /\ UNCHANGED <<rows, timers>>

\* Mutant: the row goes under the user's name and not under the connection.
TxStarted_ByName(c) ==
    /\ pc[c] = "start_tx"
    /\ tx' = [tx EXCEPT ![c] = user[c]]
    /\ UNCHANGED stray
    /\ Reply(c, "broadcast")
    /\ UNCHANGED <<user, registered, net, down, holder, line, timers>>

\* The new row's id is stored, over whatever id was there.
TxStarted(c) ==
    /\ pc[c] = "start_tx"
    /\ tx' = [tx EXCEPT ![c] = TRUE]
    /\ stray' = IF tx[c] THEN stray \cup {c} ELSE stray
    /\ Reply(c, "broadcast")
    /\ UNCHANGED <<user, registered, net, down, holder, line, timers>>

\* Mutant: the handle is forgotten without cancelling its timer.
PttRekey_KeepTimer(c) ==
    /\ Press(c)
    /\ holder \in {NoUser, user[c]}
    /\ handle
    /\ holder' = user[c]
    /\ handle' = FALSE
    /\ Goto(c, "broadcast")
    /\ UNCHANGED <<tails, line, rows, cwTimer>>

\* PTT on while a release is pending: the timer is cancelled and the radio is
\* not told anything.
PttRekey(c) ==
    /\ Press(c)
    /\ holder \in {NoUser, user[c]}
    /\ handle
    /\ holder' = user[c]
    /\ tails' = SubSeq(tails, 1, Len(tails) - 1)
    /\ handle' = FALSE
    /\ Goto(c, "broadcast")
    /\ UNCHANGED <<line, rows, cwTimer>>

\* PTT off by a user who does not hold the lock is acknowledged only.
PttOffIgnored(c) ==
    /\ Unpress(c)
    /\ holder # user[c]
    /\ UNCHANGED <<pc, holder, line, rows, timers>>

\* PTT off with an audio tail: the release is put off.  The handle is simply
\* overwritten; an older timer it named stays armed.
PttOffTail(c) ==
    /\ Unpress(c)
    /\ holder = user[c]
    /\ HasTail
    /\ Len(tails) < MaxTails
    /\ tails' = Append(tails, c)
    /\ handle' = TRUE
    /\ UNCHANGED <<pc, holder, line, rows, cwTimer>>

\* PTT off without a tail.
PttOff(c) ==
    /\ Unpress(c)
    /\ holder = user[c]
    /\ ~HasTail
    /\ ReleasePtt(c)
    /\ handle' = FALSE
    /\ Goto(c, "broadcast")
    /\ UNCHANGED <<tails, cwTimer>>

\* The oldest tail timer fires; all have the same delay.
TailFires ==
    /\ tails # <<>>
    /\ ReleasePtt(Head(tails))
    /\ tails' = Tail(tails)
    /\ handle' = FALSE
    /\ UNCHANGED <<conn, cwTimer>>

-----------------------------------------------------------------------------
(* CW key events, which arrive over UDP: _handle_cw_event, _cw_release *)

CwDown(u) ==
    /\ holder \in {NoUser, u}
    /\ holder' = u
    /\ line' = [line EXCEPT ![CwLine] = TRUE]
    /\ cwTimer' = NoUser
    /\ UNCHANGED <<conn, rows, tails, handle>>

CwUp(u) ==
    /\ holder = u
    /\ line' = [line EXCEPT ![CwLine] = FALSE]
    /\ cwTimer' = u
    /\ UNCHANGED <<holder, conn, rows, tails, handle>>

CwIdle ==
    /\ cwTimer # NoUser
    /\ holder' = IF holder = cwTimer THEN NoUser ELSE holder
    /\ cwTimer' = NoUser
    /\ UNCHANGED <<line, conn, rows, tails, handle>>

-----------------------------------------------------------------------------
(* The keepalive loop, the status tasks that timers start, and the network *)

Keepalive ==
    /\ Broadcast(registered)
    /\ UNCHANGED <<pc, user, net, down, timers>>

\* The peer closes or silently disappears.
Vanish(c) ==
    /\ pc[c] \notin {"new", "closed"}
    /\ net[c] = "up"
    /\ net' = [net EXCEPT ![c] = "silent"]
    /\ UNCHANGED <<pc, user, registered, down, holder, line, rows, timers>>

\* The transport learns of it: reads and sends fail from now on.
Reset(c) ==
    /\ Resets
    /\ pc[c] \notin {"new", "closed"}
    /\ net[c] # "lost"
    /\ net' = [net EXCEPT ![c] = "lost"]
    /\ UNCHANGED <<pc, user, registered, down, holder, line, rows, timers>>

Handler(c) == \/ SessionStarted(c) \/ TxStarted(c) \/ Broadcasted(c)
              \/ Leave(c) \/ Left(c)

Message(c) == \/ \E u \in Users : Hello(c, u)
              \/ HelloDenied(c)
              \/ PttDenied(c) \/ PttOn(c) \/ PttRekey(c)
              \/ PttOffIgnored(c) \/ PttOffTail(c) \/ PttOff(c)

Network(c) == Vanish(c) \/ Reset(c)

Next == \/ \E c \in Conns : Message(c) \/ Handler(c) \/ Network(c)
        \/ \E u \in CwUsers : CwDown(u) \/ CwUp(u)
        \/ TailFires
        \/ CwIdle
        \/ Keepalive

Spec == Init /\ [][Next]_vars

\* The loop runs every task that is ready and every timer that is due; the
\* database answers.  Clients and the network owe nothing.
Fairness == /\ \A c \in Conns : WF_vars(Handler(c))
            /\ WF_vars(TailFires)
            /\ WF_vars(CwIdle)

FairSpec == Spec /\ Fairness
-----------------------------------------------------------------------------
(* Safety *)

Keyed == \E l \in Lines : line[l]

\* The transmitter is never on while the arbiter would give the radio to the
\* next comer: every path that frees the lock also un-keys (_release_ptt,
\* _release_if_holder), and only a lock holder can key.
KeyedOnlyWhileHeld == Keyed => holder # NoUser

\* The inductive form of KeyedOnlyWhileHeld, for a radio whose CW line is its
\* PTT line and whose CW operators do not also press PTT: the idle timer may
\* free the lock only because the line is already up when its user holds it.
KeyInv ==
    /\ KeyedOnlyWhileHeld
    /\ ~line["cw"]
    /\ cwTimer \in CwUsers \cup {NoUser}
    /\ cwTimer = holder => ~line["ptt"]

\* A PTT request is refused until the user who is transmitting has finished:
\* nobody's press is granted while the radio is keyed for another.
NobodyKeysOverAnother ==
    [][\A c \in Conns : PttOn(c) /\ Keyed => holder = user[c]]_vars

\* Who holds the lock is on the air: a PTT that was granted really keyed the
\* radio.  The comment in _handle_ptt relies on it when a press during the tail
\* only cancels the timer, "the hardware was never actually un-keyed".
HolderKeyed == holder # NoUser => Keyed

\* A voice operator who holds the lock still has a connection whose handler
\* will run the clean-up: nobody can hold the radio from beyond the grave.
HolderConnected ==
    holder \in PttUsers \ CwUsers =>
        \E c \in Conns : /\ user[c] = holder
                         /\ pc[c] \in {"read", "start_tx", "broadcast"}

\* While a connection's audio tail runs, its user keeps the channel, so nobody
\* jumps in before the last word has been played out.
TailHoldsChannel ==
    \A i \in DOMAIN tails :
        LET c == tails[i] IN
        c \in registered /\ pc[c] # "ending" => holder = user[c]

\* _ptt_release_handle names every armed tail timer: a press that cancels the
\* handle leaves no timer behind that could end the new transmission.
HandleNamesEveryTail == Len(tails) = IF handle THEN 1 ELSE 0

\* The log of transmissions: a row that is open belongs to the user who is
\* transmitting, so each transmission's end is recorded when it ends.  The
\* exception is a connection that was found dead while the row was being
\* written.
OpenRowsAreOnAir ==
    /\ stray = {}
    /\ \A c \in Conns : tx[c] /\ net[c] # "lost" => holder = user[c]

\* The bridge uses its arbiter as a lock: whatever the handlers, timers and
\* clean-ups do, the radio changes hands only through a free lock.
Lock == INSTANCE PttArbiter WITH Users <- Users, NoUser <- NoUser, holder <- holder
LockSpec == Lock!Spec

-----------------------------------------------------------------------------
(* Liveness *)

\* An operator whose every connection has silently died loses the lock, or
\* comes back: the radio does not stay keyed for a peer that is gone.
VanishedHolderUnkeyed ==
    \A u \in Users :
        (holder = u /\ \A c \in Conns : user[c] = u => net[c] # "up")
            ~> (holder # u \/ \E c \in Conns : user[c] = u /\ net[c] = "up")

\* When no button of the holder is down any more, the lock comes free, unless
\* a button goes down again.
ButtonUpFreesRadio ==
    \A u \in Users :
        (holder = u /\ \A c \in Conns : user[c] = u => ~down[c])
            ~> (holder # u \/ \E c \in Conns : user[c] = u /\ down[c])
=============================================================================
