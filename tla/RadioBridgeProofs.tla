------------------------- MODULE RadioBridgeProofs --------------------------
(***************************************************************************)
(* Theorems about RadioBridge, for any set of users and connections; those *)
(* of the last part are about accounts that are logged in once.            *)
(***************************************************************************)
EXTENDS RadioBridge, TLAPS

\* Cutting the newest timer off the queue of timers leaves a queue of timers.
LEMMA DropNewest ==
    ASSUME NEW S, NEW s \in Seq(S)
    PROVE  SubSeq(s, 1, Len(s) - 1) \in Seq(S)
<1>1. CASE s = <<>>
  BY <1>1
<1>2. CASE s # <<>>
  BY <1>2
<1>. QED  BY <1>1, <1>2

\* What a broadcast may do to the lock, the lines and the rows: nothing, or
\* end the PTT of a connection it found dead.
LEMMA BroadcastEffect ==
    ASSUME NEW reg, Broadcast(reg)
    PROVE  /\ registered' \subseteq reg
           /\ \/ UNCHANGED <<holder, line, rows>>
              \/ \E d \in reg : Unkey /\ EndTx(d)
BY DEF Broadcast, ReleaseIfHolder

-----------------------------------------------------------------------------
(* Type correctness *)

\* Un-keying and ending a row keep the types.
LEMMA UnkeyType ==
    ASSUME TypeOK, Unkey
    PROVE  holder' \in Users \cup {NoUser} /\ line' \in [Lines -> BOOLEAN]
BY DEF TypeOK, Unkey

LEMMA EndTxType ==
    ASSUME TypeOK, NEW c \in Conns, EndTx(c)
    PROVE  tx' \in [Conns -> BOOLEAN] /\ stray' \subseteq Conns
BY DEF TypeOK, EndTx

LEMMA BroadcastType ==
    ASSUME TypeOK, NEW reg \in SUBSET Conns, Broadcast(reg)
    PROVE  /\ holder' \in Users \cup {NoUser}
           /\ line' \in [Lines -> BOOLEAN]
           /\ registered' \subseteq Conns
           /\ tx' \in [Conns -> BOOLEAN]
           /\ stray' \subseteq Conns
<1>1. registered' \subseteq Conns
  BY BroadcastEffect
<1>2. CASE UNCHANGED <<holder, line, rows>>
  BY <1>1, <1>2 DEF TypeOK, rows
<1>3. CASE \E d \in reg : Unkey /\ EndTx(d)
  BY <1>1, <1>3, UnkeyType, EndTxType
<1>. QED  BY <1>2, <1>3, BroadcastEffect

\* Every variable keeps its type under every handler, timer and network event.
THEOREM TypeCorrect == Spec => []TypeOK
<1>1. Init => TypeOK
  <2> SUFFICES ASSUME Init PROVE TypeOK
    OBVIOUS
  <2>1. <<>> \in Seq(Conns)
    OBVIOUS
  <2>2. pc \in [Conns -> Steps] /\ line \in [Lines -> BOOLEAN]
    BY DEF Init, Steps
  <2>. QED  BY <2>1, <2>2 DEF Init, TypeOK
<1>2. TypeOK /\ [Next]_vars => TypeOK'
  <2> SUFFICES ASSUME TypeOK, [Next]_vars
               PROVE  TypeOK'
    OBVIOUS
  <2> USE BridgeAssumption
  <2>1. ASSUME NEW c \in Conns, NEW u \in Users, Hello(c, u)
        PROVE  TypeOK'
    BY <2>1 DEF TypeOK, Hello, Goto, Steps, rows, timers
  <2>2. ASSUME NEW c \in Conns, HelloDenied(c)
        PROVE  TypeOK'
    BY <2>2 DEF TypeOK, HelloDenied, Goto, Steps, rows, timers
  <2>3. ASSUME NEW c \in Conns, SessionStarted(c)
        PROVE  TypeOK'
    BY <2>3 DEF TypeOK, SessionStarted, Reply, Goto, Steps, rows, timers
  <2>4. ASSUME NEW c \in Conns, Broadcasted(c)
        PROVE  TypeOK'
    <3>1. registered \in SUBSET Conns /\ Broadcast(registered)
      BY <2>4 DEF TypeOK, Broadcasted
    <3>2. pc' \in [Conns -> Steps]
      BY <2>4 DEF TypeOK, Broadcasted, Goto, Steps
    <3>. QED
      BY <2>4, <3>1, <3>2, BroadcastType DEF TypeOK, Broadcasted, timers
  <2>5. ASSUME NEW c \in Conns, Leave(c)
        PROVE  TypeOK'
    <3>1. pc' \in [Conns -> Steps]
      BY <2>5 DEF TypeOK, Leave, Goto, Steps
    <3>2. CASE holder = user[c]
      BY <2>5, <3>1, <3>2, UnkeyType, EndTxType
         DEF TypeOK, Leave, ReleaseIfHolder, timers
    <3>3. CASE holder # user[c]
      BY <2>5, <3>1, <3>3 DEF TypeOK, Leave, ReleaseIfHolder, rows, timers
    <3>. QED  BY <3>2, <3>3
  <2>6. ASSUME NEW c \in Conns, Left(c)
        PROVE  TypeOK'
    <3>1. registered \ {c} \in SUBSET Conns /\ Broadcast(registered \ {c})
      BY <2>6 DEF TypeOK, Left
    <3>2. pc' \in [Conns -> Steps]
      BY <2>6 DEF TypeOK, Left, Goto, Steps
    <3>. QED
      BY <2>6, <3>1, <3>2, BroadcastType DEF TypeOK, Left, timers
  <2>7. ASSUME NEW c \in Conns, PttDenied(c)
        PROVE  TypeOK'
    BY <2>7 DEF TypeOK, PttDenied, Press, rows, timers
  <2>8. ASSUME NEW c \in Conns, PttOn(c)
        PROVE  TypeOK'
    BY <2>8 DEF TypeOK, PttOn, Press, Goto, Steps, Lines, rows, timers
  <2>9. ASSUME NEW c \in Conns, TxStarted(c)
        PROVE  TypeOK'
    BY <2>9 DEF TypeOK, TxStarted, Reply, Goto, Steps, timers
  <2>10. ASSUME NEW c \in Conns, PttRekey(c)
         PROVE  TypeOK'
    <3>1. tails' \in Seq(Conns)
      BY <2>10, DropNewest DEF TypeOK, PttRekey
    <3>. QED
      BY <2>10, <3>1 DEF TypeOK, PttRekey, Press, Goto, Steps, rows
  <2>11. ASSUME NEW c \in Conns, PttOffIgnored(c)
         PROVE  TypeOK'
    BY <2>11 DEF TypeOK, PttOffIgnored, Unpress, rows, timers
  <2>12. ASSUME NEW c \in Conns, PttOffTail(c)
         PROVE  TypeOK'
    BY <2>12 DEF TypeOK, PttOffTail, Unpress, rows
  <2>13. ASSUME NEW c \in Conns, PttOff(c)
         PROVE  TypeOK'
    <3>1. /\ holder' \in Users \cup {NoUser}
          /\ line' \in [Lines -> BOOLEAN]
          /\ tx' \in [Conns -> BOOLEAN]
          /\ stray' \subseteq Conns
      BY <2>13, UnkeyType, EndTxType DEF TypeOK, PttOff, ReleasePtt
    <3>. QED
      BY <2>13, <3>1 DEF TypeOK, PttOff, Unpress, Goto, Steps
  <2>14. ASSUME TailFires
         PROVE  TypeOK'
    <3>1. Head(tails) \in Conns /\ tails' \in Seq(Conns)
      BY <2>14 DEF TypeOK, TailFires
    <3>2. /\ holder' \in Users \cup {NoUser}
          /\ line' \in [Lines -> BOOLEAN]
          /\ tx' \in [Conns -> BOOLEAN]
          /\ stray' \subseteq Conns
      BY <2>14, <3>1, UnkeyType, EndTxType DEF TypeOK, TailFires, ReleasePtt
    <3>. QED
      BY <2>14, <3>1, <3>2 DEF TypeOK, TailFires, conn
  <2>15. ASSUME NEW u \in CwUsers, CwDown(u) \/ CwUp(u)
         PROVE  TypeOK'
    BY <2>15 DEF TypeOK, CwDown, CwUp, Lines, conn, rows
  <2>16. ASSUME CwIdle
         PROVE  TypeOK'
    BY <2>16 DEF TypeOK, CwIdle, conn, rows
  <2>17. ASSUME Keepalive
         PROVE  TypeOK'
    <3>1. registered \in SUBSET Conns /\ Broadcast(registered)
      BY <2>17 DEF TypeOK, Keepalive
    <3>. QED
      BY <2>17, <3>1, BroadcastType DEF TypeOK, Keepalive, timers
  <2>18. ASSUME NEW c \in Conns, Network(c)
         PROVE  TypeOK'
    BY <2>18 DEF TypeOK, Network, Vanish, Reset, rows, timers
  <2>19. CASE UNCHANGED vars
    BY <2>19 DEF TypeOK, vars, conn, rows, timers
  <2>. QED
    BY <2>1, <2>2, <2>3, <2>4, <2>5, <2>6, <2>7, <2>8, <2>9, <2>10, <2>11,
       <2>12, <2>13, <2>14, <2>15, <2>16, <2>17, <2>18, <2>19
       DEF Next, Message, Handler
<1>. QED  BY <1>1, <1>2, PTL DEF Spec

-----------------------------------------------------------------------------
(* The arbiter is used as a lock *)

\* A broadcast changes the holder only by freeing the lock.
LEMMA BroadcastFrees ==
    ASSUME NEW reg, Broadcast(reg)
    PROVE  holder' \in {holder, NoUser}
BY BroadcastEffect DEF Unkey

\* RadioBridge implements PttArbiter: no handler, timer or clean-up ever moves
\* the radio from one user straight to another.
THEOREM LockRefined == Spec => LockSpec
<1>1. Init => Lock!Init
  BY DEF Init, Lock!Init
<1>2. TypeOK /\ TypeOK' /\ [Next]_vars => [Lock!Next]_holder
  <2> SUFFICES ASSUME TypeOK, TypeOK', [Next]_vars, holder' # holder
               PROVE  Lock!Next
    OBVIOUS
  <2>. DEFINE Frees == holder' = NoUser
  <2>1. ASSUME Frees
        PROVE  Lock!Next
    BY <2>1 DEF TypeOK, Lock!Next, Lock!Release
  <2>2. ASSUME NEW u \in Users, holder \in {NoUser, u}, holder' = u
        PROVE  Lock!Next
    BY <2>2 DEF Lock!Next, Lock!Acquire
  <2>3. ASSUME NEW c \in Conns, PttOn(c) \/ PttRekey(c)
        PROVE  Lock!Next
    BY <2>2, <2>3, BridgeAssumption DEF PttOn, PttRekey, Press
  <2>4. ASSUME NEW u \in CwUsers, CwDown(u) \/ CwUp(u)
        PROVE  Lock!Next
    BY <2>2, <2>4, BridgeAssumption DEF CwDown, CwUp
  <2>5. ASSUME NEW c \in Conns, Broadcasted(c) \/ Left(c)
        PROVE  Frees
    BY <2>5, BroadcastFrees DEF Broadcasted, Left
  <2>6. ASSUME NEW c \in Conns, Leave(c) \/ PttOff(c)
        PROVE  Frees
    BY <2>6 DEF Leave, ReleaseIfHolder, PttOff, ReleasePtt, Unkey
  <2>7. ASSUME TailFires \/ CwIdle
        PROVE  Frees
    BY <2>7 DEF TailFires, ReleasePtt, Unkey, CwIdle
  <2>8. ASSUME Keepalive
        PROVE  Frees
    BY <2>8, BroadcastFrees DEF Keepalive
  <2>9. ASSUME NEW c \in Conns
        PROVE  /\ ~ \E u \in Users : Hello(c, u)
               /\ ~HelloDenied(c) /\ ~SessionStarted(c) /\ ~TxStarted(c)
               /\ ~PttDenied(c) /\ ~PttOffIgnored(c) /\ ~PttOffTail(c)
               /\ ~Network(c)
    BY DEF Hello, HelloDenied, SessionStarted, TxStarted, PttDenied,
           PttOffIgnored, PttOffTail, Network, Vanish, Reset
  <2>10. Next
    BY DEF vars
  <2>. QED
    BY <2>1, <2>3, <2>4, <2>5, <2>6, <2>7, <2>8, <2>9, <2>10
       DEF Next, Message, Handler
<1>. QED  BY <1>1, <1>2, TypeCorrect, PTL DEF Spec, LockSpec, Lock!Spec

-----------------------------------------------------------------------------
(* The transmitter is on only while the lock is held *)

\* On a radio whose CW line is its PTT line, and with CW operators who do not
\* also press PTT, the transmitter is on only while somebody holds the lock,
\* however connections, tails, idle timers and clean-ups interleave.
THEOREM KeyedIsHeld ==
    ASSUME CwLine = "ptt", PttUsers \cap CwUsers = {}
    PROVE  Spec => []KeyedOnlyWhileHeld
<1>1. Init => KeyInv
  BY DEF Init, KeyInv, KeyedOnlyWhileHeld, Keyed, Lines
<1>2. TypeOK /\ KeyInv /\ [Next]_vars => KeyInv'
  <2> SUFFICES ASSUME TypeOK, KeyInv, [Next]_vars
               PROVE  KeyInv'
    OBVIOUS
  <2> USE BridgeAssumption
  <2>. DEFINE Held == line'["ptt"] => holder' # NoUser
              Quiet == cwTimer' = holder' => ~line'["ptt"]
  <2>1. ASSUME Held, Quiet, ~line'["cw"], cwTimer' \in CwUsers \cup {NoUser}
        PROVE  KeyInv'
    BY <2>1 DEF KeyInv, KeyedOnlyWhileHeld, Keyed, Lines
  <2>2. line["ptt"] => holder # NoUser
    BY DEF KeyInv, KeyedOnlyWhileHeld, Keyed, Lines
  <2>3. ASSUME UNCHANGED <<holder, line, cwTimer>>
        PROVE  KeyInv'
    BY <2>3 DEF KeyInv, KeyedOnlyWhileHeld, Keyed
  <2>4. ASSUME Unkey, UNCHANGED cwTimer
        PROVE  KeyInv'
    <3>1. ~line'["ptt"] /\ ~line'["cw"]
      BY <2>4 DEF Unkey, KeyInv, TypeOK, Lines
    <3>. QED  BY <2>1, <2>4, <3>1 DEF KeyInv
  <2>5. ASSUME NEW reg, Broadcast(reg), UNCHANGED cwTimer
        PROVE  KeyInv'
    BY <2>3, <2>4, <2>5, BroadcastEffect
  <2>6. ASSUME NEW c \in Conns, PttOn(c) \/ PttRekey(c)
        PROVE  KeyInv'
    <3>1. user[c] \in PttUsers /\ holder' = user[c] /\ cwTimer' = cwTimer
      BY <2>6 DEF PttOn, PttRekey, Press, timers
    <3>2. holder' # NoUser /\ cwTimer' # holder'
      BY <3>1 DEF KeyInv
    <3>3. line'["cw"] = line["cw"]
      BY <2>6 DEF PttOn, PttRekey, TypeOK, Lines
    <3>. QED  BY <2>1, <3>1, <3>2, <3>3 DEF KeyInv
  <2>7. ASSUME NEW c \in Conns, Leave(c) \/ PttOff(c)
        PROVE  KeyInv'
    BY <2>3, <2>4, <2>7
       DEF Leave, PttOff, ReleaseIfHolder, ReleasePtt, timers
  <2>8. ASSUME TailFires
        PROVE  KeyInv'
    BY <2>3, <2>4, <2>8 DEF TailFires, ReleasePtt
  <2>9. ASSUME NEW c \in Conns, Broadcasted(c) \/ Left(c)
        PROVE  KeyInv'
    BY <2>5, <2>9 DEF Broadcasted, Left, timers
  <2>10. ASSUME Keepalive
         PROVE  KeyInv'
    BY <2>5, <2>10 DEF Keepalive, timers
  <2>11. ASSUME NEW u \in CwUsers, CwDown(u)
         PROVE  KeyInv'
    <3>1. holder' = u /\ cwTimer' = NoUser /\ u # NoUser
      BY <2>11 DEF CwDown
    <3>2. ~line'["cw"]
      BY <2>11 DEF CwDown, KeyInv, TypeOK, Lines
    <3>. QED  BY <2>1, <3>1, <3>2
  <2>12. ASSUME NEW u \in CwUsers, CwUp(u)
         PROVE  KeyInv'
    <3>1. ~line'["ptt"] /\ ~line'["cw"]
      BY <2>12 DEF CwUp, KeyInv, TypeOK, Lines
    <3>. QED  BY <2>1, <2>12, <3>1 DEF CwUp
  <2>13. ASSUME CwIdle
         PROVE  KeyInv'
    <3>1. CASE holder = cwTimer
      BY <2>1, <2>13, <3>1 DEF CwIdle, KeyInv
    <3>2. CASE holder # cwTimer
      BY <2>1, <2>2, <2>13, <3>2 DEF CwIdle, KeyInv
    <3>. QED  BY <3>1, <3>2
  <2>14. ASSUME NEW c \in Conns,
                \/ \E u \in Users : Hello(c, u)
                \/ HelloDenied(c) \/ SessionStarted(c) \/ TxStarted(c)
                \/ PttDenied(c) \/ PttOffIgnored(c) \/ PttOffTail(c)
                \/ Network(c)
         PROVE  KeyInv'
    BY <2>3, <2>14
       DEF Hello, HelloDenied, SessionStarted, TxStarted, PttDenied,
           PttOffIgnored, PttOffTail, Network, Vanish, Reset, timers
  <2>15. CASE UNCHANGED vars
    BY <2>3, <2>15 DEF vars, timers
  <2>. QED
    BY <2>6, <2>7, <2>8, <2>9, <2>10, <2>11, <2>12, <2>13, <2>14, <2>15
       DEF Next, Message, Handler
<1>3. KeyInv => KeyedOnlyWhileHeld
  BY DEF KeyInv
<1>. QED  BY <1>1, <1>2, <1>3, TypeCorrect, PTL DEF Spec

-----------------------------------------------------------------------------
(* Without a tail, the lock is held only by somebody who is on the air *)

\* On a voice radio without an audio tail a granted PTT means a keyed radio, in
\* every interleaving of any number of connections, shared log-ins included.
THEOREM HeldIsKeyed ==
    ASSUME ~HasTail, CwUsers = {}
    PROVE  Spec => []HolderKeyed
<1>. DEFINE OnAir == ~handle /\ (holder # NoUser => line["ptt"])
<1>1. Init => OnAir
  BY DEF Init
<1>2. TypeOK /\ OnAir /\ [Next]_vars => OnAir'
  <2> SUFFICES ASSUME TypeOK, OnAir, [Next]_vars
               PROVE  OnAir'
    OBVIOUS
  <2>1. ASSUME UNCHANGED <<holder, line, handle>>
        PROVE  OnAir'
    BY <2>1
  <2>2. ASSUME holder' = NoUser, ~handle'
        PROVE  OnAir'
    BY <2>2
  <2>3. ASSUME NEW reg, Broadcast(reg), UNCHANGED timers
        PROVE  OnAir'
    BY <2>1, <2>2, <2>3, BroadcastEffect DEF Unkey, timers
  <2>4. ASSUME NEW c \in Conns, PttOn(c)
        PROVE  OnAir'
    BY <2>4 DEF PttOn, TypeOK, Lines, timers
  <2>5. ASSUME NEW c \in Conns, Leave(c) \/ PttOff(c)
        PROVE  OnAir'
    BY <2>1, <2>2, <2>5
       DEF Leave, PttOff, ReleaseIfHolder, ReleasePtt, Unkey, timers
  <2>6. ASSUME TailFires
        PROVE  OnAir'
    BY <2>2, <2>6 DEF TailFires, ReleasePtt, Unkey
  <2>7. ASSUME NEW c \in Conns, Broadcasted(c) \/ Left(c)
        PROVE  OnAir'
    BY <2>3, <2>7 DEF Broadcasted, Left
  <2>8. ASSUME Keepalive
        PROVE  OnAir'
    BY <2>3, <2>8 DEF Keepalive
  <2>9. ASSUME CwIdle
        PROVE  OnAir'
    BY <2>9 DEF CwIdle
  <2>10. ASSUME NEW c \in Conns,
                \/ \E u \in Users : Hello(c, u)
                \/ HelloDenied(c) \/ SessionStarted(c) \/ TxStarted(c)
                \/ PttDenied(c) \/ PttOffIgnored(c) \/ Network(c)
         PROVE  OnAir'
    BY <2>1, <2>10
       DEF Hello, HelloDenied, SessionStarted, TxStarted, PttDenied,
           PttOffIgnored, Network, Vanish, Reset, timers
  <2>11. ASSUME NEW c \in Conns
         PROVE  ~PttRekey(c) /\ ~PttOffTail(c)
    BY DEF PttRekey, PttOffTail
  <2>12. CASE UNCHANGED vars
    BY <2>1, <2>12 DEF vars, timers
  <2>. QED
    BY <2>4, <2>5, <2>6, <2>7, <2>8, <2>9, <2>10, <2>11, <2>12
       DEF Next, Message, Handler
<1>3. OnAir => HolderKeyed
  BY DEF HolderKeyed, Keyed, Lines
<1>. QED  BY <1>1, <1>2, <1>3, TypeCorrect, PTL DEF Spec

-----------------------------------------------------------------------------
(* Nobody holds the radio without a connection that will give it back *)

\* A voice operator who holds the lock has a live handler, whichever of the
\* account's connections keyed the radio and whichever of them have gone.
THEOREM HolderIsConnected == Spec => []HolderConnected
<1>. DEFINE Live(c) == /\ user[c] = holder
                       /\ pc[c] \in {"read", "start_tx", "broadcast"}
            Voice == PttUsers \ CwUsers
<1>1. Init => HolderConnected
  BY BridgeAssumption DEF Init, HolderConnected
<1>2. TypeOK /\ HolderConnected /\ [Next]_vars => HolderConnected'
  <2> SUFFICES ASSUME TypeOK, HolderConnected, [Next]_vars, holder' \in Voice
               PROVE  \E d \in Conns : Live(d)'
    BY DEF HolderConnected
  <2> USE BridgeAssumption
  <2>1. ASSUME holder' = holder
        PROVE  \E d \in Conns : Live(d)
    BY <2>1 DEF HolderConnected
  \* A step that keeps the holder and moves at most the handler of c, which
  \* is not a live one or stays one.
  <2>2. ASSUME NEW c \in Conns, holder' = holder,
               \A d \in Conns : d # c => pc'[d] = pc[d] /\ user'[d] = user[d],
               Live(c) => Live(c)'
        PROVE  \E d \in Conns : Live(d)'
    BY <2>1, <2>2
  <2>3. holder' # NoUser /\ holder' \notin CwUsers
    OBVIOUS
  <2>4. ASSUME NEW c \in Conns, NEW u \in Users, Hello(c, u)
        PROVE  \E d \in Conns : Live(d)'
    BY <2>2, <2>4 DEF Hello, Goto, TypeOK
  <2>5. ASSUME NEW c \in Conns, HelloDenied(c) \/ SessionStarted(c) \/ TxStarted(c)
        PROVE  \E d \in Conns : Live(d)'
    BY <2>2, <2>5 DEF HelloDenied, SessionStarted, TxStarted, Reply, Goto, TypeOK
  <2>6. ASSUME NEW reg, Broadcast(reg)
        PROVE  holder' = holder
    BY <2>3, <2>6, BroadcastFrees
  <2>7. ASSUME NEW c \in Conns, Broadcasted(c) \/ Left(c)
        PROVE  \E d \in Conns : Live(d)'
    <3>1. holder' = holder
      BY <2>6, <2>7 DEF Broadcasted, Left
    <3>. QED  BY <2>2, <2>7, <3>1 DEF Broadcasted, Left, Goto, TypeOK
  <2>8. ASSUME NEW c \in Conns, Leave(c)
        PROVE  \E d \in Conns : Live(d)'
    <3>1. holder # user[c] /\ holder' = holder
      BY <2>3, <2>8 DEF Leave, ReleaseIfHolder, Unkey
    <3>. QED  BY <2>2, <2>8, <3>1 DEF Leave, Goto, TypeOK
  <2>9. ASSUME NEW c \in Conns, PttOn(c) \/ PttRekey(c)
        PROVE  \E d \in Conns : Live(d)'
    <3>1. Live(c)'
      BY <2>9 DEF PttOn, PttRekey, Press, Goto, TypeOK
    <3>. QED  BY <3>1
  <2>10. ASSUME NEW c \in Conns, PttOff(c)
         PROVE  FALSE
    BY <2>3, <2>10 DEF PttOff, ReleasePtt, Unkey
  <2>11. ASSUME NEW c \in Conns, PttDenied(c) \/ PttOffIgnored(c) \/ PttOffTail(c)
         PROVE  \E d \in Conns : Live(d)'
    BY <2>2, <2>11 DEF PttDenied, PttOffIgnored, PttOffTail, Press, Unpress
  <2>12. ASSUME NEW c \in Conns, Network(c)
         PROVE  \E d \in Conns : Live(d)'
    BY <2>2, <2>12 DEF Network, Vanish, Reset
  <2>13. ASSUME TailFires \/ CwIdle \/ Keepalive
         PROVE  \E d \in Conns : Live(d)'
    <3>1. holder' = holder
      BY <2>3, <2>6, <2>13 DEF TailFires, ReleasePtt, Unkey, CwIdle, Keepalive
    <3>. QED
      BY <2>1, <2>13, <3>1 DEF TailFires, CwIdle, Keepalive, conn
  <2>14. ASSUME NEW u \in CwUsers, CwDown(u) \/ CwUp(u)
         PROVE  FALSE
    BY <2>3, <2>14 DEF CwDown, CwUp
  <2>15. CASE UNCHANGED vars
    BY <2>1, <2>15 DEF vars, conn
  <2>. QED
    BY <2>4, <2>5, <2>7, <2>8, <2>9, <2>10, <2>11, <2>12, <2>13, <2>14, <2>15
       DEF Next, Message, Handler
<1>. QED  BY <1>1, <1>2, TypeCorrect, PTL DEF Spec

-----------------------------------------------------------------------------
(* Accounts that are logged in once.                                       *)
(*                                                                         *)
(* With one connection to an account, the button that was released is the  *)
(* one that is pressed again, and the single handle of the audio tail is   *)
(* enough: the tail holds the channel, the handle names every armed timer, *)
(* and the rows of transmissions follow the lock.                          *)

Running == {"start_session", "read", "start_tx", "broadcast"}

\* A connection that neither broadcast nor clean-up has dropped.
Live(c) == c \in registered /\ pc[c] \in Running

\* Log-in: who is registered has a running handler, and so has at most one
\* connection of an account.
LoginInv ==
    /\ \A c \in Conns : pc[c] = "new" => user[c] = NoUser
    /\ \A c \in Conns : pc[c] \in Running /\ net[c] # "lost" => c \in registered
    /\ \A c \in registered : pc[c] \in Running \cup {"ending"}
    /\ \A c, d \in Conns :
          user[c] = user[d] /\ user[c] # NoUser
              => c = d \/ pc[c] = "closed" \/ pc[d] = "closed"
    /\ cwTimer \in CwUsers \cup {NoUser}

\* No tail, or one: of an operator who still holds the lock, or of a dead
\* connection after which no voice operator has taken the lock.
TailInv ==
    \/ tails = <<>> /\ ~handle
    \/ /\ handle
       /\ \E t \in Conns :
             /\ tails = <<t>>
             /\ user[t] \in PttUsers
             /\ ~down[t]
             /\ IF Live(t) THEN holder = user[t] ELSE holder \notin PttUsers

\* A voice operator who holds the lock outside a tail is pressing the button.
PressInv ==
    \A c \in Conns :
        holder = user[c] /\ user[c] \in PttUsers /\ Live(c) /\ tails = <<>>
            => down[c]

\* A row is open on the connection that is on the air and on no other, but for
\* the rows of connections found dead.
RowInv ==
    /\ stray = {}
    /\ \A c \in Conns :
          /\ tx[c] \/ pc[c] = "start_tx" => user[c] \in PttUsers
          /\ tx[c] /\ net[c] # "lost" => holder = user[c] /\ pc[c] \in Running
          /\ pc[c] = "start_tx" => ~tx[c] /\ down[c]
          /\ pc[c] = "start_tx" /\ net[c] # "lost" => holder = user[c]

LoginsInv == TypeOK /\ HolderConnected /\ LoginInv /\ TailInv /\ PressInv /\ RowInv

\* One login per account, no amplifier whose fault could refuse a press during
\* the tail, and CW operators who do not press PTT.
OneLogin == ~SharedLogin /\ ~AmpLinked /\ PttUsers \cap CwUsers = {}

-----------------------------------------------------------------------------
(* Lemmas *)

\* Two connections of one account whose handlers both run are the same.
LEMMA SameConn ==
    ASSUME LoginInv, NEW c \in Conns, NEW d \in Conns,
           user[c] = user[d], user[c] # NoUser,
           pc[c] # "closed", pc[d] # "closed"
    PROVE  c = d
BY DEF LoginInv

\* A voice operator whose message is read has no tail of a held lock.
LEMMA HolderHasNoTail ==
    ASSUME LoginsInv, OneLogin, NEW c \in Conns, Unpress(c), holder = user[c]
    PROVE  tails = <<>> /\ ~handle /\ Live(c)
<1>1. c \in registered /\ pc[c] = "read" /\ Live(c)
  BY DEF Unpress, Reading, LoginsInv, LoginInv, Running, Live
<1>2. user[c] \in PttUsers /\ down[c] /\ user[c] # NoUser
  BY BridgeAssumption DEF Unpress
<1>3. ASSUME NEW t \in Conns, user[t] \in PttUsers, ~down[t],
             IF Live(t) THEN holder = user[t] ELSE holder \notin PttUsers
      PROVE  FALSE
  <2>1. Live(t) /\ user[t] = user[c]
    BY <1>2, <1>3
  <2>. QED
    BY <1>1, <1>2, <1>3, <2>1, SameConn DEF Live, Running, LoginsInv
<1>. QED  BY <1>1, <1>3 DEF LoginsInv, TailInv

\* A broadcast, together with a step of the handler that made it.
LEMMA BroadcastStep ==
    ASSUME LoginsInv, OneLogin, NEW reg \in SUBSET registered, Broadcast(reg),
           UNCHANGED <<user, net, down, timers>>,
           \A d \in Conns : /\ pc'[d] \in Running <=> pc[d] \in Running
                            /\ pc'[d] = "start_tx" <=> pc[d] = "start_tx"
                            /\ pc'[d] = "new" => pc[d] = "new"
                            /\ pc[d] = "closed" => pc'[d] = "closed",
           \A d \in registered : d \in reg => pc'[d] \in Running \cup {"ending"},
           \A d \in registered : d \notin reg => pc[d] \notin Running
    PROVE  LoginInv' /\ TailInv' /\ PressInv' /\ RowInv'
<1>. USE BridgeAssumption DEF LoginsInv
<1>1. /\ registered' = {d \in reg : net[d] # "lost"}
      /\ \/ /\ UNCHANGED <<holder, rows>>
            /\ \A d \in reg : net[d] = "lost" => user[d] # holder
         \/ \E d \in reg : /\ net[d] = "lost" /\ user[d] = holder
                           /\ holder' = NoUser /\ EndTx(d)
  BY DEF Broadcast, ReleaseIfHolder, Unkey
<1>2. registered \subseteq Conns
  BY DEF TypeOK
<1>3. LoginInv'
  BY <1>1, <1>2 DEF LoginInv, timers
<1>4. \A d \in Conns : Live(d)' <=> Live(d) /\ net[d] # "lost"
  BY <1>1, <1>2 DEF Live
<1>5. CASE /\ UNCHANGED <<holder, rows>>
           /\ \A d \in reg : net[d] = "lost" => user[d] # holder
  <2>1. \A d \in Conns : Live(d) /\ user[d] = holder => Live(d)'
    BY <1>2, <1>4, <1>5 DEF Live
  <2>2. TailInv'
    BY <1>4, <1>5, <2>1 DEF TailInv, timers
  <2>3. PressInv'
    BY <1>4, <1>5 DEF PressInv, timers
  <2>4. RowInv'
    BY <1>5 DEF RowInv, rows
  <2>. QED  BY <1>3, <2>2, <2>3, <2>4
<1>6. ASSUME NEW e \in reg, net[e] = "lost", user[e] = holder,
             holder' = NoUser, EndTx(e)
      PROVE  TailInv' /\ PressInv' /\ RowInv'
  <2>1. e \in Conns /\ pc[e] # "closed"
    BY <1>2, <1>6 DEF LoginInv, Running
  <2>2. TailInv'
    <3>1. \A d \in Conns : Live(d)' => user[d] # holder \/ holder = NoUser
      BY <1>4, <1>6, <2>1, SameConn DEF Live, Running
    <3>2. NoUser \notin PttUsers
      OBVIOUS
    <3>. QED  BY <1>4, <1>6, <3>1, <3>2 DEF TailInv, timers
  <2>3. PressInv'
    BY <1>6 DEF PressInv
  <2>4. RowInv'
    <3>1. \A d \in Conns :
             holder = user[d] /\ user[d] \in PttUsers /\ pc[d] \in Running
                 => d = e
      BY <1>6, <2>1, SameConn DEF Running
    <3>2. \A d \in Conns : tx'[d] => tx[d] /\ d # e
      BY <1>6, <2>1 DEF EndTx, TypeOK
    <3>3. stray' = stray
      BY <1>6 DEF EndTx
    <3>. QED  BY <1>6, <3>1, <3>2, <3>3 DEF RowInv, Running
  <2>. QED  BY <2>2, <2>3, <2>4
<1>. QED  BY <1>1, <1>3, <1>5, <1>6

\* Log-in is untouched by a step after which the same handlers run.
LEMMA LoginKept ==
    ASSUME TypeOK, LoginInv, UNCHANGED <<user, registered, net, cwTimer>>,
           \A d \in Conns : pc'[d] = pc[d] \/ {pc[d], pc'[d]} \subseteq Running
    PROVE  LoginInv'
<1>1. \A d \in Conns : pc'[d] \in Running <=> pc[d] \in Running
  OBVIOUS
<1>. QED  BY <1>1 DEF LoginInv, Running, TypeOK

\* A step that touches neither the lock nor timers nor rows, of a handler that
\* goes on running and does not reach start_tx.
LEMMA QuietStep ==
    ASSUME LoginsInv,
           UNCHANGED <<holder, registered, user, net, rows, timers>>,
           \A d \in Conns :
              /\ \/ pc'[d] = pc[d]
                 \/ {pc[d], pc'[d]} \subseteq Running /\ pc'[d] # "start_tx"
              /\ (holder = user[d] \/ pc[d] = "start_tx") /\ down[d] => down'[d]
              /\ tails = <<d>> /\ down'[d] => down[d]
    PROVE  LoginInv' /\ TailInv' /\ PressInv' /\ RowInv'
<1>. USE DEF LoginsInv
<1>1. \A d \in Conns : pc'[d] \in Running <=> pc[d] \in Running
  OBVIOUS
<1>2. \A d \in Conns : Live(d)' <=> Live(d)
  BY <1>1 DEF Live
<1>3. LoginInv'
  BY LoginKept DEF timers
<1>4. TailInv'
  BY <1>2 DEF TailInv, timers
<1>5. PressInv'
  BY <1>2 DEF PressInv, timers
<1>6. RowInv'
  BY <1>1 DEF RowInv, rows
<1>. QED  BY <1>3, <1>4, <1>5, <1>6

-----------------------------------------------------------------------------
(* The invariant *)

LEMMA LoginsStep ==
    ASSUME LoginsInv, OneLogin, [Next]_vars, TypeOK', HolderConnected'
    PROVE  LoginsInv'
<1>. DEFINE Goal == LoginInv' /\ TailInv' /\ PressInv' /\ RowInv'
<1>. SUFFICES Goal
  BY DEF LoginsInv
<1>. USE BridgeAssumption DEF LoginsInv
<1>1. ASSUME NEW c \in Conns, NEW u \in Users, Hello(c, u)
      PROVE  Goal
  <2>1. /\ pc[c] = "new" /\ user[c] = NoUser
        /\ \A d \in Conns : user[d] = u => pc[d] = "closed"
    BY <1>1 DEF Hello, OneLogin, LoginInv
  <2>2. \A d \in Conns : d # c => /\ user'[d] = user[d] /\ pc'[d] = pc[d]
                                  /\ down'[d] = down[d]
                                  /\ Live(d)' <=> Live(d)
    BY <1>1 DEF Hello, Goto, Live, TypeOK
  <2>3. /\ user'[c] = u /\ pc'[c] = "start_session" /\ Live(c)'
        /\ registered' = registered \cup {c}
        /\ UNCHANGED <<net, holder, rows, timers>>
    BY <1>1 DEF Hello, Goto, Live, TypeOK, Running, rows
  <2>4. LoginInv'
    <3>1. /\ pc[c] = "new" /\ user[c] = NoUser
          /\ \A d \in Conns : pc'[d] = "new" => user'[d] = NoUser
      BY <2>1, <2>2, <2>3 DEF LoginInv
    <3>2. /\ \A d \in Conns :
                pc'[d] \in Running /\ net'[d] # "lost" => d \in registered'
          /\ \A d \in registered' : pc'[d] \in Running \cup {"ending"}
      BY <2>2, <2>3 DEF LoginInv, Running, TypeOK
    <3>3. \A d, e \in Conns :
             user'[d] = user'[e] /\ user'[d] # NoUser
                 => d = e \/ pc'[d] = "closed" \/ pc'[e] = "closed"
      BY <2>1, <2>2, <2>3 DEF LoginInv
    <3>. QED  BY <2>3, <3>1, <3>2, <3>3 DEF LoginInv, timers
  <2>5. TailInv'
    <3>1. \A t \in Conns : user[t] \in PttUsers => t # c
      BY <2>1
    <3>. QED  BY <2>2, <2>3, <3>1 DEF TailInv, timers
  <2>6. PressInv'
    <3>1. u \in PttUsers => holder # u
      BY <2>1 DEF HolderConnected, OneLogin
    <3>. QED  BY <2>2, <2>3, <3>1 DEF PressInv, timers
  <2>7. RowInv'
    BY <2>1, <2>2, <2>3 DEF RowInv, Running, rows
  <2>. QED  BY <2>4, <2>5, <2>6, <2>7
<1>2. ASSUME NEW c \in Conns, HelloDenied(c)
      PROVE  Goal
  <2>1. /\ pc' = [pc EXCEPT ![c] = "ending"] /\ pc[c] = "new" /\ user[c] = NoUser
        /\ UNCHANGED <<user, registered, net, down, holder, rows, timers>>
    BY <1>2 DEF HelloDenied, Goto, LoginInv
  <2>2. \A d \in Conns : /\ pc'[d] \in Running <=> pc[d] \in Running
                         /\ Live(d)' <=> Live(d)
    BY <2>1 DEF Live, Running, TypeOK
  <2>3. LoginInv'
    BY <2>1, <2>2 DEF LoginInv, Running, timers, TypeOK
  <2>4. TailInv' /\ PressInv'
    BY <2>1, <2>2 DEF TailInv, PressInv, timers
  <2>5. RowInv'
    BY <2>1, <2>2 DEF RowInv, rows, TypeOK
  <2>. QED  BY <2>3, <2>4, <2>5
<1>3. ASSUME NEW c \in Conns, SessionStarted(c)
      PROVE  Goal
  <2>1. UNCHANGED <<holder, registered, user, net, down, rows, timers>>
    BY <1>3 DEF SessionStarted
  <2>2. \A d \in Conns :
           \/ pc'[d] = pc[d]
           \/ {pc[d], pc'[d]} \subseteq Running /\ pc'[d] # "start_tx"
    BY <1>3 DEF SessionStarted, Reply, Goto, TypeOK, Running
  <2>. QED  BY <2>1, <2>2, QuietStep
<1>4. ASSUME NEW c \in Conns, Broadcasted(c)
      PROVE  Goal
  <2>1. Broadcast(registered) /\ pc' = [pc EXCEPT ![c] = "read"] /\ pc[c] = "broadcast"
    BY <1>4 DEF Broadcasted, Goto
  <2>2. \A d \in registered : d \in Conns /\ pc'[d] \in Running \cup {"ending"}
    BY <2>1 DEF LoginInv, Running, TypeOK
  <2>. QED
    BY <1>4, <2>1, <2>2, BroadcastStep DEF Broadcasted, Running, TypeOK
<1>5. ASSUME NEW c \in Conns, Leave(c)
      PROVE  Goal
  <2>1. /\ pc[c] = "read" /\ pc' = [pc EXCEPT ![c] = "ending"] /\ ~Live(c)'
        /\ UNCHANGED <<user, registered, net, down, timers>>
    BY <1>5 DEF Leave, Goto, Live, Running, TypeOK
  <2>2. \A d \in Conns : d # c => (Live(d)' <=> Live(d)) /\ pc'[d] = pc[d]
    BY <2>1 DEF Live, TypeOK
  <2>3. LoginInv'
    BY <2>1, <2>2 DEF LoginInv, Running, timers, TypeOK
  <2>4. CASE holder = user[c]
    <3>1. holder' = NoUser /\ tx' = [tx EXCEPT ![c] = FALSE] /\ stray' = stray
      BY <1>5, <2>4 DEF Leave, ReleaseIfHolder, Unkey, EndTx
    <3>2. \A d \in Conns :
             holder = user[d] /\ user[d] \in PttUsers /\ pc[d] \in Running => d = c
      BY <2>1, <2>4, SameConn DEF Running
    <3>3. TailInv'
      BY <2>1, <2>2, <3>1, <3>2 DEF TailInv, timers, Live
    <3>4. PressInv'
      BY <2>1, <3>1 DEF PressInv
    <3>5. RowInv'
      BY <2>1, <2>2, <3>1, <3>2 DEF RowInv, Running, TypeOK
    <3>. QED  BY <2>3, <3>3, <3>4, <3>5
  <2>5. CASE holder # user[c]
    <3>1. UNCHANGED <<holder, rows>>
      BY <1>5, <2>5 DEF Leave, ReleaseIfHolder
    <3>2. TailInv'
      <4>1. ASSUME NEW t \in Conns, user[t] \in PttUsers,
                   IF Live(t) THEN holder = user[t] ELSE holder \notin PttUsers
            PROVE  IF Live(t)' THEN holder = user[t] ELSE holder \notin PttUsers
        <5>1. CASE t = c
          <6>1. Live(t) => FALSE
            BY <2>5, <4>1, <5>1
          <6>. QED  BY <2>1, <4>1, <5>1, <6>1
        <5>2. CASE t # c
          BY <2>2, <4>1, <5>2
        <5>. QED  BY <5>1, <5>2
      <4>. QED  BY <2>1, <3>1, <4>1 DEF TailInv, timers
    <3>3. PressInv'
      BY <2>1, <2>2, <3>1 DEF PressInv, timers
    <3>4. RowInv'
      BY <2>1, <2>2, <2>5, <3>1 DEF RowInv, rows, Running, TypeOK
    <3>. QED  BY <2>3, <3>2, <3>3, <3>4
  <2>. QED  BY <2>4, <2>5
<1>6. ASSUME NEW c \in Conns, Left(c)
      PROVE  Goal
  <2>1. /\ Broadcast(registered \ {c})
        /\ pc' = [pc EXCEPT ![c] = "closed"] /\ pc[c] = "ending"
    BY <1>6 DEF Left, Goto
  <2>2. \A d \in registered \ {c} : d \in Conns /\ pc'[d] \in Running \cup {"ending"}
    BY <2>1 DEF LoginInv, Running, TypeOK
  <2>3. \A d \in Conns : /\ pc'[d] \in Running <=> pc[d] \in Running
                         /\ pc'[d] = "start_tx" <=> pc[d] = "start_tx"
                         /\ pc'[d] = "new" => pc[d] = "new"
                         /\ pc[d] = "closed" => pc'[d] = "closed"
    BY <2>1 DEF Running, TypeOK
  <2>4. \A d \in registered : d \notin registered \ {c} => pc[d] \notin Running
    BY <2>1 DEF Running
  <2>. QED
    BY <1>6, <2>1, <2>2, <2>3, <2>4, BroadcastStep DEF Left
<1>7. ASSUME NEW c \in Conns, PttDenied(c)
      PROVE  Goal
  <2>1. holder # user[c] /\ Live(c) /\ user[c] \in PttUsers
    BY <1>7 DEF PttDenied, OneLogin, Press, Reading, LoginInv, Live, Running
  <2>2. tails # <<c>>
    BY <2>1 DEF TailInv
  <2>3. /\ UNCHANGED <<pc, holder, registered, user, net, rows, timers>>
        /\ \A d \in Conns : down'[d] = IF d = c THEN TRUE ELSE down[d]
    BY <1>7 DEF PttDenied, Press, TypeOK
  <2>4. \A d \in Conns : /\ down[d] => down'[d]
                         /\ tails = <<d>> /\ down'[d] => down[d]
    BY <2>2, <2>3
  <2>. QED
    BY <2>3, <2>4, QuietStep
<1>8. ASSUME NEW c \in Conns, PttOn(c)
      PROVE  Goal
  <2>1. /\ pc[c] = "read" /\ net[c] = "up" /\ Live(c) /\ ~down[c]
        /\ user[c] \in PttUsers /\ user[c] # NoUser
        /\ tails = <<>> /\ ~handle
    BY <1>8 DEF PttOn, Press, Reading, LoginInv, Live, Running, TailInv
  <2>2. /\ holder = NoUser /\ holder' = user[c]
        /\ pc' = [pc EXCEPT ![c] = "start_tx"]
        /\ down' = [down EXCEPT ![c] = TRUE]
        /\ UNCHANGED <<user, registered, net, rows, timers>>
    BY <1>8, <2>1 DEF PttOn, Press, Goto, PressInv
  <2>3. \A d \in Conns : Live(d)' <=> Live(d)
    BY <2>1, <2>2 DEF Live, Running, TypeOK
  <2>4. LoginInv'
    BY <2>1, <2>2 DEF LoginInv, Running, timers, TypeOK
  <2>5. TailInv'
    BY <2>1, <2>2 DEF TailInv, timers
  <2>6. \A d \in Conns : user[d] = user[c] /\ Live(d) => d = c
    BY <2>1, SameConn DEF Live, Running
  <2>7. PressInv'
    BY <2>1, <2>2, <2>3, <2>6 DEF PressInv, TypeOK
  <2>8. RowInv'
    <3>1. \A d \in Conns : ~(tx[d] /\ net[d] # "lost")
      BY <2>2 DEF RowInv
    <3>2. \A d \in Conns : d # c => ~(pc[d] = "start_tx" /\ net[d] # "lost")
      BY <2>2 DEF RowInv
    <3>. QED  BY <2>1, <2>2, <3>1, <3>2 DEF RowInv, rows, TypeOK
  <2>. QED  BY <2>4, <2>5, <2>7, <2>8
<1>9. ASSUME NEW c \in Conns, TxStarted(c)
      PROVE  Goal
  <2>1. /\ pc[c] = "start_tx" /\ ~tx[c]
        /\ tx' = [tx EXCEPT ![c] = TRUE] /\ stray' = stray
        /\ UNCHANGED <<user, registered, net, down, holder, timers>>
    BY <1>9 DEF TxStarted, RowInv
  <2>2. \A d \in Conns : /\ d # c => pc'[d] = pc[d]
                         /\ pc'[c] \in Running \ {"start_tx"}
    BY <1>9 DEF TxStarted, Reply, Goto, Running, TypeOK
  <2>3. \A d \in Conns : Live(d)' <=> Live(d)
    BY <2>1, <2>2 DEF Live, Running
  <2>4. LoginInv'
    <3>1. \A d \in Conns : pc'[d] = pc[d] \/ {pc[d], pc'[d]} \subseteq Running
      BY <2>1, <2>2 DEF Running
    <3>. QED  BY <2>1, <3>1, LoginKept DEF timers
  <2>5. TailInv' /\ PressInv'
    BY <2>1, <2>3 DEF TailInv, PressInv, timers
  <2>6. RowInv'
    BY <2>1, <2>2 DEF RowInv, Running, TypeOK
  <2>. QED  BY <2>4, <2>5, <2>6
<1>10. ASSUME NEW c \in Conns, PttRekey(c)
       PROVE  Goal
  <2>1. /\ pc[c] = "read" /\ net[c] = "up" /\ Live(c)
        /\ user[c] \in PttUsers /\ user[c] # NoUser
        /\ handle /\ holder \in {NoUser, user[c]} /\ holder' = user[c]
        /\ tails' = SubSeq(tails, 1, Len(tails) - 1) /\ handle' = FALSE
        /\ pc' = [pc EXCEPT ![c] = "broadcast"]
        /\ down' = [down EXCEPT ![c] = TRUE]
        /\ UNCHANGED <<user, registered, net, rows, cwTimer>>
    BY <1>10 DEF PttRekey, Press, Reading, Goto, LoginInv, Live, Running
  <2>2. PICK t \in Conns : tails = <<t>>
    BY <2>1 DEF TailInv
  <2>3. tails' = <<>>
    BY <2>1, <2>2
  <2>4. \A d \in Conns : Live(d)' <=> Live(d)
    BY <2>1 DEF Live, Running, TypeOK
  <2>5. LoginInv'
    BY <2>1 DEF LoginInv, Running, TypeOK
  <2>6. TailInv'
    BY <2>1, <2>3 DEF TailInv
  <2>7. PressInv'
    <3>1. \A d \in Conns : user[d] = user[c] /\ Live(d) => d = c
      BY <2>1, SameConn DEF Live, Running
    <3>. QED  BY <2>1, <2>4, <3>1 DEF PressInv, TypeOK
  <2>8. RowInv'
    BY <2>1 DEF RowInv, rows, Running, TypeOK
  <2>. QED  BY <2>5, <2>6, <2>7, <2>8
<1>11. ASSUME NEW c \in Conns, PttOffIgnored(c)
       PROVE  Goal
  <2>1. /\ holder # user[c] /\ pc[c] = "read"
        /\ UNCHANGED <<pc, holder, registered, user, net, rows, timers>>
        /\ \A d \in Conns : down'[d] = IF d = c THEN FALSE ELSE down[d]
    BY <1>11 DEF PttOffIgnored, Unpress, Reading, TypeOK
  <2>2. \A d \in Conns : /\ (holder = user[d] \/ pc[d] = "start_tx") /\ down[d]
                              => down'[d]
                         /\ tails = <<d>> /\ down'[d] => down[d]
    BY <2>1
  <2>. QED
    BY <2>1, <2>2, QuietStep
<1>12. ASSUME NEW c \in Conns, PttOffTail(c)
       PROVE  Goal
  <2>0. /\ user[c] \in PttUsers /\ holder = user[c]
        /\ tails' = Append(tails, c) /\ handle' = TRUE
        /\ down' = [down EXCEPT ![c] = FALSE]
        /\ UNCHANGED <<pc, user, registered, net, holder, rows, cwTimer>>
    BY <1>12 DEF PttOffTail, Unpress
  <2>a. tails = <<>> /\ Live(c)
    BY <1>12, <2>0, HolderHasNoTail DEF PttOffTail
  <2>1. /\ tails = <<>> /\ Live(c) /\ user[c] \in PttUsers
        /\ holder = user[c] /\ tails' = <<c>> /\ handle' = TRUE
        /\ down' = [down EXCEPT ![c] = FALSE]
        /\ UNCHANGED <<pc, user, registered, net, holder, rows, cwTimer>>
    BY <2>0, <2>a
  <2>2. \A d \in Conns : Live(d)' <=> Live(d)
    BY <2>1 DEF Live
  <2>3. LoginInv' /\ RowInv'
    <3>1. pc[c] = "read"
      BY <1>12 DEF PttOffTail, Unpress, Reading
    <3>2. RowInv'
      BY <2>1, <3>1 DEF RowInv, rows, TypeOK
    <3>3. LoginInv'
      BY <2>1 DEF LoginInv
    <3>. QED  BY <3>2, <3>3
  <2>4. TailInv'
    BY <2>1, <2>2 DEF TailInv, TypeOK
  <2>5. PressInv'
    BY <2>1 DEF PressInv
  <2>. QED  BY <2>3, <2>4, <2>5
<1>13. ASSUME NEW c \in Conns, PttOff(c)
       PROVE  Goal
  <2>1. /\ tails = <<>> /\ Live(c) /\ pc[c] = "read"
        /\ user[c] \in PttUsers /\ user[c] # NoUser
        /\ holder = user[c] /\ holder' = NoUser
        /\ tx' = [tx EXCEPT ![c] = FALSE] /\ stray' = stray
        /\ handle' = FALSE /\ pc' = [pc EXCEPT ![c] = "broadcast"]
        /\ down' = [down EXCEPT ![c] = FALSE]
        /\ UNCHANGED <<tails, user, registered, net, cwTimer>>
    BY <1>13, HolderHasNoTail
       DEF PttOff, Unpress, Reading, ReleasePtt, Unkey, EndTx, Goto
  <2>2. LoginInv'
    BY <2>1 DEF LoginInv, Running, TypeOK
  <2>3. TailInv' /\ PressInv'
    BY <2>1 DEF TailInv, PressInv
  <2>4. RowInv'
    <3>1. \A d \in Conns : user[d] = user[c] /\ pc[d] \in Running => d = c
      BY <2>1, SameConn DEF Running
    <3>. QED  BY <2>1, <3>1 DEF RowInv, Running, TypeOK
  <2>. QED  BY <2>2, <2>3, <2>4
<1>14. ASSUME TailFires
       PROVE  Goal
  <2>1. PICK t \in Conns :
           /\ tails = <<t>> /\ user[t] \in PttUsers /\ ~down[t]
           /\ IF Live(t) THEN holder = user[t] ELSE holder \notin PttUsers
    BY <1>14 DEF TailFires, TailInv
  <2>2. /\ tails' = <<>> /\ handle' = FALSE /\ ReleasePtt(t)
        /\ UNCHANGED <<conn, cwTimer>>
    BY <1>14, <2>1 DEF TailFires
  <2>3. /\ tx' = [tx EXCEPT ![t] = FALSE] /\ stray' = stray
        /\ holder' = IF Live(t) THEN NoUser ELSE holder
    BY <2>1, <2>2 DEF ReleasePtt, Unkey, EndTx
  <2>4. holder' \notin PttUsers
    BY <2>1, <2>3
  <2>5. LoginInv'
    BY <2>2 DEF LoginInv, conn
  <2>6. TailInv'
    BY <2>2 DEF TailInv
  <2>7. PressInv'
    BY <2>2, <2>4 DEF PressInv, conn
  <2>8. RowInv'
    <3>1. \A d \in Conns : Live(t) /\ user[d] = user[t] /\ pc[d] \in Running => d = t
      BY <2>1, SameConn DEF Live, Running
    <3>2. pc[t] # "start_tx"
      BY <2>1 DEF RowInv
    <3>. QED  BY <2>1, <2>2, <2>3, <2>4, <3>1, <3>2 DEF RowInv, Running, conn, TypeOK
  <2>. QED  BY <2>5, <2>6, <2>7, <2>8
<1>15. ASSUME NEW u \in CwUsers, CwDown(u) \/ CwUp(u)
       PROVE  Goal
  <2>1. /\ UNCHANGED <<pc, user, registered, net, down, tx, stray, tails, handle>>
        /\ holder \in {NoUser, u} /\ holder' = u
        /\ cwTimer' \in {NoUser, u} /\ u \notin PttUsers
    BY <1>15 DEF CwDown, CwUp, OneLogin, conn, rows
  <2>2. LoginInv'
    BY <2>1 DEF LoginInv
  <2>3. \A d \in Conns : Live(d)' <=> Live(d)
    BY <2>1 DEF Live
  <2>4. TailInv'
    BY <2>1, <2>3 DEF TailInv
  <2>5. PressInv'
    BY <2>1 DEF PressInv
  <2>6. RowInv'
    BY <2>1 DEF RowInv
  <2>. QED  BY <2>2, <2>4, <2>5, <2>6
<1>16. ASSUME CwIdle
       PROVE  Goal
  <2>1. /\ UNCHANGED <<pc, user, registered, net, down, tx, stray, tails, handle>>
        /\ cwTimer \notin PttUsers /\ cwTimer # NoUser /\ cwTimer' = NoUser
        /\ holder' = IF holder = cwTimer THEN NoUser ELSE holder
    BY <1>16 DEF CwIdle, OneLogin, LoginInv, conn, rows
  <2>2. LoginInv'
    BY <2>1 DEF LoginInv
  <2>3. \A d \in Conns : Live(d)' <=> Live(d)
    BY <2>1 DEF Live
  <2>4. TailInv'
    BY <2>1, <2>3 DEF TailInv
  <2>5. PressInv'
    BY <2>1, <2>3 DEF PressInv
  <2>6. RowInv'
    BY <2>1 DEF RowInv
  <2>. QED  BY <2>2, <2>4, <2>5, <2>6
<1>17. ASSUME Keepalive
       PROVE  Goal
  <2>1. \A d \in registered : d \in Conns /\ pc[d] \in Running \cup {"ending"}
    BY DEF LoginInv, TypeOK
  <2>. QED  BY <1>17, <2>1, BroadcastStep DEF Keepalive
<1>18. ASSUME NEW c \in Conns, Network(c)
       PROVE  Goal
  <2>1. /\ UNCHANGED <<pc, user, registered, down, holder, rows, timers>>
        /\ \A d \in Conns : net[d] = "lost" => net'[d] = "lost"
    BY <1>18 DEF Network, Vanish, Reset, TypeOK
  <2>2. \A d \in Conns : Live(d)' <=> Live(d)
    BY <2>1 DEF Live
  <2>3. LoginInv'
    BY <2>1 DEF LoginInv, timers
  <2>4. TailInv' /\ PressInv'
    BY <2>1, <2>2 DEF TailInv, PressInv, timers
  <2>5. RowInv'
    BY <2>1 DEF RowInv, rows
  <2>. QED  BY <2>3, <2>4, <2>5
<1>19. ASSUME UNCHANGED vars
       PROVE  Goal
  BY <1>19, QuietStep DEF vars, conn
<1>. QED
  BY <1>1, <1>2, <1>3, <1>4, <1>5, <1>6, <1>7, <1>8, <1>9, <1>10, <1>11, <1>12,
     <1>13, <1>14, <1>15, <1>16, <1>17, <1>18, <1>19
     DEF Next, Message, Handler

\* With one log-in per account, the whole invariant holds in every reachable
\* state of the control channel.
THEOREM LoginsCorrect == ASSUME OneLogin PROVE Spec => []LoginsInv
<1>1. Init => LoginsInv
  <2>. SUFFICES ASSUME Init PROVE LoginsInv
    OBVIOUS
  <2>. USE BridgeAssumption
  <2>0. /\ \A c \in Conns : pc[c] = "new" /\ user[c] = NoUser /\ ~tx[c]
        /\ registered = {} /\ stray = {} /\ tails = <<>> /\ ~handle
        /\ holder = NoUser /\ cwTimer = NoUser
    BY DEF Init
  <2>1. TypeOK
    <3>1. <<>> \in Seq(Conns)
      OBVIOUS
    <3>2. pc \in [Conns -> Steps] /\ line \in [Lines -> BOOLEAN]
      BY DEF Init, Steps
    <3>. QED  BY <3>1, <3>2 DEF Init, TypeOK
  <2>2. HolderConnected /\ TailInv /\ PressInv
    BY <2>0 DEF HolderConnected, TailInv, PressInv
  <2>3. LoginInv
    BY <2>0 DEF LoginInv, Running
  <2>4. RowInv
    BY <2>0 DEF RowInv
  <2>. QED  BY <2>1, <2>2, <2>3, <2>4 DEF LoginsInv
<1>2. LoginsInv /\ TypeOK' /\ HolderConnected' /\ [Next]_vars => LoginsInv'
  BY LoginsStep
<1>. QED  BY <1>1, <1>2, TypeCorrect, HolderIsConnected, PTL DEF Spec

\* While a connection's audio tail runs, its user keeps the channel: the delayed
\* un-keying of _handle_ptt never gives the radio to somebody else before the
\* last word is out.
THEOREM TailsHoldChannel == ASSUME OneLogin PROVE Spec => []TailHoldsChannel
<1>1. LoginsInv => TailHoldsChannel
  <2>. SUFFICES ASSUME LoginsInv, NEW i \in DOMAIN tails,
                       tails[i] \in registered, pc[tails[i]] # "ending"
                PROVE  holder = user[tails[i]]
    BY DEF TailHoldsChannel
  <2>1. PICK t \in Conns : /\ tails = <<t>>
                           /\ IF Live(t) THEN holder = user[t]
                                         ELSE holder \notin PttUsers
    BY DEF LoginsInv, TailInv
  <2>2. tails[i] = t
    BY <2>1
  <2>3. Live(t)
    BY <2>2 DEF Live, LoginsInv, LoginInv
  <2>. QED  BY <2>1, <2>2, <2>3
<1>. QED  BY <1>1, LoginsCorrect, PTL

\* The one handle _ptt_release_handle names every armed tail timer, so a press
\* that cancels it leaves none behind that could end the new transmission.
THEOREM HandleNamesTails == ASSUME OneLogin PROVE Spec => []HandleNamesEveryTail
<1>1. LoginsInv => HandleNamesEveryTail
  BY DEF LoginsInv, TailInv, HandleNamesEveryTail
<1>. QED  BY <1>1, LoginsCorrect, PTL

\* An open row of the log of transmissions is that of the user on the air: every
\* path of the code that frees the lock also ends the row.
THEOREM OpenRowsCorrect == ASSUME OneLogin PROVE Spec => []OpenRowsAreOnAir
<1>1. LoginsInv => OpenRowsAreOnAir
  BY DEF LoginsInv, RowInv, OpenRowsAreOnAir
<1>. QED  BY <1>1, LoginsCorrect, PTL
=============================================================================
