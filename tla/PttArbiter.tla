----------------------------- MODULE PttArbiter -----------------------------
(***************************************************************************)
(* The per-radio PTT lock of server/ptt_arbiter.py: a lock and not a       *)
(* queue, so a second user's request is rejected while one user holds it.  *)
(* It is also the abstract specification that RadioBridge implements: what *)
(* the arbiter promises its callers is that the radio passes from one user *)
(* to the next only through a moment in which nobody holds it.             *)
(***************************************************************************)
CONSTANTS Users,    \* the user names the server may see
          NoUser    \* Python's None, no user's name

VARIABLE holder

Init == holder = NoUser

\* acquire(username) returned; taking a lock one already holds is a no-op.
Acquire(u) == /\ holder \in {NoUser, u}
              /\ holder' = u

\* release(username) by the holder; by anyone else it is a no-op.
Release(u) == /\ holder = u
              /\ holder' = NoUser

Next == \E u \in Users : Acquire(u) \/ Release(u)

Spec == Init /\ [][Next]_holder
=============================================================================
