---------------------------- MODULE SessionAuthority ----------------------------
(***************************************************************************)
(* What AuthCredential promises about sessions, without rows, rotation,    *)
(* sweeps or failures.  Clients hold usable tokens, each of one session.   *)
(* A session can be closed, and that is final: closing leaves none of its  *)
(* tokens usable, and none becomes usable later.  Any token may stop being *)
(* usable at any time (expiry, logout, a revocation half way).             *)
(***************************************************************************)
CONSTANTS Token, Session

VARIABLES usable, closed

Init == usable = {} /\ closed = {}

\* issue() or refresh() replies with tokens of one session.
Grant ==
    \E s \in Session \ closed :
        /\ usable \subseteq usable'
        /\ usable' \ usable \subseteq Token \X {s}
        /\ UNCHANGED closed

Lapse ==
    /\ usable' \subseteq usable
    /\ UNCHANGED closed

\* A revocation returns.
Close ==
    /\ closed \subseteq closed'
    /\ closed' \subseteq Session
    /\ \A u \in usable : u[2] \notin closed' \ closed
    /\ UNCHANGED usable

Next == Grant \/ Lapse \/ Close

Spec == Init /\ [][Next]_<<usable, closed>>
=============================================================================
