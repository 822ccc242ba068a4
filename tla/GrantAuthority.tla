---------------------------- MODULE GrantAuthority ----------------------------
(***************************************************************************)
(* What the authorization server promises, without stores, cookies, awaits *)
(* or failures.  An application asks through a browser.  Every answer is a *)
(* code for one user who was at that browser, and a code is turned into    *)
(* tokens once, for the application and the client id that asked.          *)
(***************************************************************************)
CONSTANTS Handles, Codes, Users, Apps, Browsers, ClientIds, None

VARIABLES asked, granted, redeemed

Init ==
    /\ asked = [h \in Handles |-> None]
    /\ granted = [n \in Codes |-> None]
    /\ redeemed = [n \in Codes |-> None]

\* GET /auth/authorize
Ask(h) ==
    /\ asked[h] = None
    /\ \E app \in Apps, client \in ClientIds, browser \in Browsers :
          asked' = [asked EXCEPT ![h] = [app |-> app, client |-> client, browser |-> browser]]
    /\ UNCHANGED <<granted, redeemed>>

\* The user consented and a code was minted.
Grant(n) ==
    /\ granted[n] = None
    /\ \E h \in Handles, user \in Users :
          /\ asked[h] # None
          /\ granted' = [granted EXCEPT ![n] = [handle |-> h, user |-> user, browser |-> asked[h].browser]]
    /\ UNCHANGED <<asked, redeemed>>

\* POST /auth/token
Redeem(n) ==
    /\ granted[n] # None /\ redeemed[n] = None
    /\ redeemed' = [redeemed EXCEPT ![n] =
          [app |-> asked[granted[n].handle].app, client |-> asked[granted[n].handle].client, times |-> 1]]
    /\ UNCHANGED <<asked, granted>>

Next == (\E h \in Handles : Ask(h)) \/ (\E n \in Codes : Grant(n) \/ Redeem(n))

Spec == Init /\ [][Next]_<<asked, granted, redeemed>>
=============================================================================
