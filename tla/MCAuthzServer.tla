--------------------------- MODULE MCAuthzServer ---------------------------
\* Small instances of the authorization server and of its sessions' table.
EXTENDS Authorization, TLC

CONSTANTS t1, t2, reg, d1, d2, d3

Uri(host, https, port, path, fragment) ==
    [host |-> host, https |-> https, port |-> port, path |-> path, fragment |-> fragment]
Cli == Uri("loopback", FALSE, 1, <<"cb">>, FALSE)
Web == Uri("site", TRUE, 0, <<"app", "cb">>, FALSE)

\* A registered loopback application asks on another port; a path leaves the prefix.
MCUris == {[Cli EXCEPT !.port = 2], Web, [Web EXCEPT !.path = <<"app", "..", "cb">>]}

\* A confidential client with ID tokens.
MCConfig == [r \in Registered |-> [uris |-> {}, prefixes |-> {[Web EXCEPT !.path = <<"app">>]},
                                   secret |-> TRUE, idToken |-> TRUE, accessToken |-> TRUE]]

Body(uris, method) == [uris |-> uris, method |-> method, grants |-> {"authorization_code"}]
MCBodies == {Body({Cli}, "none"), Body({[Web EXCEPT !.https = FALSE]}, "none")}

Calling(authorize, consent, token, refresh, register, fault) ==
    [authorize |-> authorize, consent |-> consent, token |-> token, refresh |-> refresh,
     register |-> register, fault |-> fault]
MCBudgets == {Calling(2, 2, 2, 0, 0, 0), Calling(1, 1, 2, 0, 0, 2), Calling(1, 1, 1, 2, 1, 1),
              Calling(1, 0, 0, 0, 3, 2)}
Symmetry == Permutations(Calls) \cup Permutations(Handles) \cup Permutations(Codes)
            \cup Permutations(Browsers) \cup Permutations(Apps)

(* ---------------------------- DatabaseSessions --------------------------- *)
\* A pair from before hashing, in its session if it had one.
Legacy(session) ==
    [n \in 1..2 |-> [session |-> session, family |-> 9, kind |-> <<"access", "refresh">>[n],
                     until |-> 3, ceiling |-> 5, fixed |-> FALSE]]
Asking(in, again, status, list, one, others, out, all, fault) ==
    [login |-> in, refresh |-> again, status |-> status, sessions |-> list,
     revoke |-> one, others |-> others, logout |-> out, revokeAll |-> all, fault |-> fault]
Table(hash, column, patch, sliding, grace, legacy, budgets) ==
    [settings |-> [hash |-> hash, column |-> column, patch |-> patch, sliding |-> sliding, grace |-> grace],
     legacy |-> legacy, budgets |-> budgets]
MCTables ==
    {Table("off", FALSE, FALSE, TRUE, 1, <<>>,
           {Asking(1, 2, 0, 0, 1, 0, 0, 0, 0), Asking(1, 1, 1, 0, 0, 0, 1, 0, 1)}),
     Table("migrate", TRUE, TRUE, FALSE, 1, Legacy(0),
           {Asking(0, 2, 0, 0, 1, 0, 0, 0, 0), Asking(0, 1, 0, 1, 0, 1, 0, 0, 0),
            Asking(0, 2, 0, 0, 0, 0, 0, 1, 0)}),
     Table("on", TRUE, FALSE, TRUE, 0, Legacy(8),
           {Asking(1, 2, 0, 0, 0, 0, 0, 0, 0), Asking(1, 1, 0, 0, 0, 1, 0, 1, 0)})}

(* --------------------------------- Bounds -------------------------------- *)
\* The server starts one way while the table is what the behaviour is about.
MCInit == ServerInit /\ (start = "sessions" => budget = Calling(1, 0, 0, 0, 3, 2))
MCSpec == MCInit /\ [][ServerNext]_serverVars
=============================================================================
