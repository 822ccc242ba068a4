------------------------------ MODULE Authorization ------------------------------
\* Two services that share nothing: the authorization server (AuthzServer) and the
\* table its sessions are kept in (DatabaseSessions).  `start` says which one this
\* behaviour is about; the other stays in its first state, or its variables `Off`.
EXTENDS AuthzServer

CONSTANTS Off, Requests, Tables, AccessTtl, RefreshTtl, MaxTokens, MaxTime, MaxPasses

VARIABLE start   \* constant

(* ---------------------------- DatabaseSessions --------------------------- *)
VARIABLES setup, now, minted, rows, held, call, left, ended
tableVars == <<setup, now, minted, rows, held, call, left, ended>>

Sessions == INSTANCE DatabaseSessions WITH Call <- Requests, Setups <- Tables, token <- minted

ASSUME SetupAssumption == Sessions!SetupsHold

TableOff ==
    /\ setup = Off /\ now = Off /\ minted = Off /\ rows = Off /\ held = Off /\ call = Off
    /\ left = Off /\ ended = Off

(* ------------------------------- One of them ----------------------------- *)
ServerInit ==
    /\ Init
    /\ \/ start = "grants" /\ TableOff
       \/ start = "sessions" /\ Sessions!Init
ServerNext ==
    /\ UNCHANGED start
    /\ \/ start = "grants" /\ Next /\ UNCHANGED tableVars
       \/ start = "sessions" /\ Sessions!Next /\ UNCHANGED vars
serverVars == <<start, vars, tableVars>>
ServerSpec == ServerInit /\ [][ServerNext]_serverVars

(* ------------------------------- Properties ------------------------------ *)
\* DatabaseSessions: no row of a revoked session that a client has a token of opens it.
EndedSessionsStayOut == start = "sessions" => Sessions!EndedSessionsStayOut
\* DatabaseSessions: a request is let in by a token, never by the id it was shown.
CallersAreKnown == start = "sessions" => Sessions!CallersAreKnown
\* DatabaseSessions: no rotation outlives the end its login gave the session.
RowsKeepTheirTerms == start = "sessions" => Sessions!RowsKeepTheirTerms
=============================================================================
