-------------------------------- MODULE Accounts --------------------------------
\* What UserService keeps of an account: its sign-in state (UserAccount) and, as a
\* state of its own, the devices, the password and the snapshots (UserDevices).
\* `start` says which of them this behaviour is about; the other stays as it begins,
\* or its variables `Off`.
EXTENDS UserAccount

CONSTANTS Off, DeviceCalls, Scopes, DeviceSetups, MaxFailures, MaxPassword, MaxTime

VARIABLE start   \* constant

(* ------------------------------ UserDevices ------------------------------ *)
VARIABLES setup, account, minted, epoch, kept, busy, now, events, failures, done, gone, worn, apart
deviceVars == <<setup, account, minted, epoch, kept, busy, now, events, failures, done, gone, worn, apart>>

Devices == INSTANCE UserDevices WITH
    row <- account, call <- busy, revoked <- gone, Call <- DeviceCalls, Setups <- DeviceSetups

ASSUME DeviceAssumption == Devices!DeploymentsHold

DevicesOff ==
    /\ setup = Off /\ account = Off /\ minted = Off /\ epoch = Off /\ kept = Off /\ busy = Off
    /\ now = Off /\ events = Off /\ failures = Off /\ done = Off /\ gone = Off /\ worn = Off
    /\ apart = Off

(* ------------------------------- One of them ----------------------------- *)
AccountsInit ==
    /\ Init
    /\ \/ start = (IF row = Member THEN "member" ELSE "invited") /\ DevicesOff
       \/ start = "devices" /\ row = Member /\ Devices!Init

AccountsNext ==
    \/ /\ start # "devices" /\ Next
       /\ UNCHANGED <<start, deviceVars>>
    \/ /\ start = "devices" /\ Devices!Next
       /\ UNCHANGED <<start, vars>>

accountsVars == <<vars, start, deviceVars>>
AccountsSpec == AccountsInit /\ [][AccountsNext]_accountsVars

(* ------------------------------- Properties ------------------------------ *)
\* UserDevices: no step brings a revoked device back or drops one in use.
DevicesAreKept ==
    [][start = "devices" => Devices!RevokedIsUnknown' /\ Devices!LedgerKeeps]_deviceVars

\* UserDevices: the password is none of those the history should remember.
PasswordsAreFresh == start = "devices" => Devices!PasswordsAreFresh

\* UserDevices: a shared snapshot is no older than what was reported written.
SnapshotsAreCurrent == start = "devices" => Devices!SnapshotsAreCurrent
=============================================================================
