----------------------------- MODULE UserDevices -----------------------------
(***************************************************************************)
(* What UserService keeps of an account besides its sign-in state (module  *)
(* UserAccount): the devices that are trusted to skip the second factor,   *)
(* the ledger of devices seen before, the password with its history, and   *)
(* the snapshots of the row that requests of this process share.           *)
(*                                                                         *)
(* Every write of the service goes through observeWrites: the write epoch  *)
(* moves when the call to the store begins and when it has ended, however  *)
(* it ends, and in between the write lands.  withCas is one such call,     *)
(* with up to MaxAttempts reads and conditional writes inside.             *)
(* A token is the number of its record: its signature holds for the user,  *)
(* the kind of record and, for a trusted device, the address it was minted *)
(* with, and for nothing else.                                             *)
(***************************************************************************)
EXTENDS Integers, Sequences, FiniteSets, SequencesExt, SeenDevices

CONSTANTS
    Call,         \* slots for calls in flight
    Scopes,       \* requests that share a snapshot
    Setups,       \* deployments: [ops, addresses, historyLength, cap, ttl], and the calls they get
    MaxAttempts,  \* withCas maxAttempts (2 in the code)
    MaxFailures,  \* bound: store operations that reject
    MaxPassword,  \* bound: the passwords there are
    MaxTime       \* bound: the clock

VARIABLES
    setup,        \* the deployment: constant
    row,          \* the account: [version, trusted, seen, hash, past]
    minted,       \* the device records minted: [kind, ip]
    epoch,        \* writeEpoch
    kept,         \* the snapshot of each scope
    call, now,
    events, failures,
    done,         \* ghost: the version of the last write that was reported done
    revoked,      \* ghost: devices whose revocation was reported, none other overlapping it
    worn,         \* ghost: the passwords of the account, in order
    apart         \* ghost: no two changes of the password have overlapped

vars == <<setup, row, minted, epoch, kept, call, now, events, failures, done, revoked, worn, apart>>
ghosts == <<done, revoked, worn, apart>>

\* A deployment keeps some number of past passwords and of seen devices, either of
\* which may be 0, and remembers a device for some time.
DeploymentsHold == \A s \in Setups : s.historyLength \in Nat /\ s.cap \in Nat /\ s.ttl \in Nat

Idle == [op |-> "none", at |-> "idle", device |-> 0, list |-> <<>>, hash |-> 0, past |-> <<>>,
         version |-> 0, attempt |-> 1, wrote |-> 0, dead |-> {}, calm |-> TRUE]
NoSnapshot == [at |-> "none", epoch |-> 0, version |-> 0]

At(c, label) == call[c].at = label
Goes(c, k) == call' = [call EXCEPT ![c] = k]
Serves(op) == op \in setup.ops
Happens == events < setup.events /\ events' = events + 1
Running(op) == {c \in Call : call[c].op = op}

(* -------------------------- Writes and the epoch ------------------------ *)
\* hooks.start() runs with the call, before the store sees it.
Starts(c, k) == Goes(c, k) /\ epoch' = epoch + 1

\* Mutant: the epoch moves at the start of a write only.
EndsQuietly == UNCHANGED epoch
\* hooks.end()
Ends == epoch' = epoch + 1

Applied(r) == [r EXCEPT !.version = @ + 1]
Record(kind, ip) == [id |-> Len(minted) + 1, ip |-> ip, until |-> now + setup.ttl]
MintDeviceRecord(kind, ip) == minted' = Append(minted, [kind |-> kind, ip |-> ip])

(* ------------------------------ The calls ------------------------------- *)
\* issueTrustedDevice, then addTrustedDevice.
Trust(c) ==
    /\ Serves("trust") /\ At(c, "idle") /\ Happens
    /\ \E ip \in setup.addresses :
          /\ MintDeviceRecord("trusted", ip)
          /\ Starts(c, [Idle EXCEPT !.op = "trust", !.at = "read", !.list = <<Record("trusted", ip)>>])
    /\ UNCHANGED <<setup, row, kept, now, failures, ghosts>>

\* revokeTrustedDevice reads outside of any write and writes the rest of the
\* list back, whatever the row has become.
RevokeTrustedDevice(c, d) ==
    /\ Serves("distrust") /\ At(c, "idle") /\ d \in Ids(row.trusted) /\ Happens
    /\ epoch' = epoch + 1
    /\ call' = [p \in Call |->
          IF p = c THEN [Idle EXCEPT !.op = "distrust", !.at = "write", !.device = d,
                                     !.list = Without(row.trusted, d),
                                     !.calm = Running("distrust") = {}]
          ELSE [call[p] EXCEPT !.calm = @ /\ call[p].op # "distrust"]]
    /\ UNCHANGED <<setup, row, minted, kept, now, failures, ghosts>>

\* device-recognition of a sign-in from the browser that keeps token d (0:
\* none): the record is found and slides, or a new one is added.
DeviceRecognition(c, d) ==
    /\ Serves("recognize") /\ At(c, "idle") /\ Happens
    /\ IF d = 0
       THEN /\ MintDeviceRecord("seen", "")
            /\ Starts(c, [Idle EXCEPT !.op = "see", !.at = "read", !.list = <<Record("seen", "")>>])
       ELSE /\ UNCHANGED minted
            /\ Starts(c, [Idle EXCEPT !.op = "slide", !.at = "read", !.device = d])
    /\ UNCHANGED <<setup, row, kept, now, failures, ghosts>>

\* revokeSeenDevices, as when a password was changed.
RevokeSeenDevices(c) ==
    /\ Serves("forget") /\ At(c, "idle") /\ Happens
    /\ Starts(c, [Idle EXCEPT !.op = "forget", !.at = "write"])
    /\ UNCHANGED <<setup, row, minted, kept, now, failures, ghosts>>

\* Mutant: the history keeps the oldest passwords.
HistoryOldest(r) == SubSeq(Append(r.past, r.hash), 1, Min({setup.historyLength, Len(r.past) + 1}))
History(r) == SubSeq(<<r.hash>> \o r.past, 1, Min({setup.historyLength, Len(r.past) + 1}))

\* checkPolicies, as the deployment's list of passwords decides it.
PassesPolicies(new) == new \in setup.passwords

\* changePassword and setPassword, up to the write: the new password passes the
\* policies and is not the one of the row just read, nor in its history.  Of the
\* current password, which changePassword compares with the same row, nothing
\* is left at the write.
ApplyPasswordChange(c, new) ==
    /\ Serves("password") /\ At(c, "idle") /\ Happens
    /\ PassesPolicies(new) /\ new \notin {row.hash} \cup ToSet(row.past)
    /\ Starts(c, [Idle EXCEPT !.op = "password", !.at = "write", !.hash = new, !.past = History(row)])
    /\ apart' = (apart /\ Running("password") = {})
    /\ UNCHANGED <<setup, row, minted, kept, now, failures, done, revoked, worn>>

\* A plain write of something else: the default factor, autoSend, the address.
WriteElse(c) ==
    /\ Serves("other") /\ At(c, "idle") /\ Happens
    /\ Starts(c, [Idle EXCEPT !.op = "other", !.at = "write"])
    /\ UNCHANGED <<setup, row, minted, kept, now, failures, ghosts>>

(* ------------------------------ Plain writes ---------------------------- *)
Written(k, r) ==
    CASE k.op = "distrust" -> [r EXCEPT !.trusted = k.list]
      [] k.op = "forget" -> [r EXCEPT !.seen = <<>>]
      [] k.op = "password" -> [r EXCEPT !.hash = k.hash, !.past = k.past]
      [] k.op = "other" -> r

Update(c) ==
    LET k == call[c] IN
    /\ At(c, "write")
    /\ row' = Applied(Written(k, row))
    /\ Goes(c, [k EXCEPT !.at = "end", !.wrote = row'.version,
                         !.dead = CASE k.op = "distrust" -> {k.device}
                                    [] k.op = "forget" -> Ids(row.seen)
                                    [] OTHER -> {}])
    /\ worn' = IF k.op = "password" THEN Append(worn, k.hash) ELSE worn
    /\ UNCHANGED <<setup, minted, epoch, kept, now, events, failures, done, revoked, apart>>

(* -------------------------------- withCas ------------------------------- *)
\* The list the mutator makes of the row, or none at all.
Mutator(k, r) ==
    CASE k.op = "trust" -> {r.trusted \o k.list}
      [] k.op = "see" -> {AddSeen(r.seen, k.list[1], setup.cap, now)}
      [] k.op = "slide" -> IF k.device \in Ids(Unexpired(r.seen, now))
                          THEN {Slid(r.seen, k.device, now + setup.ttl)} ELSE {}

CasRead(c) ==
    LET k == call[c] IN
    /\ At(c, "read")
    /\ IF Mutator(k, row) = {} THEN Goes(c, [k EXCEPT !.at = "end"])
       ELSE \E list \in Mutator(k, row) :
               Goes(c, [k EXCEPT !.at = "cas", !.version = row.version, !.past = list])
    /\ UNCHANGED <<setup, row, minted, epoch, kept, now, events, failures, ghosts>>

\* Mutant: the write does not ask for the version that was read.
CasAlwaysApplies(k) == TRUE
CasApplies(k) == row.version = k.version

CasWrite(c) ==
    LET k == call[c] IN
    /\ At(c, "cas")
    /\ IF CasApplies(k)
       THEN /\ row' = Applied(IF k.op = "trust" THEN [row EXCEPT !.trusted = k.past]
                                                ELSE [row EXCEPT !.seen = k.past])
            /\ Goes(c, [k EXCEPT !.at = "end", !.wrote = row'.version])
       ELSE /\ UNCHANGED row
            /\ Goes(c, IF k.attempt < MaxAttempts
                       THEN [k EXCEPT !.at = "read", !.attempt = @ + 1, !.past = <<>>, !.version = 0]
                       ELSE [k EXCEPT !.at = "end"])                  \* CAS_EXHAUSTED
    /\ UNCHANGED <<setup, minted, epoch, kept, now, events, failures, ghosts>>

\* The write is over.  A token that was not recognised gets a new record.
End(c) ==
    LET k == call[c] IN
    /\ At(c, "end")
    /\ Ends
    /\ done' = Max({done, k.wrote})
    /\ revoked' = revoked \cup (IF k.calm THEN k.dead ELSE {})
    /\ IF k.op = "slide" /\ k.version = 0
       THEN Goes(c, [Idle EXCEPT !.at = "unknown"])
       ELSE Goes(c, Idle)
    /\ UNCHANGED <<setup, row, minted, kept, now, events, failures, worn, apart>>

Unrecognized(c) ==
    /\ At(c, "unknown")
    /\ MintDeviceRecord("seen", "")
    /\ Starts(c, [Idle EXCEPT !.op = "see", !.at = "read", !.list = <<Record("seen", "")>>])
    /\ UNCHANGED <<setup, row, kept, now, events, failures, ghosts>>

\* The store rejects: the finally block still ends the write.
Fail(c) ==
    /\ At(c, "read") \/ At(c, "write") \/ At(c, "cas")
    /\ failures < MaxFailures /\ failures' = failures + 1
    /\ Goes(c, [Idle EXCEPT !.at = "end"])
    /\ UNCHANGED <<setup, row, minted, epoch, kept, now, events, ghosts>>

(* ------------------------------- Snapshots ------------------------------ *)
Hit(s) == kept[s].at # "none" /\ kept[s].epoch = epoch

\* getUserSnapshot: a hit shares the read, also one still under way.
GetUserSnapshot(s) ==
    /\ Serves("snapshot") /\ ~Hit(s)
    /\ kept' = [kept EXCEPT ![s] = [at |-> "asked", epoch |-> epoch, version |-> 0]]
    /\ UNCHANGED <<setup, row, minted, epoch, call, now, events, failures, ghosts>>

SnapshotReads(s) ==
    /\ kept[s].at = "asked"
    /\ kept' = [kept EXCEPT ![s].at = "read", ![s].version = row.version]
    /\ UNCHANGED <<setup, row, minted, epoch, call, now, events, failures, ghosts>>

SnapshotFails(s) ==
    /\ kept[s].at = "asked" /\ failures < MaxFailures /\ failures' = failures + 1
    /\ kept' = [kept EXCEPT ![s] = NoSnapshot]
    /\ UNCHANGED <<setup, row, minted, epoch, call, now, events, ghosts>>

(* ----------------------------- Specification ---------------------------- *)
Tick ==
    /\ now < MaxTime /\ Serves("recognize") /\ now' = now + 1
    /\ UNCHANGED <<setup, row, minted, epoch, kept, call, events, failures, ghosts>>

Init ==
    /\ setup \in Setups
    /\ row = [version |-> 0, trusted |-> <<>>, seen |-> <<>>, hash |-> 1, past |-> <<>>]
    /\ minted = <<>> /\ epoch = 0 /\ now = 0 /\ events = 0 /\ failures = 0
    /\ kept = [s \in Scopes |-> NoSnapshot]
    /\ call = [c \in Call |-> Idle]
    /\ done = 0 /\ revoked = {} /\ worn = <<1>> /\ apart = TRUE

Next ==
    \/ \E c \in Call :
          \/ Trust(c) \/ RevokeSeenDevices(c) \/ WriteElse(c)
          \/ Update(c) \/ CasRead(c) \/ CasWrite(c) \/ End(c) \/ Unrecognized(c) \/ Fail(c)
          \/ \E d \in 1 .. Len(minted) : RevokeTrustedDevice(c, d)
          \/ \E d \in 0 .. Len(minted) : DeviceRecognition(c, d)
          \/ \E new \in 1 .. MaxPassword : ApplyPasswordChange(c, new)
    \/ \E s \in Scopes : GetUserSnapshot(s) \/ SnapshotReads(s) \/ SnapshotFails(s)
    \/ Tick

Spec == Init /\ [][Next]_vars

(* ------------------------------ Properties ------------------------------ *)
\* verifyTrustedDevice and verifySeenDevice, for the token of record d.
VerifyTrustedDevice(d, ip) ==
    /\ minted[d] = [kind |-> "trusted", ip |-> ip]
    /\ \E i \in DOMAIN row.trusted :
          LET r == row.trusted[i] IN r.id = d /\ r.until > now /\ r.ip \in {"", ip}
VerifySeenDevice(d) == minted[d].kind = "seen" /\ d \in Ids(Unexpired(row.seen, now))

\* A device whose trust or whose record in the ledger was revoked is not known
\* again, whatever sign-ins add or slide at that moment.  Two overlapping
\* revocations of trusted devices write back each other's device: of those
\* nothing is said.
RevokedIsUnknown ==
    \A d \in revoked : ~VerifySeenDevice(d) /\ \A ip \in setup.addresses : ~VerifyTrustedDevice(d, ip)

\* And the ledger loses no record that has not expired, but to a revocation of
\* all of them or to as many records that end later as it may have.
LedgerKeeps ==
    \A i \in DOMAIN row.seen :
        LET r == row.seen[i] IN
        r.until > now /\ r.id \notin Ids(row'.seen) /\ row'.seen # <<>> =>
            /\ Len(row'.seen) = setup.cap
            /\ \A j \in DOMAIN row'.seen : row'.seen[j].until >= r.until

\* Both: no step brings a revoked device back or drops one that is in use.
DevicesAreKept == [][RevokedIsUnknown' /\ LedgerKeeps]_vars

\* While changes of the password do not overlap, a password is none of the
\* historyLength + 1 before it.
PasswordsAreFresh ==
    apart => \A i, j \in DOMAIN worn :
                i < j /\ j - i <= setup.historyLength + 1 => worn[i] # worn[j]

\* A snapshot that a request may still be served was read after every write of
\* this process that had been reported done by then.
SnapshotsAreCurrent ==
    \A s \in Scopes : Hit(s) /\ kept[s].at = "read" => kept[s].version >= done
=============================================================================
