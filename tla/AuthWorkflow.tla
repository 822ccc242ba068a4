---------------------------- MODULE AuthWorkflow ----------------------------
(***************************************************************************)
(* The six workflows of auth-moost (login, invite, recovery,               *)
(* change-password, add-mfa, signup) over ONE account, the one the typed   *)
(* e-mail address names.  A request is a sequence of steps; any number of  *)
(* paused states, replays included, race each other and what administrators*)
(* and other tabs do to the account.                                       *)
(*                                                                         *)
(* Left out: wording and form layout, the steps that only notify or call a *)
(* hook, the sms channel (as e-mail), code expiry and resend cool-downs    *)
(* (they only turn a submit into the same form again).                     *)
(***************************************************************************)
EXTENDS WfTrigger, WorkflowSchemas, Integers

CONSTANTS Policies,      \* deployments: settings, starting account, and the
                         \* bounds on runs, resumes and changes elsewhere
          MaxTries,      \* mfa.pincodeMaxAttempts, per code
          MaxFailures,   \* mfa.pincodeMaxFailures, per target
          MaxCodes       \* bound: codes sent

(* ----------------------------- Deployments ------------------------------ *)
Settings == {"linkLogin", "silentAuthz", "silentMfa", "ensureEmail", "skipsMfa", "deviceTrust",
             "risk", "sessionLimit", "selfService"}
Transports == {"email", "totp"}
Account == [id : Nat, active : BOOLEAN, locked : BOOLEAN, pw : Nat, initial : BOOLEAN,
            factors : SUBSET Transports, pending : BOOLEAN, nonce : Nat, terms : BOOLEAN,
            trusted : BOOLEAN, idp : BOOLEAN, born : Nat]
Deployment == [mfa : {"disabled", "optional", "required"}, has : SUBSET Settings,
               transports : SUBSET Transports, recovery : {"magicLink", "otp", "choice"},
               durable : BOOLEAN, start : Account, live : BOOLEAN,
               starts : SUBSET (Flows \X SUBSET {"authz", "idpInbound", "autoLogin"}),
               edits : SUBSET {"password", "lock", "deactivate", "renew", "revoke"},
               left : [runs : Nat, resumes : Nat, edits : Nat]]

ASSUME PoliciesAssumption == \A p \in Policies : p \in Deployment /\ p.start.id <= p.start.born
ASSUME RequestsAssumption == IsFiniteSet(Requests) /\ Requests # {}
ASSUME LimitsAssumption == MaxTries \in Nat /\ MaxFailures \in Nat /\ MaxRestores \in Nat

VARIABLES acct,          \* the account row
          codes,         \* per code sent: its binding and its counters in the shadow store
          failures,      \* per target: the wrong codes counted against it
          live,          \* the account has a live session
          log            \* ghost: what the requests did, and on which proofs

vars == <<paused, req, policy, left, acct, codes, failures, live, log>>

Unset == -1
None == "none"
Given(fact, holds) == IF holds THEN {fact} ELSE {}

(* ------------------------------ The context ----------------------------- *)
\* is: the flags set; by: the proofs this run collected.  Nothing secret is in
\* a context: a code is the id of its counters, known by its digest only.
Fresh(flow, flags) ==
    [flow |-> flow, strat |-> "encapsulated", sub |-> 0, stamp |-> Unset, form |-> Unset,
     pin |-> 0, nonce |-> 0, cand |-> 0, method |-> None, all |-> {}, enroll |-> None,
     candidates |-> {}, op |-> None, is |-> flags, by |-> {}]

With(c, flags) == [c EXCEPT !.is = @ \cup flags]
Without(c, flags) == [c EXCEPT !.is = @ \ flags]
Proved(c, proof) == [c EXCEPT !.by = @ \cup {proof}]
Verified(c, proof) == With(Proved(c, proof), {"otp"})
Aborted(c) == With(c, {"aborted"})

\* What the conditions of the schemas can ask of a context.
Facts(c) ==
    c.is \cup Given("sub", c.sub # 0) \cup Given("pin", c.pin # 0)
         \cup Given("passwordStamp", c.stamp # Unset)
         \cup Given("method", c.method # None) \cup Given("emailMethod", c.method = "email")
         \cup Given("totpMethod", c.method = "totp") \cup Given("many", Cardinality(c.all) > 1)
         \cup Given("enrolled", c.all # {}) \cup Given("enrolling", c.enroll # None)
         \cup Given("enrollTotp", c.enroll = "totp") \cup Given("acting", c.op # None)
         \cup Given("removing", c.op = "remove")
         \cup Given("canEnroll", c.op = "replace" \/ c.candidates # {})
         \cup Given("mfa", policy.mfa # "disabled") \cup policy.has

RunsFor(e, facts) == facts \cap (e.when \cup e.unless) = e.when

\* Where the engine's own word stands in a schema (0: nowhere).
Place(schema, word) ==
    LET at == {j \in DOMAIN schema : schema[j].step = word}
    IN  IF at = {} THEN 0 ELSE CHOOSE j \in at : TRUE
Opens == [f \in Flows |-> Place(Schema[f], "while")]
Closes == [f \in Flows |-> Place(Schema[f], "again")]

\* The engine: from position i, where the run next executes a step (0: the run
\* is over).  No flow has more than one loop.
NextIn(schema, facts, opens, closes, i) ==
    LET Due(j) == RunsFor(schema[j], facts)
        Stops(j) == schema[j].step \notin {"while", "again"} /\ Due(j)
        Quiet(m, n) == \A j \in m..n : ~Stops(j)
        First(m, n) == {j \in m..n : Stops(j) /\ Quiet(m, j - 1)}
        Outside(m) == IF Quiet(m, Len(schema)) THEN {0} ELSE First(m, Len(schema))
        Inside(m, n) == IF \E j \in First(m, n) : schema[j].step = "leave" THEN Outside(closes + 1)
                        ELSE First(m, n)
        Round == IF Due(opens) THEN Inside(opens + 1, closes - 1) ELSE Outside(closes + 1)
        last == (IF i < opens THEN opens ELSE closes) - 1
        ends == IF i > closes THEN Outside(i) ELSE IF Quiet(i, last) THEN Round ELSE Inside(i, last)
    IN  {IF j # 0 /\ schema[j].step = "break" THEN 0 ELSE j : j \in ends}
Follow(c, i) == NextIn(Schema[c.flow], Facts(c), Opens[c.flow], Closes[c.flow], i)

(* --------------------------- A request's steps -------------------------- *)
Ctx(q) == req[q].c
Runs(q, step) == At(q, Schema, step) /\ req[q].phase = "enter"
Resumes(q, phase) == req[q] # Idle /\ req[q].phase = phase
Submitted(q) == req[q].input

Go(q, c) == \E d \in {c} : \E j \in Follow(d, req[q].at + 1) : Advance(q, d, j)
Ask(q) == Persist(q, Ctx(q))      \* the form, or the form again with an error

\* The account as the request sees it.
Absent == [id |-> 0, active |-> FALSE, locked |-> FALSE, pw |-> 0, initial |-> TRUE, factors |-> {},
           pending |-> FALSE, nonce |-> 0, terms |-> FALSE, trusted |-> FALSE, idp |-> FALSE,
           born |-> 0]
Found(c) == acct.id # 0 /\ acct.id = c.sub
\* Mutant: the lock is not looked at.
IsActive == acct.id # 0 /\ acct.active

CanSignIn == acct.id # 0 /\ acct.active /\ ~acct.locked
\* Mutant: the link's nonce is not compared.
InviteeExists(c) == Found(c)

InviteIsCurrent(c) == Found(c) /\ acct.nonce \in {0, c.nonce}
InviteIsOpen(c) == InviteIsCurrent(c) /\ acct.pending

\* What a request did, for the properties.
Told == {"silent", "terms", "decided", "emailConfirmed", "stepUp", "passwordChanged"}
Does(q, what, c) == log' = log \cup {[what |-> what, flow |-> c.flow, by |-> c.by, is |-> c.is \cap Told,
                                      dead |-> req[q].dead, sub |-> c.sub]}

Shared == <<acct, codes, failures, live, log>>

(* ------------------------- One-time codes (pins) ------------------------ *)
\* codeTarget: where a code goes, whose failures are counted together.
Targets == {"mfa", "recovery", "signup", "enroll", "link"}
BudgetLeft(target) == failures[target] < MaxFailures

\* mintPin under a send claimed from the rate limiter (429 past the bound).
\* Whether the code was delivered shows in what is submitted later.
Mint(target, for) == /\ BudgetLeft(target) /\ Len(codes) < MaxCodes
                     /\ codes' = Append(codes, [for |-> for, tries |-> 0, wrong |-> 0, wins |-> 0])
                     /\ UNCHANGED failures
Pinned(c) == [c EXCEPT !.pin = Len(codes) + 1]

\* Mutant: the attempt is not counted before the code is compared.
SubmitPinUncounted(q, target, c) ==
    /\ Submitted(q) /\ BudgetLeft(target) /\ UNCHANGED Shared
    /\ IF c.pin = 0 THEN Ask(q)
       ELSE IF codes[c.pin].tries < MaxTries THEN Await(q, c, "compare") ELSE Ask(q)

\* verifyPin, up to its attempt counter: the failure budget is read, the pin
\* must be there, and the attempt is counted in the shadow store.
SubmitPin(q, target, c) ==
    /\ Submitted(q) /\ BudgetLeft(target)
    /\ UNCHANGED <<acct, failures, live, log>>
    /\ IF c.pin = 0 THEN Ask(q) /\ UNCHANGED codes
       ELSE /\ codes' = [codes EXCEPT ![c.pin].tries = @ + 1]
            /\ IF codes[c.pin].tries < MaxTries THEN Await(q, c, "compare") ELSE Ask(q)

\* The rest of it: the comparison, then the failure counter (past the limit it
\* throws) or the spent counter.
WrongPin(q, target) ==
    /\ codes' = [codes EXCEPT ![Ctx(q).pin].wrong = @ + 1]
    /\ failures' = [failures EXCEPT ![target] = @ + 1]
    /\ IF BudgetLeft(target) THEN Ask(q) ELSE Lose(q)
    /\ UNCHANGED <<acct, live, log>>

RightPin(q, for) == /\ codes[Ctx(q).pin].for = for
                    /\ codes' = [codes EXCEPT ![Ctx(q).pin].wins = @ + 1]
                    /\ UNCHANGED failures
SpentPin(q) == codes[Ctx(q).pin].wins > 0
AskSpent(q) == Persist(q, [Ctx(q) EXCEPT !.pin = 0]) /\ UNCHANGED <<acct, live, log>>

(* ----------------------------- Signing in ------------------------------- *)
\* probeSilentAuthz: a live session stands in for the credentials.
InitLogin(q) ==
    LET c == Ctx(q)
        silent == [With(c, {"silent"} \cup Given("otp", ~("silentMfa" \in policy.has))
                           \cup Given("emailConfirmed", "email" \in acct.factors))
                   EXCEPT !.sub = acct.id, !.strat = "store", !.by = {"session"}]
    IN  /\ Runs(q, "init-login")
        /\ Go(q, IF {"authz", "silentAuthz"} \subseteq Facts(c) /\ live /\ CanSignIn THEN silent ELSE c)
        /\ UNCHANGED Shared

\* bindSignedInUser
Bind(c) == [With(c, Given("passwordInitial", acct.initial)
                    \cup Given("emailConfirmed", "email" \in acct.factors))
            EXCEPT !.sub = acct.id, !.stamp = acct.pw]

Credentials(q) ==
    LET c == Ctx(q) IN
    /\ Runs(q, "credentials")
    /\ \/ Ask(q)
       \/ /\ Submitted(q) /\ "linkLogin" \in policy.has
          /\ Go(q, With(c, {"magicLink"}))
       \/ /\ Submitted(q) /\ CanSignIn
          /\ Go(q, Proved([Bind(c) EXCEPT !.strat = "store"], "password"))
    /\ UNCHANGED Shared

MagicLinkRequest(q) ==
    /\ Runs(q, "magic-link-request")
    /\ IF Submitted(q) THEN Go(q, [Ctx(q) EXCEPT !.cand = acct.id]) ELSE Ask(q)
    /\ UNCHANGED Shared

\* The first pass mails the link, which holds the paused state; the click runs
\* the step again.
MagicLinkSend(q) ==
    LET c == Ctx(q)
        address == c.cand # 0 /\ c.cand = acct.id
                   /\ IF c.flow = "login" THEN CanSignIn ELSE acct.active
        sent == [With(c, {"sent"} \cup Given("address", address)) EXCEPT !.strat = "magic-link"]
    IN  /\ Runs(q, "magic-link-send")
        /\ IF "sent" \in c.is THEN Go(q, c)
           ELSE IF address THEN Persist(q, sent) ELSE Lose(q)
        /\ UNCHANGED Shared

MagicLinkConfirm(q) ==
    /\ Runs(q, "magic-link-confirm")
    /\ IF Submitted(q) THEN Go(q, Ctx(q)) ELSE Ask(q)
    /\ UNCHANGED Shared

\* usedMagicLink; expired \in BOOLEAN.
MagicLinkVerified(q) ==
    LET c == [Ctx(q) EXCEPT !.strat = "store"] IN
    /\ Runs(q, "magic-link-verified")
    /\ \E expired \in BOOLEAN :
          Go(q, IF expired \/ c.cand # acct.id \/ ~CanSignIn THEN Aborted(c)
                ELSE Proved(Bind(c), "link"))
    /\ UNCHANGED Shared

RecoveryLinkVerified(q) ==
    LET c == [Ctx(q) EXCEPT !.strat = "store"] IN
    /\ Runs(q, "recovery-link-verified")
    /\ \E expired \in BOOLEAN :
          Go(q, IF expired \/ c.cand # acct.id \/ ~acct.active \/ ~("address" \in c.is) THEN Aborted(c)
                ELSE [Verified(c, "link") EXCEPT !.sub = c.cand])
    /\ UNCHANGED Shared

\* sso-callback: the provider's answer names the linked account, or claims the
\* address of an account it is not linked to, or is refused.
FederatedBind(c) == [With(c, Given("emailConfirmed", "email" \in acct.factors))
                     EXCEPT !.sub = acct.id, !.strat = "store"]
SsoCallback(q) ==
    LET c == Ctx(q)
        provable == ~acct.initial \/ "email" \in acct.factors
    IN  /\ Runs(q, "sso-callback")
        /\ \/ Go(q, c)
           \/ /\ acct.idp /\ CanSignIn
              /\ Go(q, Proved(FederatedBind(c), "idp"))
           \/ /\ ~acct.idp /\ acct.id # 0 /\ provable
              /\ Go(q, [With(c, {"pendingLink"} \cup Given("linkByCode", acct.initial))
                        EXCEPT !.strat = "store", !.cand = acct.id])
        /\ UNCHANGED Shared

\* prove-control: links the identity once the candidate's password or a code
\* sent to it proves control.  Whether the candidate is blocked is read first.
ProveControl(q) ==
    LET c == Without(Ctx(q), {"blocked"})
        given == Without(c, {"pendingLink"})
        code == "linkByCode" \in c.is
    IN  /\ Runs(q, "prove-control")
        /\ \/ /\ Submitted(q) \/ acct.id # c.cand \/ (code /\ c.pin = 0 /\ ~("email" \in acct.factors))
              /\ Go(q, given) /\ UNCHANGED Shared
           \/ /\ acct.id = c.cand /\ ~code
              /\ Ask(q) /\ UNCHANGED Shared
           \/ /\ acct.id = c.cand /\ ~code /\ Submitted(q) /\ CanSignIn
              /\ acct' = [acct EXCEPT !.idp = TRUE]
              /\ Go(q, Proved(Proved(FederatedBind(given), "password"), "idp"))
              /\ UNCHANGED <<codes, failures, live, log>>
           \/ /\ acct.id = c.cand /\ code /\ "email" \in acct.factors
              /\ c.pin = 0 \/ Submitted(q)
              /\ Mint("link", acct.id)
              /\ Persist(q, Pinned(c)) /\ UNCHANGED <<acct, live, log>>
           \/ /\ acct.id = c.cand /\ code /\ c.pin # 0
              /\ IF Submitted(q) THEN SubmitPin(q, "link", With(c, Given("blocked", ~CanSignIn))) ELSE Ask(q) /\ UNCHANGED Shared

ProvedControl(q) ==
    LET c == Without(Ctx(q), {"pendingLink", "blocked"}) IN
    /\ Resumes(q, "compare") /\ At(q, Schema, "prove-control")
    /\ \/ WrongPin(q, "link")
       \/ /\ RightPin(q, Ctx(q).cand)
          /\ IF SpentPin(q) THEN AskSpent(q)
             ELSE /\ UNCHANGED <<live, log>>
                  /\ IF acct.id # c.cand THEN Lose(q) /\ UNCHANGED acct
                     ELSE IF "blocked" \in Ctx(q).is THEN Go(q, c) /\ UNCHANGED acct
                     ELSE /\ acct' = [acct EXCEPT !.idp = TRUE]
                          /\ Go(q, [Proved(FederatedBind(c), "idp") EXCEPT !.pin = 0])

(* --------------------------- Password and terms ------------------------- *)
PrepareSemanticFlags(q) ==
    /\ Runs(q, "prepare-semantic-flags")
    /\ Go(q, With(Ctx(q), Given("newPassword", "passwordInitial" \in Ctx(q).is)))
    /\ UNCHANGED Shared

PrepareConsents(q) ==
    /\ Runs(q, "prepare-consents")
    /\ Go(q, With(Ctx(q), Given("terms", ~acct.terms)))
    /\ UNCHANGED Shared

\* Mutant: the form is not compared with the password it first saw.
NeverReplayed(c) == FALSE

\* refusePasswordFormReplay: the form is good for the password it first saw.
FormReplayed(c) == c.form # Unset /\ c.form # acct.pw
Stamped(c) == IF c.form = Unset THEN [c EXCEPT !.form = acct.pw] ELSE c

\* create-password-form, up to the write.
CreatePasswordForm(q) ==
    LET c == Ctx(q) IN
    /\ Runs(q, "create-password-form")
    /\ \/ /\ (c.flow = "invite" /\ ~InviteIsCurrent(c)) \/ (Found(c) /\ FormReplayed(c))
             \/ (Submitted(q) /\ c.flow = "invite" /\ ~acct.pending)
          /\ Lose(q)
       \/ /\ Found(c) /\ ~FormReplayed(c)
          /\ c.flow = "invite" => InviteIsCurrent(c)
          /\ \/ Persist(q, Stamped(c))
             \/ /\ Submitted(q) /\ (c.flow = "invite" => acct.pending)
                /\ Await(q, Stamped(c), "write")
       \/ /\ ~Found(c) /\ c.flow # "invite" /\ Lose(q)
    /\ UNCHANGED Shared

\* The rest: setPassword, then the terms shown on the same form.  Terms left
\* unticked answer the form again with the password already written.
SetPassword(q) ==
    LET c == Ctx(q)
        done == [With(Without(c, {"passwordInitial", "newPassword"}), {"passwordChanged"})
                 EXCEPT !.form = Unset]
    IN  /\ Resumes(q, "write") /\ At(q, Schema, "create-password-form")
        /\ IF ~Found(c) THEN Lose(q) /\ UNCHANGED <<acct, log>>
           ELSE /\ acct' = [acct EXCEPT !.pw = @ + 1, !.initial = FALSE]
                /\ Does(q, "password", c)
                /\ IF "terms" \in c.is /\ "decided" \notin c.is
                   THEN Go(q, With(done, {"decided"})) \/ Ask(q)
                   ELSE Go(q, done)
        /\ UNCHANGED <<codes, failures, live>>

TermsBumpPrompt(q) ==
    /\ Runs(q, "terms-bump-prompt")
    /\ Ask(q) \/ (Submitted(q) /\ Go(q, With(Ctx(q), {"decided"})))
    /\ UNCHANGED Shared

PersistConsents(q) ==
    LET c == Ctx(q) IN
    /\ Runs(q, "persist-consents")
    /\ IF c.flow = "invite" /\ ~InviteIsOpen(c) THEN Lose(q) /\ UNCHANGED <<acct, log>>
       ELSE /\ acct' = IF Found(c) THEN [acct EXCEPT !.terms = TRUE] ELSE acct
            /\ Does(q, "terms", c)
            /\ Go(q, c)
    /\ UNCHANGED <<codes, failures, live>>

(* ------------------------ The e-mail channel guard ---------------------- *)
\* ask/email: records the address as an unconfirmed factor, sends a code and
\* answers the code form: the resume finds the address asked for and runs
\* verify/email.
AskChannel(q) ==
    LET c == With(Ctx(q), {"asked"} \cup Given("decided", "terms" \in Ctx(q).is)) IN
    /\ Runs(q, "ask/email")
    /\ \/ Ask(q) /\ UNCHANGED <<codes, failures>>
       \/ /\ Submitted(q) /\ Mint("enroll", c.sub)
          /\ Persist(q, Pinned(c))
    /\ UNCHANGED <<acct, live, log>>

VerifyChannel(q) ==
    LET c == Ctx(q) IN
    /\ Runs(q, "verify/email")
    /\ \/ Submitted(q) /\ SubmitPin(q, "enroll", c)
       \/ Ask(q) /\ UNCHANGED Shared
       \/ /\ Submitted(q) /\ Mint("enroll", c.sub)
          /\ Persist(q, Pinned(c)) /\ UNCHANGED <<acct, live, log>>

VerifiedChannel(q) ==
    LET c == [With(Ctx(q), {"emailConfirmed"}) EXCEPT !.pin = 0] IN
    /\ Resumes(q, "compare") /\ At(q, Schema, "verify/email")
    /\ \/ WrongPin(q, "enroll")
       \/ /\ RightPin(q, c.sub)
          /\ IF SpentPin(q) THEN AskSpent(q)
             ELSE IF ~Found(c) THEN Lose(q) /\ UNCHANGED <<acct, live, log>>
             ELSE /\ acct' = [acct EXCEPT !.factors = @ \cup {"email"}]
                  /\ Go(q, c) /\ UNCHANGED <<live, log>>

(* ---------------------------- Second factors ---------------------------- *)
CheckTrustedDevice(q) ==
    LET c == Ctx(q) IN
    /\ Runs(q, "check-trusted-device")
    /\ \/ Found(c) /\ acct.trusted /\ Go(q, Verified(c, "device"))
       \/ Go(q, With(c, {"newDevice"}))
    /\ UNCHANGED Shared

LoadEnrolledMfaMethods(q) ==
    LET c == Ctx(q) IN
    /\ Runs(q, "load-enrolled-mfa-methods")
    /\ IF Found(c) THEN Go(q, [c EXCEPT !.all = acct.factors \cap policy.transports]) ELSE Lose(q)
    /\ UNCHANGED Shared

SelectMfaMethod(q) ==
    LET c == Ctx(q) IN
    /\ Runs(q, "select-mfa-method")
    /\ \/ Cardinality(c.all) = 1 /\ \E m \in c.all : Go(q, [c EXCEPT !.method = m])
       \/ Cardinality(c.all) # 1 /\ Go(q, c)
    /\ UNCHANGED Shared

\* useDifferentMethod
Unpicked(c) == [c EXCEPT !.method = None, !.pin = 0]

Select2fa(q) ==
    LET c == Ctx(q) IN
    /\ Runs(q, "select-2fa")
    /\ \/ Ask(q)
       \/ /\ Submitted(q)
          /\ \E m \in c.all : Go(q, [With(c, Given("stepUpConfirmed", c.flow = "addMfa")) EXCEPT !.method = m])
    /\ UNCHANGED Shared

ManageStepUpConfirm(q) ==
    LET c == Ctx(q) IN
    /\ Runs(q, "manage-stepup-confirm")
    /\ \/ Ask(q)
       \/ /\ Submitted(q)
          /\ \E next \in {Aborted(c), With(c, {"stepUpConfirmed"}), Unpicked(c)} : Go(q, next)
    /\ UNCHANGED Shared

\* recoveryAccount; the account a pin is bound to.
RecoveryAccount == IF acct.active THEN acct.id ELSE 0
PincodeTarget(c) == IF c.method # None THEN "mfa" ELSE IF c.flow = "signup" THEN "signup" ELSE "recovery"
Binding(c) == IF PincodeTarget(c) = "recovery" THEN RecoveryAccount ELSE c.sub

PincodeSend(q) ==
    LET c == Ctx(q) IN
    /\ Runs(q, "pincode-send")
    /\ Mint(PincodeTarget(c), Binding(c))
    /\ Go(q, Pinned(c))
    /\ UNCHANGED <<acct, live, log>>

\* resend, useDifferentMethod, or the way out: login and invite have no exit
\* from their loop, which the engine stops for making no progress.
PincodeCheck(q) ==
    LET c == Ctx(q) IN
    /\ Runs(q, "pincode-check")
    /\ \/ SubmitPin(q, PincodeTarget(c), c)
       \/ /\ ~Submitted(q) /\ Ask(q) /\ UNCHANGED Shared
       \/ /\ Submitted(q) /\ UNCHANGED Shared
          /\ \/ Go(q, [c EXCEPT !.pin = 0])
             \/ Go(q, Unpicked(c))
             \/ IF c.flow \in {"login", "invite"} THEN Lose(q) ELSE Go(q, Aborted(c))

\* In recovery the account proved is the one the address names now, and the pin
\* matches only if it was minted for that one.
PincodeChecked(q) ==
    LET c == Ctx(q)
        recovery == PincodeTarget(c) = "recovery"
        ok == [Without(Verified(c, "code"), {"riskEvaluated"}) EXCEPT
                 !.pin = 0, !.sub = IF recovery THEN RecoveryAccount ELSE c.sub]
    IN  /\ Resumes(q, "compare") /\ At(q, Schema, "pincode-check")
        /\ \/ WrongPin(q, PincodeTarget(c))
           \/ /\ recovery => RecoveryAccount # 0
              /\ RightPin(q, Binding(c))
              /\ IF SpentPin(q) THEN AskSpent(q)
                 ELSE Go(q, ok) /\ UNCHANGED <<acct, live, log>>

TotpCheck(q) ==
    LET c == Ctx(q) IN
    /\ Runs(q, "totp-check")
    /\ \/ Ask(q)
       \/ Submitted(q) /\ Go(q, Unpicked(c))
       \/ Submitted(q) /\ ~("totp" \in acct.factors /\ Found(c)) /\ Lose(q)
       \/ /\ Submitted(q) /\ "totp" \in acct.factors /\ Found(c) /\ CanSignIn
          /\ Go(q, Without(Verified(c, "totp"), {"riskEvaluated"}))
    /\ UNCHANGED Shared

\* risk-step-up: the deployment's hook may ask for the factor again.
RiskStepUp(q) ==
    LET c == With(Ctx(q), {"riskEvaluated"}) IN
    /\ Runs(q, "risk-step-up")
    /\ \/ Go(q, c)
       \/ "risk" \in policy.has /\ Go(q, [Without(c, {"otp"}) EXCEPT !.pin = 0])
    /\ UNCHANGED Shared

DeviceTrust(q) ==
    LET c == Ctx(q) IN
    /\ Runs(q, "device-trust")
    /\ \/ ~Found(c) /\ Lose(q) /\ UNCHANGED acct
       \/ Found(c) /\ acct' = [acct EXCEPT !.trusted = TRUE] /\ Go(q, c)
    /\ UNCHANGED <<codes, failures, live, log>>

(* ------------------------------ Enrolment ------------------------------- *)
Mode(c) == IF c.flow = "addMfa" THEN "manage" ELSE IF policy.mfa = "required" THEN "required" ELSE "optional"

\* handleEnrollExit: the ways out of the enrolment forms.
Cleared(c) == [Without(c, {"ready"}) EXCEPT !.enroll = None, !.pin = 0]
\* Mutant: the forms can be skipped where a factor is required.
EnrollExitsAlways(c) ==
    IF Mode(c) = "manage" THEN {Aborted(Cleared(c))}
                          ELSE {Cleared(c), Verified(With(Cleared(c), {"done"}), "skip")}

EnrollExits(c) ==
    CASE Mode(c) = "manage" -> {Aborted(Cleared(c))}
      [] Mode(c) = "optional" -> {Cleared(c), Verified(With(Cleared(c), {"done"}), "skip")}
      [] OTHER -> {Cleared(c)}

EnrollPickMethod(q) ==
    LET c == Ctx(q) IN
    /\ Runs(q, "enroll-pick-method")
    /\ \/ Cardinality(policy.transports) > 1 /\ Ask(q)
       \/ /\ Submitted(q) \/ Cardinality(policy.transports) = 1
          /\ \E m \in policy.transports : Go(q, [c EXCEPT !.enroll = m])
       \/ /\ Submitted(q) /\ Cardinality(policy.transports) > 1 /\ Mode(c) # "required"
          /\ Go(q, IF Mode(c) = "manage" THEN Aborted(c) ELSE Verified(With(c, {"done"}), "skip"))
    /\ UNCHANGED Shared

\* enroll-address and enroll-totp-qr: a form each before the factor is ready to
\* be confirmed, with the same exits.
EnrollAddress(q) ==
    /\ Runs(q, "enroll-address")
    /\ Ask(q) \/ (Submitted(q) /\ \E next \in EnrollExits(Ctx(q)) \cup {With(Ctx(q), {"ready"})} : Go(q, next))
    /\ UNCHANGED Shared

EnrollTotpQr(q) ==
    /\ Runs(q, "enroll-totp-qr")
    /\ Ask(q) \/ (Submitted(q) /\ \E next \in EnrollExits(Ctx(q)) \cup {With(Ctx(q), {"ready"})} : Go(q, next))
    /\ UNCHANGED Shared

EnrollSend(q) ==
    /\ Runs(q, "enroll-send")
    /\ Mint("enroll", Ctx(q).sub)
    /\ Go(q, Pinned(Ctx(q)))
    /\ UNCHANGED <<acct, live, log>>

\* confirmEnrolledFactor
ConfirmEnrolledFactor(q, c) ==
    /\ IF (c.flow = "invite" /\ ~InviteIsOpen(c)) \/ ~Found(c) THEN Lose(q) /\ UNCHANGED <<acct, log>>
       ELSE /\ acct' = [acct EXCEPT !.factors = @ \cup {c.enroll}]
            /\ Does(q, "factor", c)
            /\ Go(q, [Verified(With(c, {"done"}), "enrolled") EXCEPT !.pin = 0])
    /\ UNCHANGED live

\* enroll-confirm.  resend sends a code and goes on: a loop comes back to the
\* form, the add-mfa workflow does not.
EnrollConfirm(q) ==
    LET c == Ctx(q) IN
    /\ Runs(q, "enroll-confirm")
    /\ \/ (~Submitted(q) \/ c.enroll = "totp") /\ Ask(q) /\ UNCHANGED Shared
       \/ Submitted(q) /\ (\E next \in EnrollExits(c) : Go(q, next)) /\ UNCHANGED Shared
       \/ /\ Submitted(q) /\ c.enroll # "totp" /\ Mint("enroll", c.sub)
          /\ Go(q, Pinned(c)) /\ UNCHANGED <<acct, live, log>>
       \/ c.enroll # "totp" /\ SubmitPin(q, "enroll", c)
       \/ Submitted(q) /\ c.enroll = "totp" /\ ConfirmEnrolledFactor(q, c) /\ UNCHANGED <<codes, failures>>

EnrollConfirmed(q) ==
    /\ Resumes(q, "compare") /\ At(q, Schema, "enroll-confirm")
    /\ \/ WrongPin(q, "enroll")
       \/ /\ RightPin(q, Ctx(q).sub)
          /\ IF SpentPin(q) THEN AskSpent(q) ELSE ConfirmEnrolledFactor(q, Ctx(q))

(* -------------------------- How a run finishes -------------------------- *)
RevokeSessions(q) ==
    /\ Runs(q, "revoke-sessions")
    /\ live' = FALSE
    /\ Go(q, Ctx(q))
    /\ UNCHANGED <<acct, codes, failures, log>>

UnlockAccount(q) ==
    /\ Runs(q, "unlock-account")
    /\ IF Found(Ctx(q))
       THEN acct' = [acct EXCEPT !.locked = FALSE] /\ Does(q, "unlock", Ctx(q)) /\ Go(q, Ctx(q))
       ELSE Lose(q) /\ UNCHANGED <<acct, log>>
    /\ UNCHANGED <<codes, failures, live>>

LoadActiveSessions(q) ==
    /\ Runs(q, "load-active-sessions")
    /\ Go(q, With(Ctx(q), Given("atLimit", live)))
    /\ UNCHANGED Shared

\* concurrency-limit: signs the other sessions out.
ConcurrencyLimit(q) ==
    /\ Runs(q, "concurrency-limit")
    /\ IF Submitted(q) THEN live' = FALSE /\ Go(q, Ctx(q)) ELSE Ask(q) /\ UNCHANGED live
    /\ UNCHANGED <<acct, codes, failures, log>>

\* Mutant: the stamp of the sign-in is not compared.
PasswordNotChecked(q) == Runs(q, "check-password-unchanged") /\ Go(q, Ctx(q)) /\ UNCHANGED Shared

CheckPasswordUnchanged(q) ==
    LET c == Ctx(q) IN
    /\ Runs(q, "check-password-unchanged")
    /\ IF Found(c) THEN Go(q, IF acct.pw # c.stamp THEN Aborted(c) ELSE c) ELSE Lose(q)
    /\ UNCHANGED Shared

CheckCanSignIn(q) ==
    LET c == Ctx(q) IN
    /\ Runs(q, "check-can-sign-in")
    /\ Go(q, IF Found(c) /\ CanSignIn THEN c ELSE Aborted(c))
    /\ UNCHANGED Shared

IssueSession(q, c) == live' = TRUE /\ Does(q, "session", c) /\ Go(q, c)

Issue(q) ==
    LET c == Ctx(q) IN
    /\ Runs(q, "issue")
    /\ IF Found(c) /\ CanSignIn THEN IssueSession(q, c) ELSE Lose(q) /\ UNCHANGED <<live, log>>
    /\ UNCHANGED <<acct, codes, failures>>

\* The pending authorization request may be gone, or another browser's.
AuthzConsent(q) ==
    LET c == Ctx(q) IN
    /\ Runs(q, "authz-consent")
    /\ Ask(q) \/ Go(q, c) \/ (Submitted(q) /\ Go(q, With(c, {"approved"})))
    /\ UNCHANGED Shared

MintAuthzCode(q) ==
    LET c == Ctx(q) IN
    /\ Runs(q, "mint-authz-code")
    /\ \/ Go(q, Aborted(c)) /\ UNCHANGED log
       \/ Found(c) /\ CanSignIn /\ Does(q, "grant", c) /\ Go(q, c)
    /\ UNCHANGED <<acct, codes, failures, live>>

\* The invite and recovery workflows then end without signing in.
AutoLoginCheck(q) ==
    LET c == Ctx(q) IN
    /\ Runs(q, "auto-login-check")
    /\ IF ~Found(c) \/ (~acct.active /\ c.flow = "signup") THEN Lose(q)
       ELSE Go(q, IF acct.active THEN c ELSE Without(c, {"autoLogin"}))
    /\ UNCHANGED Shared

FinalizeAutoLogin(q) ==
    LET c == Ctx(q) IN
    /\ Runs(q, "finalize-auto-login")
    /\ IF Found(c) /\ acct.active THEN IssueSession(q, c) ELSE Lose(q) /\ UNCHANGED <<live, log>>
    /\ UNCHANGED <<acct, codes, failures>>

(* ------------------------------- Invite --------------------------------- *)
\* admin-form: an account that is not a pending invitation refuses the address.
AdminForm(q) ==
    LET c == Ctx(q) IN
    /\ Runs(q, "admin-form")
    /\ \/ Ask(q)
       \/ Submitted(q) /\ acct.id = 0 /\ Go(q, With(c, {"named"}))
       \/ Submitted(q) /\ acct.pending /\ Go(q, With(c, {"named", "reuse"}))
    /\ UNCHANGED Shared

NewAccount == [Absent EXCEPT !.id = acct.born + 1, !.born = acct.born + 1]

\* create-user: a pending invitation gets a new nonce, otherwise the account is
\* created and marked pending by a second write.
CreateUser(q) ==
    LET c == Ctx(q) IN
    /\ Runs(q, "create-user")
    /\ \/ /\ "reuse" \in c.is /\ acct.pending
          /\ acct' = [acct EXCEPT !.nonce = @ + 1]
          /\ Go(q, [c EXCEPT !.sub = acct.id, !.nonce = acct.nonce + 1])
       \/ /\ acct.id # 0 /\ ~("reuse" \in c.is /\ acct.pending)
          /\ Lose(q) /\ UNCHANGED acct
       \/ /\ acct.id = 0
          /\ acct' = NewAccount
          /\ Await(q, [c EXCEPT !.sub = acct.born + 1, !.nonce = 1], "pend")
    /\ UNCHANGED <<codes, failures, live, log>>

MarkPending(q) ==
    /\ Resumes(q, "pend")
    /\ IF Found(Ctx(q))
       THEN acct' = [acct EXCEPT !.pending = TRUE, !.nonce = Ctx(q).nonce] /\ Go(q, Ctx(q))
       ELSE Lose(q) /\ UNCHANGED acct
    /\ UNCHANGED <<codes, failures, live, log>>

\* send-email: pauses once; the link in the mail resumes the run here.
SendInviteEmail(q) ==
    LET c == Ctx(q) IN
    /\ Runs(q, "send-email")
    /\ IF "dispatched" \in c.is THEN Go(q, c)
       ELSE Persist(q, [With(c, {"dispatched"}) EXCEPT !.strat = "store", !.by = {"inbox"}])
    /\ UNCHANGED Shared

\* Mutant: the accept does not ask for a password.
InviteAcceptOnly(q) == Runs(q, "init-invite-accept") /\ Go(q, Ctx(q)) /\ UNCHANGED Shared

InitInviteAccept(q) ==
    /\ Runs(q, "init-invite-accept")
    /\ Go(q, With(Ctx(q), {"newPassword"}))
    /\ UNCHANGED Shared

CheckPendingInvitation(q) ==
    LET c == Ctx(q) IN
    /\ Runs(q, "check-pending-invitation")
    /\ IF InviteIsCurrent(c) THEN Go(q, With(c, Given("alreadyAccepted", ~acct.pending))) ELSE Lose(q)
    /\ UNCHANGED Shared

\* unset-pending-invitation: acceptInvitation is one compare-and-set.
UnsetPendingInvitation(q) ==
    LET c == Ctx(q) IN
    /\ Runs(q, "unset-pending-invitation")
    /\ IF InviteIsOpen(c) THEN acct' = [acct EXCEPT !.pending = FALSE] /\ Does(q, "accept", c) /\ Go(q, c)
       ELSE Lose(q) /\ UNCHANGED <<acct, log>>
    /\ UNCHANGED <<codes, failures, live>>

ActivateUser(q) ==
    LET c == Ctx(q) IN
    /\ Runs(q, "activate-user")
    /\ IF Found(c) /\ (c.flow = "invite" => InviteIsCurrent(c))
       THEN acct' = [acct EXCEPT !.active = TRUE] /\ Does(q, "activate", c) /\ Go(q, c)
       ELSE Lose(q) /\ UNCHANGED <<acct, log>>
    /\ UNCHANGED <<codes, failures, live>>

(* ------------------------------ Recovery -------------------------------- *)
\* applyRecoveryMode
RecoveryMode(c, mode) ==
    CASE mode = "magicLink" -> [With(Without(c, {"choice"}), {"magicLink"}) EXCEPT !.cand = acct.id]
      [] mode = "otp" -> [With(Without(c, {"choice"}), {"otpMode"}) EXCEPT !.strat = "store"]
      [] mode = "choice" -> With(c, {"choice"})

Request(q) ==
    LET c == Ctx(q) IN
    /\ Runs(q, "request")
    /\ Ask(q) \/ (Submitted(q) /\ \E next \in {Aborted(c), RecoveryMode(c, policy.recovery)} : Go(q, next))
    /\ UNCHANGED Shared

SelectRecoveryMode(q) ==
    /\ Runs(q, "select-recovery-mode")
    /\ Ask(q) \/ (Submitted(q) /\ \E m \in {"magicLink", "otp"} : Go(q, RecoveryMode(Ctx(q), m)))
    /\ UNCHANGED Shared

\* An account an administrator locked is not signed in by its reset.
RecoveryLockCheck(q) ==
    LET c == Ctx(q) IN
    /\ Runs(q, "recovery-lock-check")
    /\ IF Found(c) THEN Go(q, IF acct.locked THEN Aborted(c) ELSE c) ELSE Lose(q)
    /\ UNCHANGED Shared

(* ------------------- Change password (a signed-in user) ----------------- *)
InitChangePassword(q) ==
    /\ Runs(q, "init-change-password")
    /\ Go(q, [Ctx(q) EXCEPT !.sub = acct.id, !.by = {"session"}])
    /\ UNCHANGED Shared

\* The form, up to the write; a wrong current password answers it again.
ChangePasswordForm(q) ==
    LET c == Ctx(q) IN
    /\ Runs(q, "change-password-form")
    /\ IF ~Found(c) \/ FormReplayed(c) THEN Lose(q)
       ELSE Persist(q, Stamped(c)) \/ (Submitted(q) /\ Await(q, Stamped(c), "write"))
    /\ UNCHANGED Shared

ChangePassword(q) ==
    LET c == Proved(Ctx(q), "password") IN
    /\ Resumes(q, "write") /\ At(q, Schema, "change-password-form")
    /\ IF Found(c)
       THEN /\ acct' = [acct EXCEPT !.pw = @ + 1, !.initial = FALSE]
            /\ Does(q, "password", c)
            /\ Go(q, [c EXCEPT !.form = Unset])
       ELSE Lose(q) /\ UNCHANGED <<acct, log>>
    /\ UNCHANGED <<codes, failures, live>>

\* Revokes the session the change came from and issues its successor.
FinishChangePassword(q) ==
    /\ Runs(q, "finish-change-password")
    /\ IssueSession(q, Ctx(q))
    /\ UNCHANGED <<acct, codes, failures>>

(* --------------------- Managing the second factors ---------------------- *)
InitAddMfa(q) ==
    LET c == Ctx(q) IN
    /\ Runs(q, "init-add-mfa")
    /\ Go(q, [With(c, Given("stepUp", acct.factors # {})
                      \cup Given("byFactor", acct.factors \cap policy.transports # {}))
              EXCEPT !.sub = acct.id, !.candidates = policy.transports \ acct.factors,
                     !.by = {"session"}])
    /\ UNCHANGED Shared

ManagePasswordReauth(q) ==
    LET c == Ctx(q) IN
    /\ Runs(q, "manage-password-reauth")
    /\ \/ Ask(q)
       \/ Submitted(q) /\ Go(q, Aborted(c))
       \/ Submitted(q) /\ Found(c) /\ acct.pw # 0 /\ Go(q, Verified(c, "password"))
    /\ UNCHANGED Shared

ManageStepUpDone(q) ==
    /\ Runs(q, "manage-stepup-done")
    /\ Go(q, [With(Ctx(q), {"stepUpDone"}) EXCEPT !.strat = "store"])
    /\ UNCHANGED Shared

\* isLastRequiredFactor reads what the step-up loaded.
IsLastRequiredFactor(c) == Cardinality(c.all) <= 1 /\ policy.mfa = "required"

ManageMenu(q) ==
    LET c == Ctx(q)
        Chosen(op, m) == [Without(c, {"ready", "done"}) EXCEPT !.op = op, !.enroll = m]
    IN  /\ Runs(q, "manage-menu")
        /\ IF c.candidates = {} /\ c.all = {} THEN Go(q, Aborted(c))
           ELSE \/ Ask(q)
                \/ Submitted(q) /\ Go(q, Aborted(c))
                \/ Submitted(q) /\ \E m \in c.candidates : Go(q, Chosen("add", m))
                \/ Submitted(q) /\ \E m \in c.all : Go(q, Chosen("replace", m))
                \/ /\ Submitted(q) /\ ~IsLastRequiredFactor(c)
                   /\ \E m \in c.all : Go(q, Chosen("remove", m))
        /\ UNCHANGED Shared

ConfirmRemoveMfa(q) ==
    LET c == Ctx(q) IN
    /\ Runs(q, "confirm-remove-mfa")
    /\ \/ /\ Ask(q) \/ (Submitted(q) /\ Go(q, Aborted(c)))
          /\ UNCHANGED <<acct, log>>
       \/ /\ Submitted(q) /\ Found(c)
          /\ acct' = [acct EXCEPT !.factors = @ \ {c.enroll}]
          /\ Does(q, "remove", c) /\ Go(q, c)
    /\ UNCHANGED <<codes, failures, live>>

(* -------------------------------- Signup -------------------------------- *)
SignupForm(q) ==
    LET c == Ctx(q) IN
    /\ Runs(q, "signup-form")
    /\ \/ Ask(q)
       \/ Submitted(q) /\ Go(q, c)
       \/ Submitted(q) /\ Go(q, [With(c, {"submitted"}) EXCEPT !.strat = "store"])
    /\ UNCHANGED Shared

\* An address that has an account ends the run without a subject.
SignupCreateUser(q) ==
    LET c == Ctx(q) IN
    /\ Runs(q, "signup-create-user")
    /\ IF acct.id # 0 THEN Go(q, c) /\ UNCHANGED acct
       ELSE /\ acct' = NewAccount
            /\ Go(q, [With(c, {"newPassword"}) EXCEPT !.sub = acct.born + 1])
    /\ UNCHANGED <<codes, failures, live, log>>

(* ---------------- The requests and the rest of the world ---------------- *)
SignInStep(q) ==
    \/ InitLogin(q) \/ Credentials(q) \/ MagicLinkRequest(q) \/ MagicLinkSend(q)
    \/ MagicLinkConfirm(q) \/ MagicLinkVerified(q) \/ SsoCallback(q)
    \/ ProveControl(q) \/ ProvedControl(q) \/ AskChannel(q) \/ VerifyChannel(q)
    \/ VerifiedChannel(q) \/ CheckTrustedDevice(q) \/ DeviceTrust(q) \/ TermsBumpPrompt(q)
    \/ LoadActiveSessions(q) \/ ConcurrencyLimit(q) \/ CheckPasswordUnchanged(q)
    \/ CheckCanSignIn(q) \/ Issue(q) \/ AuthzConsent(q) \/ MintAuthzCode(q)

FactorStep(q) ==
    \/ LoadEnrolledMfaMethods(q) \/ SelectMfaMethod(q) \/ Select2fa(q) \/ ManageStepUpConfirm(q)
    \/ ManageStepUpDone(q) \/ PincodeSend(q)
    \/ PincodeCheck(q) \/ PincodeChecked(q) \/ TotpCheck(q) \/ RiskStepUp(q)
    \/ EnrollPickMethod(q) \/ EnrollAddress(q) \/ EnrollTotpQr(q) \/ EnrollSend(q)
    \/ EnrollConfirm(q) \/ EnrollConfirmed(q) \/ InitAddMfa(q) \/ ManagePasswordReauth(q)
    \/ ManageMenu(q) \/ ConfirmRemoveMfa(q)

AccountStep(q) ==
    \/ PrepareConsents(q) \/ PrepareSemanticFlags(q) \/ InitInviteAccept(q)
    \/ CreatePasswordForm(q) \/ SetPassword(q) \/ PersistConsents(q)
    \/ RevokeSessions(q) \/ UnlockAccount(q) \/ AutoLoginCheck(q) \/ FinalizeAutoLogin(q)
    \/ AdminForm(q) \/ CreateUser(q) \/ MarkPending(q) \/ SendInviteEmail(q)
    \/ CheckPendingInvitation(q) \/ UnsetPendingInvitation(q) \/ ActivateUser(q)
    \/ Request(q) \/ SelectRecoveryMode(q) \/ RecoveryLinkVerified(q) \/ RecoveryLockCheck(q)
    \/ InitChangePassword(q) \/ ChangePasswordForm(q) \/ ChangePassword(q)
    \/ FinishChangePassword(q) \/ SignupForm(q) \/ SignupCreateUser(q)

\* A store failed, a rate limit answered 429, or the process died.
Fail(q) == req[q] # Idle /\ Lose(q) /\ UNCHANGED Shared

NeedsSession(flow) == flow \in {"change", "addMfa"}

Start(q) ==
    \E s \in policy.starts :
        /\ NeedsSession(s[1]) => live
        /\ Begin(q, Fresh(s[1], s[2]), 1)
        /\ UNCHANGED Shared

\* What has happened to the account since the state was persisted.
Overtaken(c) ==
    Given("password", c.stamp \notin {Unset, acct.pw} /\ "passwordChanged" \notin c.is)
    \cup Given("reset", c.form \notin {Unset, acct.pw})
    \cup Given("invite", c.nonce # 0 /\ (acct.id # c.sub \/ acct.nonce # c.nonce))
    \cup Given("blocked", c.sub # 0 /\ ~(acct.id = c.sub /\ acct.active /\ ~acct.locked))

Resume(q) ==
    /\ req[q] = Idle /\ left.resumes > 0
    /\ \E p \in paused : \E j \in Follow(p.c, p.at) :
        /\ NeedsSession(p.c.flow) => live
        /\ Reopen(q, p, p.c, j, Overtaken(p.c))
        /\ UNCHANGED Shared

\* Elsewhere: another reset (which signs everyone out), a lock, an invitation
\* renewed or revoked.
Edit ==
    /\ left.edits > 0 /\ acct.id # 0
    /\ \/ /\ "password" \in policy.edits /\ acct.active
          /\ acct' = [acct EXCEPT !.pw = @ + 1, !.initial = FALSE] /\ live' = FALSE
       \/ "lock" \in policy.edits /\ acct' = [acct EXCEPT !.locked = TRUE] /\ UNCHANGED live
       \/ "deactivate" \in policy.edits /\ acct' = [acct EXCEPT !.active = FALSE] /\ UNCHANGED live
       \/ /\ "renew" \in policy.edits /\ acct.pending
          /\ acct' = [acct EXCEPT !.nonce = @ + 1] /\ UNCHANGED live
       \/ /\ "revoke" \in policy.edits /\ acct.pending
          /\ acct' = [Absent EXCEPT !.born = acct.born] /\ live' = FALSE
    /\ left' = [left EXCEPT !.edits = @ - 1]
    /\ UNCHANGED <<paused, req, policy, codes, failures, log>>

Init ==
    /\ \E p \in Policies, durable \in BOOLEAN : policy = [p EXCEPT !.durable = durable]
    /\ acct = policy.start /\ live = policy.live
    /\ paused = {} /\ req = [q \in Requests |-> Idle]
    /\ codes = <<>> /\ failures = [target \in Targets |-> 0] /\ log = {}
    /\ left = policy.left

Next ==
    \/ \E q \in Requests :
          SignInStep(q) \/ FactorStep(q) \/ AccountStep(q) \/ Fail(q) \/ Start(q) \/ Resume(q)
    \/ Edit

Spec == Init /\ [][Next]_vars

(* ------------------------------ Properties ------------------------------ *)
SignIns == {e \in log : e.what \in {"session", "grant"}}
Has(e, proofs) == e.by \cap proofs # {}

\* No session and no authorization code without what its workflow and the
\* deployment's policy ask for, whatever states are replayed or resumed out of
\* order: a first factor, a second one where it is required, the terms decided,
\* the address confirmed (login); the inbox (invite, recovery, signup).
SessionsAreProved ==
    \A e \in SignIns :
        /\ e.flow = "login" => /\ Has(e, {"password", "link", "idp", "session"})
                               /\ "ensureEmail" \in policy.has => "emailConfirmed" \in e.is
        /\ "terms" \in e.is => "decided" \in e.is
        /\ e.flow \in {"login", "invite"} /\ policy.mfa = "required" =>
              \/ Has(e, {"code", "totp", "device", "enrolled"})
              \/ "silent" \in e.is /\ "silentMfa" \notin policy.has
        /\ e.flow \in {"recovery", "signup", "invite"} => Has(e, {"code", "link", "inbox"})

\* A paused run whose ground has gone neither writes nor signs in, however it is resumed
\* or replayed: a login whose password was changed elsewhere, unless the run itself sets
\* one (check-password-unchanged); a login whose account is locked, deactivated or gone,
\* unless a recovery or an activation lifts that (check-can-sign-in); a password form
\* after the password was changed (refusePasswordFormReplay); the run of an invitation
\* renewed or revoked since (currentInviteRow).
StaleRunsAreDead ==
    /\ \A e \in SignIns : e.flow = "login" =>
          /\ "password" \in e.dead => "passwordChanged" \in e.is
          /\ "blocked" \in e.dead => \E u \in log : u.what \in {"unlock", "activate"} /\ u.sub = e.sub
    /\ \A e \in log : e.what = "password" => "reset" \notin e.dead
    /\ \A e \in log : e.flow = "invite" => "invite" \notin e.dead

\* An account that was invited or signed up is active only with a password its
\* owner chose.
ActiveMeansPassword == acct.active /\ acct.id # policy.start.id => acct.pw > 0 /\ ~acct.initial

\* However many copies of a sealed state are submitted at once, a code is
\* compared at most MaxTries times, and the wrong guesses against one target
\* pass its limit by no more than the requests in flight.
GuessesAreBounded ==
    /\ \A n \in DOMAIN codes : codes[n].wrong + codes[n].wins <= MaxTries
    /\ \A target \in Targets : failures[target] < MaxFailures + Cardinality(Requests)

\* With a factor to challenge, add-mfa adds, replaces or removes one only in a
\* run that proved a factor or the password (mfaStepUpLoop, manage-password-reauth).
ManageNeedsChallenge ==
    \A e \in log : e.flow = "addMfa" /\ e.what \in {"factor", "remove"} /\ "stepUp" \in e.is
                   => Has(e, {"code", "totp", "password"})
=============================================================================
