--------------------------- MODULE MCAuthWorkflow ---------------------------
(***************************************************************************)
(* Deployments and starting accounts for AuthWorkflow.  Each brings a few  *)
(* hazards together; the behaviours of the run are the union of theirs.    *)
(***************************************************************************)
EXTENDS AuthWorkflow, TLC

Member == [Absent EXCEPT !.id = 1, !.born = 1, !.active = TRUE, !.pw = 1, !.initial = FALSE,
                         !.terms = TRUE]
Bounds(runs, resumes, edits) == [runs |-> runs, resumes |-> resumes, edits |-> edits]
Base == [mfa |-> "disabled", has |-> {}, transports |-> {"email", "totp"}, recovery |-> "otp",
         durable |-> FALSE, edits |-> {}, start |-> Member, live |-> FALSE, starts |-> {<<"login", {}>>},
         left |-> Bounds(1, 4, 1)]

\* A code as second factor; the password changes or the account is locked.
PasswordLogin ==
    [Base EXCEPT !.mfa = "required", !.edits = {"password", "lock"}, !.start.factors = {"email"}]

\* The first sign-in with an assigned password: a new one, terms, enrolment,
\* for an authorization request.
FirstLogin ==
    [Base EXCEPT !.mfa = "required", !.start.initial = TRUE, !.start.terms = FALSE,
                 !.starts = {<<"login", {"authz"}>>}, !.left = Bounds(1, 6, 0)]

\* A link as first factor.
LinkLogin ==
    [Base EXCEPT !.has = {"linkLogin"}, !.start.factors = {"email"}, !.edits = {"password", "lock"},
                 !.left = Bounds(1, 6, 1)]

\* The address is to be confirmed and the terms have changed.
EmailLogin ==
    [Base EXCEPT !.has = {"ensureEmail"}, !.start.terms = FALSE, !.edits = {"password"},
                 !.left = Bounds(1, 5, 1)]

\* The identity provider's answer: the identity is linked already, or the
\* account's password or a code proves control.
FederatedLogin(start) ==
    [Base EXCEPT !.starts = {<<"login", {"idpInbound"}>>}, !.start = start, !.edits = {"deactivate"}]

\* A live session answers an authorization request.
SilentLogin(has) ==
    [Base EXCEPT !.has = {"silentAuthz"} \cup has, !.live = TRUE, !.mfa = "required",
                 !.start.factors = {"totp"}, !.starts = {<<"login", {"authz"}>>},
                 !.edits = {"lock"}, !.left = Bounds(2, 3, 1)]

\* Two factors, trusted devices, a risk engine and a session limit.
DeviceLogin ==
    [Base EXCEPT !.mfa = "optional", !.has = {"skipsMfa", "deviceTrust", "risk", "sessionLimit"},
                 !.live = TRUE, !.start.factors = {"email", "totp"}, !.left = Bounds(1, 5, 0)]

Invitation ==
    [Base EXCEPT !.mfa = "optional", !.transports = {"email"}, !.start = Absent, !.starts = {<<"invite", {"autoLogin"}>>},
                 !.edits = {"renew", "revoke"}, !.left = Bounds(2, 5, 1)]

Recovery(has, edits) ==
    [Base EXCEPT !.recovery = "choice", !.has = has, !.starts = {<<"recovery", {"autoLogin"}>>},
                 !.live = TRUE, !.edits = edits, !.left = Bounds(1, 5, 1)]

PasswordChange ==
    [Base EXCEPT !.starts = {<<"change", {}>>}, !.live = TRUE, !.edits = {"password"}, !.left = Bounds(2, 4, 1)]

Management(mfa, transports, factors) ==
    [Base EXCEPT !.starts = {<<"addMfa", {}>>}, !.live = TRUE, !.mfa = mfa, !.transports = transports,
                 !.start.factors = factors, !.left = Bounds(1, 5, 0)]

Signup ==
    [Base EXCEPT !.start = Absent, !.starts = {<<"signup", {"autoLogin"}>>}, !.left = Bounds(2, 5, 0)]

\* The password changes just before the login asks for a new one.
ForcedChange ==
    [Base EXCEPT !.start.initial = TRUE, !.edits = {"password"}, !.left = Bounds(1, 3, 1)]

\* A login by the identity provider is paused while the account is locked and
\* a recovery unlocks it.
Unlocking ==
    [Base EXCEPT !.has = {"selfService"}, !.start.idp = TRUE, !.start.terms = FALSE, !.edits = {"lock"},
                 !.starts = {<<"recovery", {}>>, <<"login", {"idpInbound"}>>}, !.left = Bounds(2, 4, 1)]

Deployments ==
    {PasswordLogin, FirstLogin, LinkLogin, EmailLogin, DeviceLogin, ForcedChange, Unlocking,
     FederatedLogin([Member EXCEPT !.idp = TRUE]), FederatedLogin(Member),
     FederatedLogin([Member EXCEPT !.initial = TRUE, !.factors = {"email"}]),
     SilentLogin({}), SilentLogin({"silentMfa"}),
     Invitation, Recovery({"selfService"}, {"password"}), Recovery({}, {"lock", "deactivate"}),
     PasswordChange, Signup,
     Management("required", {"email", "totp"}, {"email"}), Management("optional", {"email"}, {"totp"}),
     Management("optional", {"email", "totp"}, {}), Management("required", {"email", "totp"}, {"email", "totp"})}
Symmetry == Permutations(Requests)
=============================================================================
