--------------------------- MODULE WorkflowSchemas ---------------------------
(***************************************************************************)
(* The schemas of the six workflows of auth-moost.  A schema is a sequence *)
(* of [step, when, unless]: the step runs if every fact of `when' holds of *)
(* the run's context and none of `unless' does.  "while" opens a loop and  *)
(* "again" closes it, "leave" ends the loop and "break" the run.           *)
(* Left out: the steps that only notify, show a page or call a hook of the *)
(* deployment.                                                             *)
(***************************************************************************)
EXTENDS Sequences

S(step, when, unless) == [step |-> step, when |-> when, unless |-> unless]
Gate(steps, when, unless) ==
    [i \in DOMAIN steps |-> S(steps[i].step, steps[i].when \cup when, steps[i].unless \cup unless)]

PincodeSendCheckPair == << S("pincode-send", {}, {"pin"}), S("pincode-check", {}, {"aborted"}) >>

PasswordPhase == << S("create-password-form", {"newPassword"}, {}) >>

ConsentsTail == << S("persist-consents", {"terms", "decided"}, {}) >>

EnrollTrio ==
    << S("enroll-pick-method", {}, {"enrolling"}),
       S("enroll-address", {"enrolling"}, {"enrollTotp", "ready"}),
       S("enroll-totp-qr", {"enrolling", "enrollTotp"}, {"ready"}),
       S("enroll-send", {"enrolling", "ready"}, {"enrollTotp", "done", "pin"}),
       S("enroll-confirm", {"enrolling", "ready"}, {"done"}) >>

MfaStepUpLoop ==
    << S("while", {"stepUp", "byFactor"}, {"otp", "aborted"}),
       S("load-enrolled-mfa-methods", {}, {"otp"}),
       S("select-mfa-method", {}, {"otp"}),
       S("select-2fa", {"many"}, {"otp", "method"}),
       S("manage-stepup-confirm", {"emailMethod"}, {"otp", "stepUpConfirmed", "pin"}),
       S("leave", {"aborted"}, {}) >>
    \o Gate(PincodeSendCheckPair, {"emailMethod"}, {"otp"}) \o
    << S("totp-check", {"totpMethod"}, {"otp"}),
       S("again", {}, {}) >>

MfaLoop ==
    << S("while", {"mfa"}, {"otp"}),
       S("check-trusted-device", {"skipsMfa"}, {"otp"}),
       S("load-enrolled-mfa-methods", {}, {"otp"}),
       S("select-mfa-method", {}, {"otp"}),
       S("select-2fa", {"many"}, {"otp", "method"}) >>
    \o Gate(PincodeSendCheckPair, {"emailMethod"}, {"otp"}) \o
    << S("totp-check", {"totpMethod"}, {"otp"}) >>
    \o Gate(EnrollTrio, {}, {"otp", "enrolled"}) \o
    << S("risk-step-up", {"otp"}, {"riskEvaluated"}),
       S("again", {}, {}) >>

OtpLoop == << S("while", {}, {"otp", "aborted"}) >> \o PincodeSendCheckPair
           \o << S("again", {}, {}), S("break", {"aborted"}, {}) >>

LoginFlow ==
    << S("init-login", {}, {}),
       S("sso-callback", {"idpInbound"}, {}),
       S("credentials", {}, {"idpInbound", "sub", "magicLink"}),
       S("magic-link-request", {"magicLink"}, {"sub"}),
       S("magic-link-send", {"magicLink"}, {"sub"}),
       S("magic-link-confirm", {"magicLink"}, {"sub"}),
       S("magic-link-verified", {"magicLink"}, {"sub", "aborted"}),
       S("prove-control", {"pendingLink"}, {"sub"}),
       S("break", {}, {"sub"}),
       S("prepare-consents", {}, {}),
       S("prepare-semantic-flags", {}, {}) >>
    \o PasswordPhase \o
    << S("break", {"aborted"}, {}),
       S("ask/email", {"ensureEmail"}, {"asked", "emailConfirmed"}),
       S("verify/email", {"ensureEmail", "asked"}, {"emailConfirmed"}) >>
    \o MfaLoop \o
    << S("revoke-sessions", {"passwordChanged"}, {"aborted"}),
       S("device-trust", {"deviceTrust", "otp", "newDevice"}, {"newPassword"}),
       S("terms-bump-prompt", {"terms"}, {"decided"}) >>
    \o ConsentsTail \o
    << S("load-active-sessions", {"sessionLimit"}, {}),
       S("concurrency-limit", {"sessionLimit", "atLimit"}, {}),
       S("break", {"aborted"}, {}),
       S("check-password-unchanged", {"passwordStamp"}, {"passwordChanged"}),
       S("check-can-sign-in", {"sub"}, {"aborted"}),
       S("break", {"aborted"}, {}),
       S("issue", {}, {"authz"}),
       S("authz-consent", {"authz"}, {}),
       S("check-password-unchanged", {"approved", "passwordStamp"}, {"passwordChanged"}),
       S("break", {"aborted"}, {}),
       S("mint-authz-code", {"approved"}, {}) >>

AutoLogin == << S("auto-login-check", {"autoLogin"}, {}), S("finalize-auto-login", {"autoLogin"}, {}) >>

InviteFlow ==
    << S("admin-form", {}, {"named"}),
       S("create-user", {"named"}, {"sub"}),
       S("send-email", {"sub"}, {}),
       S("init-invite-accept", {}, {}),
       S("check-pending-invitation", {}, {}),
       S("break", {"alreadyAccepted"}, {}),
       S("prepare-consents", {}, {}) >>
    \o PasswordPhase \o MfaLoop \o ConsentsTail \o
    << S("unset-pending-invitation", {}, {}), S("activate-user", {}, {}) >> \o AutoLogin

RecoveryFlow ==
    << S("request", {}, {}),
       S("select-recovery-mode", {"choice"}, {}),
       S("magic-link-send", {"magicLink"}, {}),
       S("magic-link-confirm", {"magicLink"}, {}),
       S("recovery-link-verified", {"magicLink"}, {}),
       S("break", {"aborted"}, {}),
       S("break", {}, {"sub", "otpMode"}) >>
    \o OtpLoop \o
    << S("prepare-consents", {"otp"}, {}),
       S("create-password-form", {"otp"}, {}),
       S("break", {"aborted"}, {}),
       S("revoke-sessions", {}, {}),
       S("unlock-account", {"selfService"}, {}) >>
    \o ConsentsTail \o
    << S("recovery-lock-check", {}, {"selfService"}),
       S("break", {"aborted"}, {}) >> \o AutoLogin

ChangePasswordFlow ==
    << S("init-change-password", {}, {}), S("change-password-form", {}, {}),
       S("finish-change-password", {}, {}) >>

\* Mutant: no password in place of a factor that cannot be challenged.
AddMfaFlowByFactor ==
    << S("init-add-mfa", {}, {}) >> \o MfaStepUpLoop \o
    << S("manage-menu", {"stepUp"}, {"aborted", "acting"}),
       S("confirm-remove-mfa", {"removing"}, {"aborted"}) >>
    \o Gate(EnrollTrio, {"canEnroll"}, {"aborted", "removing"})

AddMfaFlow ==
    << S("init-add-mfa", {}, {}) >> \o MfaStepUpLoop \o
    << S("manage-password-reauth", {"stepUp"}, {"byFactor", "otp"}),
       S("manage-stepup-done", {"stepUp", "otp"}, {"aborted", "stepUpDone"}),
       S("manage-menu", {"stepUp"}, {"aborted", "acting"}),
       S("confirm-remove-mfa", {"removing"}, {"aborted"}) >>
    \o Gate(EnrollTrio, {"canEnroll"}, {"aborted", "removing"})

SignupFlow ==
    << S("signup-form", {}, {}),
       S("break", {}, {"submitted"}) >>
    \o OtpLoop \o
    << S("signup-create-user", {"otp"}, {"sub"}),
       S("break", {}, {"sub"}),
       S("prepare-consents", {}, {}) >>
    \o PasswordPhase \o
    << S("break", {"aborted"}, {}), S("activate-user", {}, {}) >> \o ConsentsTail \o AutoLogin

Flows == {"login", "invite", "recovery", "change", "addMfa", "signup"}
Schema == [login |-> LoginFlow, invite |-> InviteFlow, recovery |-> RecoveryFlow,
           change |-> ChangePasswordFlow, addMfa |-> AddMfaFlow, signup |-> SignupFlow]
=============================================================================
