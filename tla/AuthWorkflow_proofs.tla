-------------------------- MODULE AuthWorkflow_proofs --------------------------
(***************************************************************************)
(* Proofs about AuthWorkflow, for every value of its constants: any number *)
(* of requests, deployments, restores, codes, tries and failures.          *)
(*                                                                         *)
(* The argument: the schemas are read row by row (LoginSteps and its       *)
(* kin); the engine's Follow is shown to skip no gate of a schema (Walk,   *)
(* WalkOn); each step leaves its request with a context good for where it  *)
(* stands (one lemma per step, ...Moves); and so WfInv, from which the     *)
(* properties follow, is inductive (MovedKeeps, StepKeeps).  The bound on  *)
(* guesses has an invariant of its own (GuessInv), which counts the        *)
(* requests between a counted attempt and its comparison.                  *)
(***************************************************************************)
EXTENDS AuthWorkflow, FiniteSetTheorems, TLAPS

(* ------------------------- The schemas, row by row ---------------------- *)
\* Every word a schema uses: the steps it names and the facts it asks about.
Steps ==
    {"init-login", "sso-callback", "credentials", "magic-link-request", "magic-link-send",
     "magic-link-confirm", "magic-link-verified", "prove-control", "break",
     "prepare-consents", "prepare-semantic-flags", "create-password-form", "ask/email",
     "verify/email", "while", "check-trusted-device", "load-enrolled-mfa-methods",
     "select-mfa-method", "select-2fa", "pincode-send", "pincode-check", "totp-check",
     "enroll-pick-method", "enroll-address", "enroll-totp-qr", "enroll-send",
     "enroll-confirm", "risk-step-up", "again", "revoke-sessions", "device-trust",
     "terms-bump-prompt", "persist-consents", "load-active-sessions", "concurrency-limit",
     "check-password-unchanged", "check-can-sign-in", "issue", "authz-consent",
     "mint-authz-code", "admin-form", "create-user", "send-email", "init-invite-accept",
     "check-pending-invitation", "unset-pending-invitation", "activate-user",
     "auto-login-check", "finalize-auto-login", "request", "select-recovery-mode",
     "recovery-link-verified", "unlock-account", "recovery-lock-check",
     "init-change-password", "change-password-form", "finish-change-password", "init-add-mfa",
     "manage-stepup-confirm", "leave", "manage-password-reauth", "manage-stepup-done",
     "manage-menu", "confirm-remove-mfa", "signup-form", "signup-create-user"}
FactNames ==
    {"idpInbound", "sub", "magicLink", "aborted", "pendingLink", "newPassword", "ensureEmail",
     "asked", "emailConfirmed", "mfa", "otp", "skipsMfa", "many", "method", "emailMethod",
     "pin", "totpMethod", "enrolled", "enrolling", "enrollTotp", "ready", "done",
     "riskEvaluated", "passwordChanged", "deviceTrust", "newDevice", "terms", "decided",
     "sessionLimit", "atLimit", "passwordStamp", "authz", "approved", "named",
     "alreadyAccepted", "autoLogin", "choice", "otpMode", "selfService", "stepUp", "byFactor",
     "stepUpConfirmed", "stepUpDone", "acting", "removing", "canEnroll", "submitted"}
Row == [step : Steps, when : SUBSET FactNames, unless : SUBSET FactNames]

LEMMA SRow == \A a, b, c : a \in Steps /\ b \subseteq FactNames /\ c \subseteq FactNames => S(a, b, c) \in Row
BY DEF S, Row

\* m is p followed by t.
Joined(p, t, m) ==
    /\ m \in Seq(Row) /\ Len(m) = Len(p) + Len(t)
    /\ \A i \in 1..(Len(p) + Len(t)) : m[i] = IF i <= Len(p) THEN p[i] ELSE t[i - Len(p)]
LEMMA Cat == \A p, t : p \in Seq(Row) /\ t \in Seq(Row) => Joined(p, t, p \o t)
BY DEF Joined

\* g is the same steps under one more condition.
Gated(steps, w, u, g) ==
    /\ g \in Seq(Row) /\ Len(g) = Len(steps)
    /\ \A i \in 1..Len(steps) : /\ g[i].step = steps[i].step
                                /\ g[i].when = steps[i].when \cup w /\ u \subseteq g[i].unless

LEMMA GateRows ==
  \A steps \in Seq(Row), w, u \in SUBSET FactNames : Gated(steps, w, u, Gate(steps, w, u))
<1> TAKE steps \in Seq(Row), w, u \in SUBSET FactNames
<1>1. Gate(steps, w, u) = [i \in 1..Len(steps) |-> S(steps[i].step, steps[i].when \cup w, steps[i].unless \cup u)]
  BY DEF Gate
<1>2. \A i \in 1..Len(steps) : S(steps[i].step, steps[i].when \cup w, steps[i].unless \cup u) \in Row
  <2> TAKE i \in 1..Len(steps)
  <2>1. steps[i] \in Row
    OBVIOUS
  <2>2. steps[i].step \in Steps /\ steps[i].when \subseteq FactNames /\ steps[i].unless \subseteq FactNames
    BY <2>1 DEF Row
  <2> QED
    BY <2>2, SRow
<1>3. Gate(steps, w, u) \in Seq(Row) /\ Len(Gate(steps, w, u)) = Len(steps)
  <2> DEFINE e(i) == S(steps[i].step, steps[i].when \cup w, steps[i].unless \cup u)
  <2>1. \A i \in 1..Len(steps) : e(i) \in Row
    BY <1>2
  <2>2. Gate(steps, w, u) = [i \in 1..Len(steps) |-> e(i)]
    BY <1>1
  <2> HIDE DEF e
  <2> QED
    BY <2>1, <2>2
<1>4. \A i \in 1..Len(steps) : /\ Gate(steps, w, u)[i].step = steps[i].step
                              /\ Gate(steps, w, u)[i].when = steps[i].when \cup w
                              /\ u \subseteq Gate(steps, w, u)[i].unless
  BY <1>1 DEF S
<1> QED
  BY <1>3, <1>4 DEF Gated

\* What stands where in each part of a schema, and then in each schema: the steps
\* the invariant is about, and what they ask for.
LEMMA PincodeSendCheckPairRows ==
    /\ PincodeSendCheckPair \in Seq(Row) /\ Len(PincodeSendCheckPair) = 2
    /\ PincodeSendCheckPair[1].step = "pincode-send"
    /\ PincodeSendCheckPair[2].step = "pincode-check"
BY SRow DEF PincodeSendCheckPair, Steps, FactNames, S

LEMMA PasswordPhaseRows ==
    /\ PasswordPhase \in Seq(Row) /\ Len(PasswordPhase) = 1
    /\ PasswordPhase[1] = S("create-password-form", {"newPassword"}, {})
BY SRow DEF PasswordPhase, Steps, FactNames, S

LEMMA ConsentsTailRows ==
    /\ ConsentsTail \in Seq(Row) /\ Len(ConsentsTail) = 1
    /\ ConsentsTail[1].step = "persist-consents"
BY SRow DEF ConsentsTail, Steps, FactNames, S

LEMMA AutoLoginRows ==
    /\ AutoLogin \in Seq(Row) /\ Len(AutoLogin) = 2
    /\ AutoLogin[1].step = "auto-login-check"
    /\ AutoLogin[2].step = "finalize-auto-login"
BY SRow DEF AutoLogin, Steps, FactNames, S

LEMMA EnrollTrioRows ==
    /\ EnrollTrio \in Seq(Row) /\ Len(EnrollTrio) = 5
    /\ EnrollTrio[1].step = "enroll-pick-method"
    /\ EnrollTrio[2].step = "enroll-address"
    /\ EnrollTrio[3].step = "enroll-totp-qr"
    /\ EnrollTrio[4].step = "enroll-send"
    /\ EnrollTrio[5].step = "enroll-confirm" /\ "enrolling" \in EnrollTrio[5].when /\ "aborted" \notin EnrollTrio[5].when
BY SRow DEF EnrollTrio, Steps, FactNames, S

LEMMA OtpLoopRows ==
    /\ OtpLoop \in Seq(Row) /\ Len(OtpLoop) = 5
    /\ OtpLoop[1] = S("while", {}, {"otp", "aborted"})
    /\ OtpLoop[2].step = "pincode-send"
    /\ OtpLoop[3].step = "pincode-check"
    /\ OtpLoop[4].step = "again"
    /\ OtpLoop[5] = S("break", {"aborted"}, {})
<1> DEFINE p1 == << S("while", {}, {"otp", "aborted"}) >>
           p3 == << S("again", {}, {}), S("break", {"aborted"}, {}) >>
           m2 == p1 \o PincodeSendCheckPair
           m3 == m2 \o p3
<1>1. p1 \in Seq(Row) /\ Len(p1) = 1
  BY SRow DEF Steps, FactNames
<1>2. /\ p1[1] = S("while", {}, {"otp", "aborted"})
  BY DEF S
<1>3. PincodeSendCheckPair \in Seq(Row) /\ Len(PincodeSendCheckPair) = 2
  BY PincodeSendCheckPairRows
<1>4. p3 \in Seq(Row) /\ Len(p3) = 2
  BY SRow DEF Steps, FactNames
<1>5. /\ p3[1].step = "again"
      /\ p3[2] = S("break", {"aborted"}, {})
  BY DEF S
<1> HIDE DEF p1, p3
<1>6. Joined(p1, PincodeSendCheckPair, m2) BY <1>1, <1>3, Cat
<1> HIDE DEF m2
<1>7. /\ m2 \in Seq(Row) /\ Len(m2) = 3
      /\ \A i \in 1..3 : m2[i] = IF i <= 1 THEN p1[i] ELSE PincodeSendCheckPair[i - 1]
  BY <1>6, <1>1, <1>3 DEF Joined
<1>8. \A i \in 1..3 : m2[i] = IF i <= 1 THEN p1[i] ELSE PincodeSendCheckPair[i - 1]
  BY <1>7
<1>9. Joined(m2, p3, m3) BY <1>7, <1>4, Cat
<1> HIDE DEF m3
<1>10. /\ m3 \in Seq(Row) /\ Len(m3) = 5
      /\ \A i \in 1..5 : m3[i] = IF i <= 3 THEN m2[i] ELSE p3[i - 3]
  BY <1>9, <1>7, <1>4 DEF Joined
<1>11. \A i \in 1..5 : m3[i] = IF i <= 3 THEN m2[i] ELSE p3[i - 3]
  BY <1>10
<1>12. OtpLoop = m3 BY DEF OtpLoop, p1, p3, m2, m3
<1>13. /\ OtpLoop[1] = p1[1]
  BY <1>12, <1>8, <1>11
<1>14. /\ OtpLoop[2] = PincodeSendCheckPair[1] /\ OtpLoop[3] = PincodeSendCheckPair[2]
  BY <1>12, <1>8, <1>11
<1>15. /\ OtpLoop[4] = p3[1] /\ OtpLoop[5] = p3[2]
  BY <1>12, <1>11
<1>16. /\ OtpLoop[1] = S("while", {}, {"otp", "aborted"})
  BY <1>13, <1>2
<1>17. /\ OtpLoop[2].step = "pincode-send"
      /\ OtpLoop[3].step = "pincode-check"
  BY <1>14, PincodeSendCheckPairRows
<1>18. /\ OtpLoop[4].step = "again"
      /\ OtpLoop[5] = S("break", {"aborted"}, {})
  BY <1>15, <1>5
<1> QED BY <1>12, <1>10, <1>16, <1>17, <1>18

LEMMA LoopPincodeRows ==
  ASSUME NEW g, g = Gate(PincodeSendCheckPair, {"emailMethod"}, {"otp"})
  PROVE  /\ g \in Seq(Row) /\ Len(g) = 2
         /\ g[1].step = "pincode-send"
         /\ g[2].step = "pincode-check" /\ "emailMethod" \in g[2].when
<1>1. PICK w \in SUBSET FactNames, u \in SUBSET FactNames : w = {"emailMethod"} /\ u = {"otp"}
  BY DEF FactNames
<1>2. PICK s \in Seq(Row) : s = PincodeSendCheckPair /\ Len(s) = 2 /\ g = Gate(s, w, u)
  BY <1>1, PincodeSendCheckPairRows
<1>3. Gated(s, w, u, g)
  BY <1>1, <1>2, GateRows
<1>4. s[1].step = "pincode-send" /\ s[2].step = "pincode-check"
  BY <1>2, PincodeSendCheckPairRows DEF S
<1> QED
  BY <1>1, <1>2, <1>3, <1>4 DEF Gated

LEMMA LoopEnrollRows ==
  ASSUME NEW g, g = Gate(EnrollTrio, {}, {"otp", "enrolled"})
  PROVE  /\ g \in Seq(Row) /\ Len(g) = 5
         /\ g[1].step = "enroll-pick-method"
         /\ g[2].step = "enroll-address"
         /\ g[3].step = "enroll-totp-qr"
         /\ g[4].step = "enroll-send"
         /\ g[5].step = "enroll-confirm" /\ "enrolling" \in g[5].when /\ "aborted" \notin g[5].when
<1>1. PICK w \in SUBSET FactNames, u \in SUBSET FactNames : w = {} /\ u = {"otp", "enrolled"}
  BY DEF FactNames
<1>2. PICK s \in Seq(Row) : s = EnrollTrio /\ Len(s) = 5 /\ g = Gate(s, w, u)
  BY <1>1, EnrollTrioRows
<1>3. Gated(s, w, u, g)
  BY <1>1, <1>2, GateRows
<1>4. s[1].step = "enroll-pick-method" /\ s[2].step = "enroll-address" /\ s[3].step = "enroll-totp-qr" /\ s[4].step = "enroll-send" /\ s[5].step = "enroll-confirm" /\ "enrolling" \in s[5].when /\ "aborted" \notin s[5].when
  BY <1>2, EnrollTrioRows DEF S
<1> QED
  BY <1>1, <1>2, <1>3, <1>4 DEF Gated

LEMMA MfaLoopRows ==
    /\ MfaLoop \in Seq(Row) /\ Len(MfaLoop) = 15
    /\ MfaLoop[1] = S("while", {"mfa"}, {"otp"})
    /\ MfaLoop[2].step = "check-trusted-device"
    /\ MfaLoop[3].step = "load-enrolled-mfa-methods"
    /\ MfaLoop[4].step = "select-mfa-method"
    /\ MfaLoop[5].step = "select-2fa"
    /\ MfaLoop[6].step = "pincode-send"
    /\ MfaLoop[7].step = "pincode-check" /\ "emailMethod" \in MfaLoop[7].when
    /\ MfaLoop[8].step = "totp-check"
    /\ MfaLoop[9].step = "enroll-pick-method"
    /\ MfaLoop[10].step = "enroll-address"
    /\ MfaLoop[11].step = "enroll-totp-qr"
    /\ MfaLoop[12].step = "enroll-send"
    /\ MfaLoop[13].step = "enroll-confirm" /\ "enrolling" \in MfaLoop[13].when /\ "aborted" \notin MfaLoop[13].when
    /\ MfaLoop[14].step = "risk-step-up"
    /\ MfaLoop[15].step = "again"
<1> DEFINE p1 == << S("while", {"mfa"}, {"otp"}),
             S("check-trusted-device", {"skipsMfa"}, {"otp"}),
             S("load-enrolled-mfa-methods", {}, {"otp"}),
             S("select-mfa-method", {}, {"otp"}),
             S("select-2fa", {"many"}, {"otp", "method"}) >>
           p2 == Gate(PincodeSendCheckPair, {"emailMethod"}, {"otp"})
           p3 == << S("totp-check", {"totpMethod"}, {"otp"}) >>
           p4 == Gate(EnrollTrio, {}, {"otp", "enrolled"})
           p5 == << S("risk-step-up", {"otp"}, {"riskEvaluated"}),
             S("again", {}, {}) >>
           m2 == p1 \o p2
           m3 == m2 \o p3
           m4 == m3 \o p4
           m5 == m4 \o p5
<1>1. p1 \in Seq(Row) /\ Len(p1) = 5
  BY SRow DEF Steps, FactNames
<1>2. /\ p1[1] = S("while", {"mfa"}, {"otp"})
      /\ p1[2].step = "check-trusted-device"
      /\ p1[3].step = "load-enrolled-mfa-methods"
      /\ p1[4].step = "select-mfa-method"
      /\ p1[5].step = "select-2fa"
  BY DEF S
<1>3. p2 \in Seq(Row) /\ Len(p2) = 2
  BY LoopPincodeRows
<1>4. /\ p2[1].step = "pincode-send"
      /\ p2[2].step = "pincode-check" /\ "emailMethod" \in p2[2].when
  BY LoopPincodeRows
<1>5. p3 \in Seq(Row) /\ Len(p3) = 1
  BY SRow DEF Steps, FactNames
<1>6. /\ p3[1].step = "totp-check"
  BY DEF S
<1>7. p4 \in Seq(Row) /\ Len(p4) = 5
  BY LoopEnrollRows
<1>8. /\ p4[1].step = "enroll-pick-method"
      /\ p4[2].step = "enroll-address"
      /\ p4[3].step = "enroll-totp-qr"
      /\ p4[4].step = "enroll-send"
      /\ p4[5].step = "enroll-confirm" /\ "enrolling" \in p4[5].when /\ "aborted" \notin p4[5].when
  BY LoopEnrollRows
<1>9. p5 \in Seq(Row) /\ Len(p5) = 2
  BY SRow DEF Steps, FactNames
<1>10. /\ p5[1].step = "risk-step-up"
      /\ p5[2].step = "again"
  BY DEF S
<1> HIDE DEF p1, p2, p3, p4, p5
<1>11. Joined(p1, p2, m2) BY <1>1, <1>3, Cat
<1> HIDE DEF m2
<1>12. /\ m2 \in Seq(Row) /\ Len(m2) = 7
      /\ \A i \in 1..7 : m2[i] = IF i <= 5 THEN p1[i] ELSE p2[i - 5]
  BY <1>11, <1>1, <1>3 DEF Joined
<1>13. \A i \in 1..7 : m2[i] = IF i <= 5 THEN p1[i] ELSE p2[i - 5]
  BY <1>12
<1>14. Joined(m2, p3, m3) BY <1>12, <1>5, Cat
<1> HIDE DEF m3
<1>15. /\ m3 \in Seq(Row) /\ Len(m3) = 8
      /\ \A i \in 1..8 : m3[i] = IF i <= 7 THEN m2[i] ELSE p3[i - 7]
  BY <1>14, <1>12, <1>5 DEF Joined
<1>16. \A i \in 1..8 : m3[i] = IF i <= 7 THEN m2[i] ELSE p3[i - 7]
  BY <1>15
<1>17. Joined(m3, p4, m4) BY <1>15, <1>7, Cat
<1> HIDE DEF m4
<1>18. /\ m4 \in Seq(Row) /\ Len(m4) = 13
      /\ \A i \in 1..13 : m4[i] = IF i <= 8 THEN m3[i] ELSE p4[i - 8]
  BY <1>17, <1>15, <1>7 DEF Joined
<1>19. \A i \in 1..13 : m4[i] = IF i <= 8 THEN m3[i] ELSE p4[i - 8]
  BY <1>18
<1>20. Joined(m4, p5, m5) BY <1>18, <1>9, Cat
<1> HIDE DEF m5
<1>21. /\ m5 \in Seq(Row) /\ Len(m5) = 15
      /\ \A i \in 1..15 : m5[i] = IF i <= 13 THEN m4[i] ELSE p5[i - 13]
  BY <1>20, <1>18, <1>9 DEF Joined
<1>22. \A i \in 1..15 : m5[i] = IF i <= 13 THEN m4[i] ELSE p5[i - 13]
  BY <1>21
<1>23. MfaLoop = m5 BY DEF MfaLoop, p1, p2, p3, p4, p5, m2, m3, m4, m5
<1>24. /\ MfaLoop[1] = p1[1] /\ MfaLoop[2] = p1[2] /\ MfaLoop[3] = p1[3]
      /\ MfaLoop[4] = p1[4] /\ MfaLoop[5] = p1[5]
  BY <1>23, <1>13, <1>16, <1>19, <1>22
<1>25. /\ MfaLoop[6] = p2[1] /\ MfaLoop[7] = p2[2]
  BY <1>23, <1>13, <1>16, <1>19, <1>22
<1>26. /\ MfaLoop[8] = p3[1]
  BY <1>23, <1>16, <1>19, <1>22
<1>27. /\ MfaLoop[9] = p4[1] /\ MfaLoop[10] = p4[2] /\ MfaLoop[11] = p4[3]
      /\ MfaLoop[12] = p4[4] /\ MfaLoop[13] = p4[5]
  BY <1>23, <1>19, <1>22
<1>28. /\ MfaLoop[14] = p5[1] /\ MfaLoop[15] = p5[2]
  BY <1>23, <1>22
<1>29. /\ MfaLoop[1] = S("while", {"mfa"}, {"otp"})
      /\ MfaLoop[2].step = "check-trusted-device"
      /\ MfaLoop[3].step = "load-enrolled-mfa-methods"
      /\ MfaLoop[4].step = "select-mfa-method"
      /\ MfaLoop[5].step = "select-2fa"
  BY <1>24, <1>2
<1>30. /\ MfaLoop[6].step = "pincode-send"
      /\ MfaLoop[7].step = "pincode-check" /\ "emailMethod" \in MfaLoop[7].when
  BY <1>25, <1>4
<1>31. /\ MfaLoop[8].step = "totp-check"
  BY <1>26, <1>6
<1>32. /\ MfaLoop[9].step = "enroll-pick-method"
      /\ MfaLoop[10].step = "enroll-address"
      /\ MfaLoop[11].step = "enroll-totp-qr"
      /\ MfaLoop[12].step = "enroll-send"
      /\ MfaLoop[13].step = "enroll-confirm" /\ "enrolling" \in MfaLoop[13].when /\ "aborted" \notin MfaLoop[13].when
  BY <1>27, <1>8
<1>33. /\ MfaLoop[14].step = "risk-step-up"
      /\ MfaLoop[15].step = "again"
  BY <1>28, <1>10
<1> QED BY <1>23, <1>21, <1>29, <1>30, <1>31, <1>32, <1>33

LEMMA StepUpPincodeRows ==
  ASSUME NEW g, g = Gate(PincodeSendCheckPair, {"emailMethod"}, {"otp"})
  PROVE  /\ g \in Seq(Row) /\ Len(g) = 2
         /\ g[1].step = "pincode-send"
         /\ g[2].step = "pincode-check" /\ "emailMethod" \in g[2].when
<1>1. PICK w \in SUBSET FactNames, u \in SUBSET FactNames : w = {"emailMethod"} /\ u = {"otp"}
  BY DEF FactNames
<1>2. PICK s \in Seq(Row) : s = PincodeSendCheckPair /\ Len(s) = 2 /\ g = Gate(s, w, u)
  BY <1>1, PincodeSendCheckPairRows
<1>3. Gated(s, w, u, g)
  BY <1>1, <1>2, GateRows
<1>4. s[1].step = "pincode-send" /\ s[2].step = "pincode-check"
  BY <1>2, PincodeSendCheckPairRows DEF S
<1> QED
  BY <1>1, <1>2, <1>3, <1>4 DEF Gated

LEMMA MfaStepUpLoopRows ==
    /\ MfaStepUpLoop \in Seq(Row) /\ Len(MfaStepUpLoop) = 10
    /\ MfaStepUpLoop[1] = S("while", {"stepUp", "byFactor"}, {"otp", "aborted"})
    /\ MfaStepUpLoop[2].step = "load-enrolled-mfa-methods"
    /\ MfaStepUpLoop[3].step = "select-mfa-method"
    /\ MfaStepUpLoop[4].step = "select-2fa"
    /\ MfaStepUpLoop[5].step = "manage-stepup-confirm"
    /\ MfaStepUpLoop[6] = S("leave", {"aborted"}, {})
    /\ MfaStepUpLoop[7].step = "pincode-send"
    /\ MfaStepUpLoop[8].step = "pincode-check" /\ "emailMethod" \in MfaStepUpLoop[8].when
    /\ MfaStepUpLoop[9].step = "totp-check"
    /\ MfaStepUpLoop[10].step = "again"
<1> DEFINE p1 == << S("while", {"stepUp", "byFactor"}, {"otp", "aborted"}),
             S("load-enrolled-mfa-methods", {}, {"otp"}),
             S("select-mfa-method", {}, {"otp"}),
             S("select-2fa", {"many"}, {"otp", "method"}),
             S("manage-stepup-confirm", {"emailMethod"}, {"otp", "stepUpConfirmed", "pin"}),
             S("leave", {"aborted"}, {}) >>
           p2 == Gate(PincodeSendCheckPair, {"emailMethod"}, {"otp"})
           p3 == << S("totp-check", {"totpMethod"}, {"otp"}),
             S("again", {}, {}) >>
           m2 == p1 \o p2
           m3 == m2 \o p3
<1>1. p1 \in Seq(Row) /\ Len(p1) = 6
  BY SRow DEF Steps, FactNames
<1>2. /\ p1[1] = S("while", {"stepUp", "byFactor"}, {"otp", "aborted"})
      /\ p1[2].step = "load-enrolled-mfa-methods"
      /\ p1[3].step = "select-mfa-method"
      /\ p1[4].step = "select-2fa"
      /\ p1[5].step = "manage-stepup-confirm"
      /\ p1[6] = S("leave", {"aborted"}, {})
  BY DEF S
<1>3. p2 \in Seq(Row) /\ Len(p2) = 2
  BY StepUpPincodeRows
<1>4. /\ p2[1].step = "pincode-send"
      /\ p2[2].step = "pincode-check" /\ "emailMethod" \in p2[2].when
  BY StepUpPincodeRows
<1>5. p3 \in Seq(Row) /\ Len(p3) = 2
  BY SRow DEF Steps, FactNames
<1>6. /\ p3[1].step = "totp-check"
      /\ p3[2].step = "again"
  BY DEF S
<1> HIDE DEF p1, p2, p3
<1>7. Joined(p1, p2, m2) BY <1>1, <1>3, Cat
<1> HIDE DEF m2
<1>8. /\ m2 \in Seq(Row) /\ Len(m2) = 8
      /\ \A i \in 1..8 : m2[i] = IF i <= 6 THEN p1[i] ELSE p2[i - 6]
  BY <1>7, <1>1, <1>3 DEF Joined
<1>9. \A i \in 1..8 : m2[i] = IF i <= 6 THEN p1[i] ELSE p2[i - 6]
  BY <1>8
<1>10. Joined(m2, p3, m3) BY <1>8, <1>5, Cat
<1> HIDE DEF m3
<1>11. /\ m3 \in Seq(Row) /\ Len(m3) = 10
      /\ \A i \in 1..10 : m3[i] = IF i <= 8 THEN m2[i] ELSE p3[i - 8]
  BY <1>10, <1>8, <1>5 DEF Joined
<1>12. \A i \in 1..10 : m3[i] = IF i <= 8 THEN m2[i] ELSE p3[i - 8]
  BY <1>11
<1>13. MfaStepUpLoop = m3 BY DEF MfaStepUpLoop, p1, p2, p3, m2, m3
<1>14. /\ MfaStepUpLoop[1] = p1[1] /\ MfaStepUpLoop[2] = p1[2] /\ MfaStepUpLoop[3] = p1[3]
      /\ MfaStepUpLoop[4] = p1[4] /\ MfaStepUpLoop[5] = p1[5] /\ MfaStepUpLoop[6] = p1[6]
  BY <1>13, <1>9, <1>12
<1>15. /\ MfaStepUpLoop[7] = p2[1] /\ MfaStepUpLoop[8] = p2[2]
  BY <1>13, <1>9, <1>12
<1>16. /\ MfaStepUpLoop[9] = p3[1] /\ MfaStepUpLoop[10] = p3[2]
  BY <1>13, <1>12
<1>17. /\ MfaStepUpLoop[1] = S("while", {"stepUp", "byFactor"}, {"otp", "aborted"})
      /\ MfaStepUpLoop[2].step = "load-enrolled-mfa-methods"
      /\ MfaStepUpLoop[3].step = "select-mfa-method"
      /\ MfaStepUpLoop[4].step = "select-2fa"
      /\ MfaStepUpLoop[5].step = "manage-stepup-confirm"
      /\ MfaStepUpLoop[6] = S("leave", {"aborted"}, {})
  BY <1>14, <1>2
<1>18. /\ MfaStepUpLoop[7].step = "pincode-send"
      /\ MfaStepUpLoop[8].step = "pincode-check" /\ "emailMethod" \in MfaStepUpLoop[8].when
  BY <1>15, <1>4
<1>19. /\ MfaStepUpLoop[9].step = "totp-check"
      /\ MfaStepUpLoop[10].step = "again"
  BY <1>16, <1>6
<1> QED BY <1>13, <1>11, <1>17, <1>18, <1>19

LEMMA LoginFlowRows ==
    /\ LoginFlow \in Seq(Row) /\ Len(LoginFlow) = 45
    /\ LoginFlow[1].step = "init-login"
    /\ LoginFlow[2].step = "sso-callback"
    /\ LoginFlow[3].step = "credentials"
    /\ LoginFlow[4].step = "magic-link-request"
    /\ LoginFlow[5].step = "magic-link-send"
    /\ LoginFlow[6].step = "magic-link-confirm"
    /\ LoginFlow[7].step = "magic-link-verified"
    /\ LoginFlow[8].step = "prove-control"
    /\ LoginFlow[9] = S("break", {}, {"sub"})
    /\ LoginFlow[10].step = "prepare-consents"
    /\ LoginFlow[11].step = "prepare-semantic-flags"
    /\ LoginFlow[12] = S("create-password-form", {"newPassword"}, {})
    /\ LoginFlow[13] = S("break", {"aborted"}, {})
    /\ LoginFlow[14] = S("ask/email", {"ensureEmail"}, {"asked", "emailConfirmed"})
    /\ LoginFlow[15] = S("verify/email", {"ensureEmail", "asked"}, {"emailConfirmed"})
    /\ LoginFlow[16] = S("while", {"mfa"}, {"otp"})
    /\ LoginFlow[17].step = "check-trusted-device"
    /\ LoginFlow[18].step = "load-enrolled-mfa-methods"
    /\ LoginFlow[19].step = "select-mfa-method"
    /\ LoginFlow[20].step = "select-2fa"
    /\ LoginFlow[21].step = "pincode-send"
    /\ LoginFlow[22].step = "pincode-check" /\ "emailMethod" \in LoginFlow[22].when
    /\ LoginFlow[23].step = "totp-check"
    /\ LoginFlow[24].step = "enroll-pick-method"
    /\ LoginFlow[25].step = "enroll-address"
    /\ LoginFlow[26].step = "enroll-totp-qr"
    /\ LoginFlow[27].step = "enroll-send"
    /\ LoginFlow[28].step = "enroll-confirm" /\ "enrolling" \in LoginFlow[28].when /\ "aborted" \notin LoginFlow[28].when
    /\ LoginFlow[29].step = "risk-step-up"
    /\ LoginFlow[30].step = "again"
    /\ LoginFlow[31].step = "revoke-sessions"
    /\ LoginFlow[32].step = "device-trust"
    /\ LoginFlow[33] = S("terms-bump-prompt", {"terms"}, {"decided"})
    /\ LoginFlow[34].step = "persist-consents"
    /\ LoginFlow[35].step = "load-active-sessions"
    /\ LoginFlow[36].step = "concurrency-limit"
    /\ LoginFlow[37] = S("break", {"aborted"}, {})
    /\ LoginFlow[38].step = "check-password-unchanged"
    /\ LoginFlow[39].step = "check-can-sign-in"
    /\ LoginFlow[40] = S("break", {"aborted"}, {})
    /\ LoginFlow[41].step = "issue"
    /\ LoginFlow[42].step = "authz-consent"
    /\ LoginFlow[43].step = "check-password-unchanged"
    /\ LoginFlow[44] = S("break", {"aborted"}, {})
    /\ LoginFlow[45].step = "mint-authz-code"
<1> DEFINE p1 == << S("init-login", {}, {}),
             S("sso-callback", {"idpInbound"}, {}),
             S("credentials", {}, {"idpInbound", "sub", "magicLink"}),
             S("magic-link-request", {"magicLink"}, {"sub"}),
             S("magic-link-send", {"magicLink"}, {"sub"}),
             S("magic-link-confirm", {"magicLink"}, {"sub"}),
             S("magic-link-verified", {"magicLink"}, {"sub", "aborted"}),
             S("prove-control", {"pendingLink"}, {"sub"}),
             S("break", {}, {"sub"}),
             S("prepare-consents", {}, {}),
             S("prepare-semantic-flags", {}, {}) >>
           p3 == << S("break", {"aborted"}, {}),
             S("ask/email", {"ensureEmail"}, {"asked", "emailConfirmed"}),
             S("verify/email", {"ensureEmail", "asked"}, {"emailConfirmed"}) >>
           p5 == << S("revoke-sessions", {"passwordChanged"}, {"aborted"}),
             S("device-trust", {"deviceTrust", "otp", "newDevice"}, {"newPassword"}),
             S("terms-bump-prompt", {"terms"}, {"decided"}) >>
           p7 == << S("load-active-sessions", {"sessionLimit"}, {}),
             S("concurrency-limit", {"sessionLimit", "atLimit"}, {}),
             S("break", {"aborted"}, {}),
             S("check-password-unchanged", {"passwordStamp"}, {"passwordChanged"}),
             S("check-can-sign-in", {"sub"}, {"aborted"}),
             S("break", {"aborted"}, {}),
             S("issue", {}, {"authz"}),
             S("authz-consent", {"authz"}, {}),
             S("check-password-unchanged", {"approved", "passwordStamp"}, {"passwordChanged"}),
             S("break", {"aborted"}, {}),
             S("mint-authz-code", {"approved"}, {}) >>
           m2 == p1 \o PasswordPhase
           m3 == m2 \o p3
           m4 == m3 \o MfaLoop
           m5 == m4 \o p5
           m6 == m5 \o ConsentsTail
           m7 == m6 \o p7
<1>1. p1 \in Seq(Row) /\ Len(p1) = 11
  BY SRow DEF Steps, FactNames
<1>2. /\ p1[1].step = "init-login"
      /\ p1[2].step = "sso-callback"
      /\ p1[3].step = "credentials"
      /\ p1[4].step = "magic-link-request"
      /\ p1[5].step = "magic-link-send"
      /\ p1[6].step = "magic-link-confirm"
      /\ p1[7].step = "magic-link-verified"
      /\ p1[8].step = "prove-control"
      /\ p1[9] = S("break", {}, {"sub"})
      /\ p1[10].step = "prepare-consents"
      /\ p1[11].step = "prepare-semantic-flags"
  BY DEF S
<1>3. PasswordPhase \in Seq(Row) /\ Len(PasswordPhase) = 1
  BY PasswordPhaseRows
<1>4. p3 \in Seq(Row) /\ Len(p3) = 3
  BY SRow DEF Steps, FactNames
<1>5. /\ p3[1] = S("break", {"aborted"}, {})
      /\ p3[2] = S("ask/email", {"ensureEmail"}, {"asked", "emailConfirmed"})
      /\ p3[3] = S("verify/email", {"ensureEmail", "asked"}, {"emailConfirmed"})
  BY DEF S
<1>6. MfaLoop \in Seq(Row) /\ Len(MfaLoop) = 15
  BY MfaLoopRows
<1>7. p5 \in Seq(Row) /\ Len(p5) = 3
  BY SRow DEF Steps, FactNames
<1>8. /\ p5[1].step = "revoke-sessions"
      /\ p5[2].step = "device-trust"
      /\ p5[3] = S("terms-bump-prompt", {"terms"}, {"decided"})
  BY DEF S
<1>9. ConsentsTail \in Seq(Row) /\ Len(ConsentsTail) = 1
  BY ConsentsTailRows
<1>10. p7 \in Seq(Row) /\ Len(p7) = 11
  BY SRow DEF Steps, FactNames
<1>11. /\ p7[1].step = "load-active-sessions"
      /\ p7[2].step = "concurrency-limit"
      /\ p7[3] = S("break", {"aborted"}, {})
      /\ p7[4].step = "check-password-unchanged"
      /\ p7[5].step = "check-can-sign-in"
      /\ p7[6] = S("break", {"aborted"}, {})
      /\ p7[7].step = "issue"
      /\ p7[8].step = "authz-consent"
      /\ p7[9].step = "check-password-unchanged"
      /\ p7[10] = S("break", {"aborted"}, {})
      /\ p7[11].step = "mint-authz-code"
  BY DEF S
<1> HIDE DEF p1, p3, p5, p7
<1>12. Joined(p1, PasswordPhase, m2) BY <1>1, <1>3, Cat
<1> HIDE DEF m2
<1>13. /\ m2 \in Seq(Row) /\ Len(m2) = 12
      /\ \A i \in 1..12 : m2[i] = IF i <= 11 THEN p1[i] ELSE PasswordPhase[i - 11]
  BY <1>12, <1>1, <1>3 DEF Joined
<1>14. \A i \in 1..12 : m2[i] = IF i <= 11 THEN p1[i] ELSE PasswordPhase[i - 11]
  BY <1>13
<1>15. Joined(m2, p3, m3) BY <1>13, <1>4, Cat
<1> HIDE DEF m3
<1>16. /\ m3 \in Seq(Row) /\ Len(m3) = 15
      /\ \A i \in 1..15 : m3[i] = IF i <= 12 THEN m2[i] ELSE p3[i - 12]
  BY <1>15, <1>13, <1>4 DEF Joined
<1>17. \A i \in 1..15 : m3[i] = IF i <= 12 THEN m2[i] ELSE p3[i - 12]
  BY <1>16
<1>18. Joined(m3, MfaLoop, m4) BY <1>16, <1>6, Cat
<1> HIDE DEF m4
<1>19. /\ m4 \in Seq(Row) /\ Len(m4) = 30
      /\ \A i \in 1..30 : m4[i] = IF i <= 15 THEN m3[i] ELSE MfaLoop[i - 15]
  BY <1>18, <1>16, <1>6 DEF Joined
<1>20. \A i \in 1..30 : m4[i] = IF i <= 15 THEN m3[i] ELSE MfaLoop[i - 15]
  BY <1>19
<1>21. Joined(m4, p5, m5) BY <1>19, <1>7, Cat
<1> HIDE DEF m5
<1>22. /\ m5 \in Seq(Row) /\ Len(m5) = 33
      /\ \A i \in 1..33 : m5[i] = IF i <= 30 THEN m4[i] ELSE p5[i - 30]
  BY <1>21, <1>19, <1>7 DEF Joined
<1>23. \A i \in 1..33 : m5[i] = IF i <= 30 THEN m4[i] ELSE p5[i - 30]
  BY <1>22
<1>24. Joined(m5, ConsentsTail, m6) BY <1>22, <1>9, Cat
<1> HIDE DEF m6
<1>25. /\ m6 \in Seq(Row) /\ Len(m6) = 34
      /\ \A i \in 1..34 : m6[i] = IF i <= 33 THEN m5[i] ELSE ConsentsTail[i - 33]
  BY <1>24, <1>22, <1>9 DEF Joined
<1>26. \A i \in 1..34 : m6[i] = IF i <= 33 THEN m5[i] ELSE ConsentsTail[i - 33]
  BY <1>25
<1>27. Joined(m6, p7, m7) BY <1>25, <1>10, Cat
<1> HIDE DEF m7
<1>28. /\ m7 \in Seq(Row) /\ Len(m7) = 45
      /\ \A i \in 1..45 : m7[i] = IF i <= 34 THEN m6[i] ELSE p7[i - 34]
  BY <1>27, <1>25, <1>10 DEF Joined
<1>29. \A i \in 1..45 : m7[i] = IF i <= 34 THEN m6[i] ELSE p7[i - 34]
  BY <1>28
<1>30. LoginFlow = m7 BY DEF LoginFlow, p1, p3, p5, p7, m2, m3, m4, m5, m6, m7
<1>31. /\ LoginFlow[1] = p1[1] /\ LoginFlow[2] = p1[2] /\ LoginFlow[3] = p1[3]
      /\ LoginFlow[4] = p1[4] /\ LoginFlow[5] = p1[5] /\ LoginFlow[6] = p1[6]
      /\ LoginFlow[7] = p1[7] /\ LoginFlow[8] = p1[8] /\ LoginFlow[9] = p1[9]
      /\ LoginFlow[10] = p1[10] /\ LoginFlow[11] = p1[11]
  BY <1>30, <1>14, <1>17, <1>20, <1>23, <1>26, <1>29
<1>32. /\ LoginFlow[12] = PasswordPhase[1]
  BY <1>30, <1>14, <1>17, <1>20, <1>23, <1>26, <1>29
<1>33. /\ LoginFlow[13] = p3[1] /\ LoginFlow[14] = p3[2] /\ LoginFlow[15] = p3[3]
  BY <1>30, <1>17, <1>20, <1>23, <1>26, <1>29
<1>34. /\ LoginFlow[16] = MfaLoop[1] /\ LoginFlow[17] = MfaLoop[2] /\ LoginFlow[18] = MfaLoop[3]
      /\ LoginFlow[19] = MfaLoop[4] /\ LoginFlow[20] = MfaLoop[5] /\ LoginFlow[21] = MfaLoop[6]
      /\ LoginFlow[22] = MfaLoop[7] /\ LoginFlow[23] = MfaLoop[8] /\ LoginFlow[24] = MfaLoop[9]
      /\ LoginFlow[25] = MfaLoop[10] /\ LoginFlow[26] = MfaLoop[11] /\ LoginFlow[27] = MfaLoop[12]
      /\ LoginFlow[28] = MfaLoop[13] /\ LoginFlow[29] = MfaLoop[14] /\ LoginFlow[30] = MfaLoop[15]
  BY <1>30, <1>20, <1>23, <1>26, <1>29
<1>35. /\ LoginFlow[31] = p5[1] /\ LoginFlow[32] = p5[2] /\ LoginFlow[33] = p5[3]
  BY <1>30, <1>23, <1>26, <1>29
<1>36. /\ LoginFlow[34] = ConsentsTail[1]
  BY <1>30, <1>26, <1>29
<1>37. /\ LoginFlow[35] = p7[1] /\ LoginFlow[36] = p7[2] /\ LoginFlow[37] = p7[3]
      /\ LoginFlow[38] = p7[4] /\ LoginFlow[39] = p7[5] /\ LoginFlow[40] = p7[6]
      /\ LoginFlow[41] = p7[7] /\ LoginFlow[42] = p7[8] /\ LoginFlow[43] = p7[9]
      /\ LoginFlow[44] = p7[10] /\ LoginFlow[45] = p7[11]
  BY <1>30, <1>29
<1>38. /\ LoginFlow[1].step = "init-login"
      /\ LoginFlow[2].step = "sso-callback"
      /\ LoginFlow[3].step = "credentials"
      /\ LoginFlow[4].step = "magic-link-request"
      /\ LoginFlow[5].step = "magic-link-send"
      /\ LoginFlow[6].step = "magic-link-confirm"
      /\ LoginFlow[7].step = "magic-link-verified"
      /\ LoginFlow[8].step = "prove-control"
      /\ LoginFlow[9] = S("break", {}, {"sub"})
      /\ LoginFlow[10].step = "prepare-consents"
      /\ LoginFlow[11].step = "prepare-semantic-flags"
  BY <1>31, <1>2
<1>39. /\ LoginFlow[12] = S("create-password-form", {"newPassword"}, {})
  BY <1>32, PasswordPhaseRows
<1>40. /\ LoginFlow[13] = S("break", {"aborted"}, {})
      /\ LoginFlow[14] = S("ask/email", {"ensureEmail"}, {"asked", "emailConfirmed"})
      /\ LoginFlow[15] = S("verify/email", {"ensureEmail", "asked"}, {"emailConfirmed"})
  BY <1>33, <1>5
<1>41. /\ LoginFlow[16] = S("while", {"mfa"}, {"otp"})
      /\ LoginFlow[17].step = "check-trusted-device"
      /\ LoginFlow[18].step = "load-enrolled-mfa-methods"
      /\ LoginFlow[19].step = "select-mfa-method"
      /\ LoginFlow[20].step = "select-2fa"
      /\ LoginFlow[21].step = "pincode-send"
      /\ LoginFlow[22].step = "pincode-check" /\ "emailMethod" \in LoginFlow[22].when
      /\ LoginFlow[23].step = "totp-check"
      /\ LoginFlow[24].step = "enroll-pick-method"
      /\ LoginFlow[25].step = "enroll-address"
      /\ LoginFlow[26].step = "enroll-totp-qr"
      /\ LoginFlow[27].step = "enroll-send"
      /\ LoginFlow[28].step = "enroll-confirm" /\ "enrolling" \in LoginFlow[28].when /\ "aborted" \notin LoginFlow[28].when
      /\ LoginFlow[29].step = "risk-step-up"
      /\ LoginFlow[30].step = "again"
  BY <1>34, MfaLoopRows
<1>42. /\ LoginFlow[31].step = "revoke-sessions"
      /\ LoginFlow[32].step = "device-trust"
      /\ LoginFlow[33] = S("terms-bump-prompt", {"terms"}, {"decided"})
  BY <1>35, <1>8
<1>43. /\ LoginFlow[34].step = "persist-consents"
  BY <1>36, ConsentsTailRows
<1>44. /\ LoginFlow[35].step = "load-active-sessions"
      /\ LoginFlow[36].step = "concurrency-limit"
      /\ LoginFlow[37] = S("break", {"aborted"}, {})
      /\ LoginFlow[38].step = "check-password-unchanged"
      /\ LoginFlow[39].step = "check-can-sign-in"
      /\ LoginFlow[40] = S("break", {"aborted"}, {})
      /\ LoginFlow[41].step = "issue"
      /\ LoginFlow[42].step = "authz-consent"
      /\ LoginFlow[43].step = "check-password-unchanged"
      /\ LoginFlow[44] = S("break", {"aborted"}, {})
      /\ LoginFlow[45].step = "mint-authz-code"
  BY <1>37, <1>11
<1> QED BY <1>30, <1>28, <1>38, <1>39, <1>40, <1>41, <1>42, <1>43, <1>44

LEMMA LoginSteps ==
    /\ LoginFlow[1].step = "init-login"
    /\ LoginFlow[2].step = "sso-callback"
    /\ LoginFlow[3].step = "credentials"
    /\ LoginFlow[4].step = "magic-link-request"
    /\ LoginFlow[5].step = "magic-link-send"
    /\ LoginFlow[6].step = "magic-link-confirm"
    /\ LoginFlow[7].step = "magic-link-verified"
    /\ LoginFlow[8].step = "prove-control"
    /\ LoginFlow[9].step = "break"
    /\ LoginFlow[10].step = "prepare-consents"
    /\ LoginFlow[11].step = "prepare-semantic-flags"
    /\ LoginFlow[12].step = "create-password-form"
    /\ LoginFlow[13].step = "break"
    /\ LoginFlow[14].step = "ask/email"
    /\ LoginFlow[15].step = "verify/email"
    /\ LoginFlow[16].step = "while"
    /\ LoginFlow[17].step = "check-trusted-device"
    /\ LoginFlow[18].step = "load-enrolled-mfa-methods"
    /\ LoginFlow[19].step = "select-mfa-method"
    /\ LoginFlow[20].step = "select-2fa"
    /\ LoginFlow[21].step = "pincode-send"
    /\ LoginFlow[22].step = "pincode-check"
    /\ LoginFlow[23].step = "totp-check"
    /\ LoginFlow[24].step = "enroll-pick-method"
    /\ LoginFlow[25].step = "enroll-address"
    /\ LoginFlow[26].step = "enroll-totp-qr"
    /\ LoginFlow[27].step = "enroll-send"
    /\ LoginFlow[28].step = "enroll-confirm"
    /\ LoginFlow[29].step = "risk-step-up"
    /\ LoginFlow[30].step = "again"
    /\ LoginFlow[31].step = "revoke-sessions"
    /\ LoginFlow[32].step = "device-trust"
    /\ LoginFlow[33].step = "terms-bump-prompt"
    /\ LoginFlow[34].step = "persist-consents"
    /\ LoginFlow[35].step = "load-active-sessions"
    /\ LoginFlow[36].step = "concurrency-limit"
    /\ LoginFlow[37].step = "break"
    /\ LoginFlow[38].step = "check-password-unchanged"
    /\ LoginFlow[39].step = "check-can-sign-in"
    /\ LoginFlow[40].step = "break"
    /\ LoginFlow[41].step = "issue"
    /\ LoginFlow[42].step = "authz-consent"
    /\ LoginFlow[43].step = "check-password-unchanged"
    /\ LoginFlow[44].step = "break"
    /\ LoginFlow[45].step = "mint-authz-code"
BY LoginFlowRows DEF S

LEMMA InviteFlowRows ==
    /\ InviteFlow \in Seq(Row) /\ Len(InviteFlow) = 28
    /\ InviteFlow[1].step = "admin-form"
    /\ InviteFlow[2].step = "create-user"
    /\ InviteFlow[3] = S("send-email", {"sub"}, {})
    /\ InviteFlow[4] = S("init-invite-accept", {}, {})
    /\ InviteFlow[5].step = "check-pending-invitation"
    /\ InviteFlow[6].step = "break"
    /\ InviteFlow[7].step = "prepare-consents"
    /\ InviteFlow[8] = S("create-password-form", {"newPassword"}, {})
    /\ InviteFlow[9] = S("while", {"mfa"}, {"otp"})
    /\ InviteFlow[10].step = "check-trusted-device"
    /\ InviteFlow[11].step = "load-enrolled-mfa-methods"
    /\ InviteFlow[12].step = "select-mfa-method"
    /\ InviteFlow[13].step = "select-2fa"
    /\ InviteFlow[14].step = "pincode-send"
    /\ InviteFlow[15].step = "pincode-check" /\ "emailMethod" \in InviteFlow[15].when
    /\ InviteFlow[16].step = "totp-check"
    /\ InviteFlow[17].step = "enroll-pick-method"
    /\ InviteFlow[18].step = "enroll-address"
    /\ InviteFlow[19].step = "enroll-totp-qr"
    /\ InviteFlow[20].step = "enroll-send"
    /\ InviteFlow[21].step = "enroll-confirm" /\ "enrolling" \in InviteFlow[21].when /\ "aborted" \notin InviteFlow[21].when
    /\ InviteFlow[22].step = "risk-step-up"
    /\ InviteFlow[23].step = "again"
    /\ InviteFlow[24].step = "persist-consents"
    /\ InviteFlow[25].step = "unset-pending-invitation"
    /\ InviteFlow[26].step = "activate-user"
    /\ InviteFlow[27].step = "auto-login-check"
    /\ InviteFlow[28].step = "finalize-auto-login"
<1> DEFINE p1 == << S("admin-form", {}, {"named"}),
             S("create-user", {"named"}, {"sub"}),
             S("send-email", {"sub"}, {}),
             S("init-invite-accept", {}, {}),
             S("check-pending-invitation", {}, {}),
             S("break", {"alreadyAccepted"}, {}),
             S("prepare-consents", {}, {}) >>
           p5 == << S("unset-pending-invitation", {}, {}), S("activate-user", {}, {}) >>
           m2 == p1 \o PasswordPhase
           m3 == m2 \o MfaLoop
           m4 == m3 \o ConsentsTail
           m5 == m4 \o p5
           m6 == m5 \o AutoLogin
<1>1. p1 \in Seq(Row) /\ Len(p1) = 7
  BY SRow DEF Steps, FactNames
<1>2. /\ p1[1].step = "admin-form"
      /\ p1[2].step = "create-user"
      /\ p1[3] = S("send-email", {"sub"}, {})
      /\ p1[4] = S("init-invite-accept", {}, {})
      /\ p1[5].step = "check-pending-invitation"
      /\ p1[6].step = "break"
      /\ p1[7].step = "prepare-consents"
  BY DEF S
<1>3. PasswordPhase \in Seq(Row) /\ Len(PasswordPhase) = 1
  BY PasswordPhaseRows
<1>4. MfaLoop \in Seq(Row) /\ Len(MfaLoop) = 15
  BY MfaLoopRows
<1>5. ConsentsTail \in Seq(Row) /\ Len(ConsentsTail) = 1
  BY ConsentsTailRows
<1>6. p5 \in Seq(Row) /\ Len(p5) = 2
  BY SRow DEF Steps, FactNames
<1>7. /\ p5[1].step = "unset-pending-invitation"
      /\ p5[2].step = "activate-user"
  BY DEF S
<1>8. AutoLogin \in Seq(Row) /\ Len(AutoLogin) = 2
  BY AutoLoginRows
<1> HIDE DEF p1, p5
<1>9. Joined(p1, PasswordPhase, m2) BY <1>1, <1>3, Cat
<1> HIDE DEF m2
<1>10. /\ m2 \in Seq(Row) /\ Len(m2) = 8
      /\ \A i \in 1..8 : m2[i] = IF i <= 7 THEN p1[i] ELSE PasswordPhase[i - 7]
  BY <1>9, <1>1, <1>3 DEF Joined
<1>11. \A i \in 1..8 : m2[i] = IF i <= 7 THEN p1[i] ELSE PasswordPhase[i - 7]
  BY <1>10
<1>12. Joined(m2, MfaLoop, m3) BY <1>10, <1>4, Cat
<1> HIDE DEF m3
<1>13. /\ m3 \in Seq(Row) /\ Len(m3) = 23
      /\ \A i \in 1..23 : m3[i] = IF i <= 8 THEN m2[i] ELSE MfaLoop[i - 8]
  BY <1>12, <1>10, <1>4 DEF Joined
<1>14. \A i \in 1..23 : m3[i] = IF i <= 8 THEN m2[i] ELSE MfaLoop[i - 8]
  BY <1>13
<1>15. Joined(m3, ConsentsTail, m4) BY <1>13, <1>5, Cat
<1> HIDE DEF m4
<1>16. /\ m4 \in Seq(Row) /\ Len(m4) = 24
      /\ \A i \in 1..24 : m4[i] = IF i <= 23 THEN m3[i] ELSE ConsentsTail[i - 23]
  BY <1>15, <1>13, <1>5 DEF Joined
<1>17. \A i \in 1..24 : m4[i] = IF i <= 23 THEN m3[i] ELSE ConsentsTail[i - 23]
  BY <1>16
<1>18. Joined(m4, p5, m5) BY <1>16, <1>6, Cat
<1> HIDE DEF m5
<1>19. /\ m5 \in Seq(Row) /\ Len(m5) = 26
      /\ \A i \in 1..26 : m5[i] = IF i <= 24 THEN m4[i] ELSE p5[i - 24]
  BY <1>18, <1>16, <1>6 DEF Joined
<1>20. \A i \in 1..26 : m5[i] = IF i <= 24 THEN m4[i] ELSE p5[i - 24]
  BY <1>19
<1>21. Joined(m5, AutoLogin, m6) BY <1>19, <1>8, Cat
<1> HIDE DEF m6
<1>22. /\ m6 \in Seq(Row) /\ Len(m6) = 28
      /\ \A i \in 1..28 : m6[i] = IF i <= 26 THEN m5[i] ELSE AutoLogin[i - 26]
  BY <1>21, <1>19, <1>8 DEF Joined
<1>23. \A i \in 1..28 : m6[i] = IF i <= 26 THEN m5[i] ELSE AutoLogin[i - 26]
  BY <1>22
<1>24. InviteFlow = m6 BY DEF InviteFlow, p1, p5, m2, m3, m4, m5, m6
<1>25. /\ InviteFlow[1] = p1[1] /\ InviteFlow[2] = p1[2] /\ InviteFlow[3] = p1[3]
      /\ InviteFlow[4] = p1[4] /\ InviteFlow[5] = p1[5] /\ InviteFlow[6] = p1[6]
      /\ InviteFlow[7] = p1[7]
  BY <1>24, <1>11, <1>14, <1>17, <1>20, <1>23
<1>26. /\ InviteFlow[8] = PasswordPhase[1]
  BY <1>24, <1>11, <1>14, <1>17, <1>20, <1>23
<1>27. /\ InviteFlow[9] = MfaLoop[1] /\ InviteFlow[10] = MfaLoop[2] /\ InviteFlow[11] = MfaLoop[3]
      /\ InviteFlow[12] = MfaLoop[4] /\ InviteFlow[13] = MfaLoop[5] /\ InviteFlow[14] = MfaLoop[6]
      /\ InviteFlow[15] = MfaLoop[7] /\ InviteFlow[16] = MfaLoop[8] /\ InviteFlow[17] = MfaLoop[9]
      /\ InviteFlow[18] = MfaLoop[10] /\ InviteFlow[19] = MfaLoop[11] /\ InviteFlow[20] = MfaLoop[12]
      /\ InviteFlow[21] = MfaLoop[13] /\ InviteFlow[22] = MfaLoop[14] /\ InviteFlow[23] = MfaLoop[15]
  BY <1>24, <1>14, <1>17, <1>20, <1>23
<1>28. /\ InviteFlow[24] = ConsentsTail[1]
  BY <1>24, <1>17, <1>20, <1>23
<1>29. /\ InviteFlow[25] = p5[1] /\ InviteFlow[26] = p5[2]
  BY <1>24, <1>20, <1>23
<1>30. /\ InviteFlow[27] = AutoLogin[1] /\ InviteFlow[28] = AutoLogin[2]
  BY <1>24, <1>23
<1>31. /\ InviteFlow[1].step = "admin-form"
      /\ InviteFlow[2].step = "create-user"
      /\ InviteFlow[3] = S("send-email", {"sub"}, {})
      /\ InviteFlow[4] = S("init-invite-accept", {}, {})
      /\ InviteFlow[5].step = "check-pending-invitation"
      /\ InviteFlow[6].step = "break"
      /\ InviteFlow[7].step = "prepare-consents"
  BY <1>25, <1>2
<1>32. /\ InviteFlow[8] = S("create-password-form", {"newPassword"}, {})
  BY <1>26, PasswordPhaseRows
<1>33. /\ InviteFlow[9] = S("while", {"mfa"}, {"otp"})
      /\ InviteFlow[10].step = "check-trusted-device"
      /\ InviteFlow[11].step = "load-enrolled-mfa-methods"
      /\ InviteFlow[12].step = "select-mfa-method"
      /\ InviteFlow[13].step = "select-2fa"
      /\ InviteFlow[14].step = "pincode-send"
      /\ InviteFlow[15].step = "pincode-check" /\ "emailMethod" \in InviteFlow[15].when
      /\ InviteFlow[16].step = "totp-check"
      /\ InviteFlow[17].step = "enroll-pick-method"
      /\ InviteFlow[18].step = "enroll-address"
      /\ InviteFlow[19].step = "enroll-totp-qr"
      /\ InviteFlow[20].step = "enroll-send"
      /\ InviteFlow[21].step = "enroll-confirm" /\ "enrolling" \in InviteFlow[21].when /\ "aborted" \notin InviteFlow[21].when
      /\ InviteFlow[22].step = "risk-step-up"
      /\ InviteFlow[23].step = "again"
  BY <1>27, MfaLoopRows
<1>34. /\ InviteFlow[24].step = "persist-consents"
  BY <1>28, ConsentsTailRows
<1>35. /\ InviteFlow[25].step = "unset-pending-invitation"
      /\ InviteFlow[26].step = "activate-user"
  BY <1>29, <1>7
<1>36. /\ InviteFlow[27].step = "auto-login-check"
      /\ InviteFlow[28].step = "finalize-auto-login"
  BY <1>30, AutoLoginRows
<1> QED BY <1>24, <1>22, <1>31, <1>32, <1>33, <1>34, <1>35, <1>36

LEMMA InviteSteps ==
    /\ InviteFlow[1].step = "admin-form"
    /\ InviteFlow[2].step = "create-user"
    /\ InviteFlow[3].step = "send-email"
    /\ InviteFlow[4].step = "init-invite-accept"
    /\ InviteFlow[5].step = "check-pending-invitation"
    /\ InviteFlow[6].step = "break"
    /\ InviteFlow[7].step = "prepare-consents"
    /\ InviteFlow[8].step = "create-password-form"
    /\ InviteFlow[9].step = "while"
    /\ InviteFlow[10].step = "check-trusted-device"
    /\ InviteFlow[11].step = "load-enrolled-mfa-methods"
    /\ InviteFlow[12].step = "select-mfa-method"
    /\ InviteFlow[13].step = "select-2fa"
    /\ InviteFlow[14].step = "pincode-send"
    /\ InviteFlow[15].step = "pincode-check"
    /\ InviteFlow[16].step = "totp-check"
    /\ InviteFlow[17].step = "enroll-pick-method"
    /\ InviteFlow[18].step = "enroll-address"
    /\ InviteFlow[19].step = "enroll-totp-qr"
    /\ InviteFlow[20].step = "enroll-send"
    /\ InviteFlow[21].step = "enroll-confirm"
    /\ InviteFlow[22].step = "risk-step-up"
    /\ InviteFlow[23].step = "again"
    /\ InviteFlow[24].step = "persist-consents"
    /\ InviteFlow[25].step = "unset-pending-invitation"
    /\ InviteFlow[26].step = "activate-user"
    /\ InviteFlow[27].step = "auto-login-check"
    /\ InviteFlow[28].step = "finalize-auto-login"
BY InviteFlowRows DEF S

LEMMA RecoveryFlowRows ==
    /\ RecoveryFlow \in Seq(Row) /\ Len(RecoveryFlow) = 22
    /\ RecoveryFlow[1].step = "request"
    /\ RecoveryFlow[2].step = "select-recovery-mode"
    /\ RecoveryFlow[3].step = "magic-link-send"
    /\ RecoveryFlow[4].step = "magic-link-confirm"
    /\ RecoveryFlow[5].step = "recovery-link-verified"
    /\ RecoveryFlow[6] = S("break", {"aborted"}, {})
    /\ RecoveryFlow[7].step = "break"
    /\ RecoveryFlow[8] = S("while", {}, {"otp", "aborted"})
    /\ RecoveryFlow[9].step = "pincode-send"
    /\ RecoveryFlow[10].step = "pincode-check"
    /\ RecoveryFlow[11].step = "again"
    /\ RecoveryFlow[12] = S("break", {"aborted"}, {})
    /\ RecoveryFlow[13].step = "prepare-consents"
    /\ RecoveryFlow[14] = S("create-password-form", {"otp"}, {})
    /\ RecoveryFlow[15] = S("break", {"aborted"}, {})
    /\ RecoveryFlow[16].step = "revoke-sessions"
    /\ RecoveryFlow[17].step = "unlock-account"
    /\ RecoveryFlow[18].step = "persist-consents"
    /\ RecoveryFlow[19].step = "recovery-lock-check"
    /\ RecoveryFlow[20] = S("break", {"aborted"}, {})
    /\ RecoveryFlow[21].step = "auto-login-check"
    /\ RecoveryFlow[22].step = "finalize-auto-login"
<1> DEFINE p1 == << S("request", {}, {}),
             S("select-recovery-mode", {"choice"}, {}),
             S("magic-link-send", {"magicLink"}, {}),
             S("magic-link-confirm", {"magicLink"}, {}),
             S("recovery-link-verified", {"magicLink"}, {}),
             S("break", {"aborted"}, {}),
             S("break", {}, {"sub", "otpMode"}) >>
           p3 == << S("prepare-consents", {"otp"}, {}),
             S("create-password-form", {"otp"}, {}),
             S("break", {"aborted"}, {}),
             S("revoke-sessions", {}, {}),
             S("unlock-account", {"selfService"}, {}) >>
           p5 == << S("recovery-lock-check", {}, {"selfService"}),
             S("break", {"aborted"}, {}) >>
           m2 == p1 \o OtpLoop
           m3 == m2 \o p3
           m4 == m3 \o ConsentsTail
           m5 == m4 \o p5
           m6 == m5 \o AutoLogin
<1>1. p1 \in Seq(Row) /\ Len(p1) = 7
  BY SRow DEF Steps, FactNames
<1>2. /\ p1[1].step = "request"
      /\ p1[2].step = "select-recovery-mode"
      /\ p1[3].step = "magic-link-send"
      /\ p1[4].step = "magic-link-confirm"
      /\ p1[5].step = "recovery-link-verified"
      /\ p1[6] = S("break", {"aborted"}, {})
      /\ p1[7].step = "break"
  BY DEF S
<1>3. OtpLoop \in Seq(Row) /\ Len(OtpLoop) = 5
  BY OtpLoopRows
<1>4. p3 \in Seq(Row) /\ Len(p3) = 5
  BY SRow DEF Steps, FactNames
<1>5. /\ p3[1].step = "prepare-consents"
      /\ p3[2] = S("create-password-form", {"otp"}, {})
      /\ p3[3] = S("break", {"aborted"}, {})
      /\ p3[4].step = "revoke-sessions"
      /\ p3[5].step = "unlock-account"
  BY DEF S
<1>6. ConsentsTail \in Seq(Row) /\ Len(ConsentsTail) = 1
  BY ConsentsTailRows
<1>7. p5 \in Seq(Row) /\ Len(p5) = 2
  BY SRow DEF Steps, FactNames
<1>8. /\ p5[1].step = "recovery-lock-check"
      /\ p5[2] = S("break", {"aborted"}, {})
  BY DEF S
<1>9. AutoLogin \in Seq(Row) /\ Len(AutoLogin) = 2
  BY AutoLoginRows
<1> HIDE DEF p1, p3, p5
<1>10. Joined(p1, OtpLoop, m2) BY <1>1, <1>3, Cat
<1> HIDE DEF m2
<1>11. /\ m2 \in Seq(Row) /\ Len(m2) = 12
      /\ \A i \in 1..12 : m2[i] = IF i <= 7 THEN p1[i] ELSE OtpLoop[i - 7]
  BY <1>10, <1>1, <1>3 DEF Joined
<1>12. \A i \in 1..12 : m2[i] = IF i <= 7 THEN p1[i] ELSE OtpLoop[i - 7]
  BY <1>11
<1>13. Joined(m2, p3, m3) BY <1>11, <1>4, Cat
<1> HIDE DEF m3
<1>14. /\ m3 \in Seq(Row) /\ Len(m3) = 17
      /\ \A i \in 1..17 : m3[i] = IF i <= 12 THEN m2[i] ELSE p3[i - 12]
  BY <1>13, <1>11, <1>4 DEF Joined
<1>15. \A i \in 1..17 : m3[i] = IF i <= 12 THEN m2[i] ELSE p3[i - 12]
  BY <1>14
<1>16. Joined(m3, ConsentsTail, m4) BY <1>14, <1>6, Cat
<1> HIDE DEF m4
<1>17. /\ m4 \in Seq(Row) /\ Len(m4) = 18
      /\ \A i \in 1..18 : m4[i] = IF i <= 17 THEN m3[i] ELSE ConsentsTail[i - 17]
  BY <1>16, <1>14, <1>6 DEF Joined
<1>18. \A i \in 1..18 : m4[i] = IF i <= 17 THEN m3[i] ELSE ConsentsTail[i - 17]
  BY <1>17
<1>19. Joined(m4, p5, m5) BY <1>17, <1>7, Cat
<1> HIDE DEF m5
<1>20. /\ m5 \in Seq(Row) /\ Len(m5) = 20
      /\ \A i \in 1..20 : m5[i] = IF i <= 18 THEN m4[i] ELSE p5[i - 18]
  BY <1>19, <1>17, <1>7 DEF Joined
<1>21. \A i \in 1..20 : m5[i] = IF i <= 18 THEN m4[i] ELSE p5[i - 18]
  BY <1>20
<1>22. Joined(m5, AutoLogin, m6) BY <1>20, <1>9, Cat
<1> HIDE DEF m6
<1>23. /\ m6 \in Seq(Row) /\ Len(m6) = 22
      /\ \A i \in 1..22 : m6[i] = IF i <= 20 THEN m5[i] ELSE AutoLogin[i - 20]
  BY <1>22, <1>20, <1>9 DEF Joined
<1>24. \A i \in 1..22 : m6[i] = IF i <= 20 THEN m5[i] ELSE AutoLogin[i - 20]
  BY <1>23
<1>25. RecoveryFlow = m6 BY DEF RecoveryFlow, p1, p3, p5, m2, m3, m4, m5, m6
<1>26. /\ RecoveryFlow[1] = p1[1] /\ RecoveryFlow[2] = p1[2] /\ RecoveryFlow[3] = p1[3]
      /\ RecoveryFlow[4] = p1[4] /\ RecoveryFlow[5] = p1[5] /\ RecoveryFlow[6] = p1[6]
      /\ RecoveryFlow[7] = p1[7]
  BY <1>25, <1>12, <1>15, <1>18, <1>21, <1>24
<1>27. /\ RecoveryFlow[8] = OtpLoop[1] /\ RecoveryFlow[9] = OtpLoop[2] /\ RecoveryFlow[10] = OtpLoop[3]
      /\ RecoveryFlow[11] = OtpLoop[4] /\ RecoveryFlow[12] = OtpLoop[5]
  BY <1>25, <1>12, <1>15, <1>18, <1>21, <1>24
<1>28. /\ RecoveryFlow[13] = p3[1] /\ RecoveryFlow[14] = p3[2] /\ RecoveryFlow[15] = p3[3]
      /\ RecoveryFlow[16] = p3[4] /\ RecoveryFlow[17] = p3[5]
  BY <1>25, <1>15, <1>18, <1>21, <1>24
<1>29. /\ RecoveryFlow[18] = ConsentsTail[1]
  BY <1>25, <1>18, <1>21, <1>24
<1>30. /\ RecoveryFlow[19] = p5[1] /\ RecoveryFlow[20] = p5[2]
  BY <1>25, <1>21, <1>24
<1>31. /\ RecoveryFlow[21] = AutoLogin[1] /\ RecoveryFlow[22] = AutoLogin[2]
  BY <1>25, <1>24
<1>32. /\ RecoveryFlow[1].step = "request"
      /\ RecoveryFlow[2].step = "select-recovery-mode"
      /\ RecoveryFlow[3].step = "magic-link-send"
      /\ RecoveryFlow[4].step = "magic-link-confirm"
      /\ RecoveryFlow[5].step = "recovery-link-verified"
      /\ RecoveryFlow[6] = S("break", {"aborted"}, {})
      /\ RecoveryFlow[7].step = "break"
  BY <1>26, <1>2
<1>33. /\ RecoveryFlow[8] = S("while", {}, {"otp", "aborted"})
      /\ RecoveryFlow[9].step = "pincode-send"
      /\ RecoveryFlow[10].step = "pincode-check"
      /\ RecoveryFlow[11].step = "again"
      /\ RecoveryFlow[12] = S("break", {"aborted"}, {})
  BY <1>27, OtpLoopRows
<1>34. /\ RecoveryFlow[13].step = "prepare-consents"
      /\ RecoveryFlow[14] = S("create-password-form", {"otp"}, {})
      /\ RecoveryFlow[15] = S("break", {"aborted"}, {})
      /\ RecoveryFlow[16].step = "revoke-sessions"
      /\ RecoveryFlow[17].step = "unlock-account"
  BY <1>28, <1>5
<1>35. /\ RecoveryFlow[18].step = "persist-consents"
  BY <1>29, ConsentsTailRows
<1>36. /\ RecoveryFlow[19].step = "recovery-lock-check"
      /\ RecoveryFlow[20] = S("break", {"aborted"}, {})
  BY <1>30, <1>8
<1>37. /\ RecoveryFlow[21].step = "auto-login-check"
      /\ RecoveryFlow[22].step = "finalize-auto-login"
  BY <1>31, AutoLoginRows
<1> QED BY <1>25, <1>23, <1>32, <1>33, <1>34, <1>35, <1>36, <1>37

LEMMA RecoverySteps ==
    /\ RecoveryFlow[1].step = "request"
    /\ RecoveryFlow[2].step = "select-recovery-mode"
    /\ RecoveryFlow[3].step = "magic-link-send"
    /\ RecoveryFlow[4].step = "magic-link-confirm"
    /\ RecoveryFlow[5].step = "recovery-link-verified"
    /\ RecoveryFlow[6].step = "break"
    /\ RecoveryFlow[7].step = "break"
    /\ RecoveryFlow[8].step = "while"
    /\ RecoveryFlow[9].step = "pincode-send"
    /\ RecoveryFlow[10].step = "pincode-check"
    /\ RecoveryFlow[11].step = "again"
    /\ RecoveryFlow[12].step = "break"
    /\ RecoveryFlow[13].step = "prepare-consents"
    /\ RecoveryFlow[14].step = "create-password-form"
    /\ RecoveryFlow[15].step = "break"
    /\ RecoveryFlow[16].step = "revoke-sessions"
    /\ RecoveryFlow[17].step = "unlock-account"
    /\ RecoveryFlow[18].step = "persist-consents"
    /\ RecoveryFlow[19].step = "recovery-lock-check"
    /\ RecoveryFlow[20].step = "break"
    /\ RecoveryFlow[21].step = "auto-login-check"
    /\ RecoveryFlow[22].step = "finalize-auto-login"
BY RecoveryFlowRows DEF S

LEMMA ChangePasswordFlowRows ==
    /\ ChangePasswordFlow \in Seq(Row) /\ Len(ChangePasswordFlow) = 3
    /\ ChangePasswordFlow[1].step = "init-change-password"
    /\ ChangePasswordFlow[2].step = "change-password-form"
    /\ ChangePasswordFlow[3].step = "finish-change-password"
BY SRow DEF ChangePasswordFlow, Steps, FactNames, S

LEMMA ChangePasswordSteps ==
    /\ ChangePasswordFlow[1].step = "init-change-password"
    /\ ChangePasswordFlow[2].step = "change-password-form"
    /\ ChangePasswordFlow[3].step = "finish-change-password"
BY ChangePasswordFlowRows DEF S

LEMMA ManageEnrollRows ==
  ASSUME NEW g, g = Gate(EnrollTrio, {"canEnroll"}, {"aborted", "removing"})
  PROVE  /\ g \in Seq(Row) /\ Len(g) = 5
         /\ g[1].step = "enroll-pick-method" /\ "aborted" \in g[1].unless
         /\ g[2].step = "enroll-address" /\ "aborted" \in g[2].unless
         /\ g[3].step = "enroll-totp-qr" /\ "aborted" \in g[3].unless
         /\ g[4].step = "enroll-send" /\ "aborted" \in g[4].unless
         /\ g[5].step = "enroll-confirm" /\ "aborted" \in g[5].unless /\ "enrolling" \in g[5].when /\ "aborted" \notin g[5].when
<1>1. PICK w \in SUBSET FactNames, u \in SUBSET FactNames : w = {"canEnroll"} /\ u = {"aborted", "removing"}
  BY DEF FactNames
<1>2. PICK s \in Seq(Row) : s = EnrollTrio /\ Len(s) = 5 /\ g = Gate(s, w, u)
  BY <1>1, EnrollTrioRows
<1>3. Gated(s, w, u, g)
  BY <1>1, <1>2, GateRows
<1>4. s[1].step = "enroll-pick-method" /\ s[2].step = "enroll-address" /\ s[3].step = "enroll-totp-qr" /\ s[4].step = "enroll-send" /\ s[5].step = "enroll-confirm" /\ "enrolling" \in s[5].when /\ "aborted" \notin s[5].when
  BY <1>2, EnrollTrioRows DEF S
<1> QED
  BY <1>1, <1>2, <1>3, <1>4 DEF Gated

LEMMA AddMfaFlowRows ==
    /\ AddMfaFlow \in Seq(Row) /\ Len(AddMfaFlow) = 20
    /\ AddMfaFlow[1].step = "init-add-mfa"
    /\ AddMfaFlow[2] = S("while", {"stepUp", "byFactor"}, {"otp", "aborted"})
    /\ AddMfaFlow[3].step = "load-enrolled-mfa-methods"
    /\ AddMfaFlow[4].step = "select-mfa-method"
    /\ AddMfaFlow[5].step = "select-2fa"
    /\ AddMfaFlow[6].step = "manage-stepup-confirm"
    /\ AddMfaFlow[7] = S("leave", {"aborted"}, {})
    /\ AddMfaFlow[8].step = "pincode-send"
    /\ AddMfaFlow[9].step = "pincode-check" /\ "emailMethod" \in AddMfaFlow[9].when
    /\ AddMfaFlow[10].step = "totp-check"
    /\ AddMfaFlow[11].step = "again"
    /\ AddMfaFlow[12] = S("manage-password-reauth", {"stepUp"}, {"byFactor", "otp"})
    /\ AddMfaFlow[13].step = "manage-stepup-done"
    /\ AddMfaFlow[14].step = "manage-menu"
    /\ AddMfaFlow[15] = S("confirm-remove-mfa", {"removing"}, {"aborted"})
    /\ AddMfaFlow[16].step = "enroll-pick-method" /\ "aborted" \in AddMfaFlow[16].unless
    /\ AddMfaFlow[17].step = "enroll-address" /\ "aborted" \in AddMfaFlow[17].unless
    /\ AddMfaFlow[18].step = "enroll-totp-qr" /\ "aborted" \in AddMfaFlow[18].unless
    /\ AddMfaFlow[19].step = "enroll-send" /\ "aborted" \in AddMfaFlow[19].unless
    /\ AddMfaFlow[20].step = "enroll-confirm" /\ "aborted" \in AddMfaFlow[20].unless /\ "enrolling" \in AddMfaFlow[20].when /\ "aborted" \notin AddMfaFlow[20].when
<1> DEFINE p1 == << S("init-add-mfa", {}, {}) >>
           p3 == << S("manage-password-reauth", {"stepUp"}, {"byFactor", "otp"}),
             S("manage-stepup-done", {"stepUp", "otp"}, {"aborted", "stepUpDone"}),
             S("manage-menu", {"stepUp"}, {"aborted", "acting"}),
             S("confirm-remove-mfa", {"removing"}, {"aborted"}) >>
           p4 == Gate(EnrollTrio, {"canEnroll"}, {"aborted", "removing"})
           m2 == p1 \o MfaStepUpLoop
           m3 == m2 \o p3
           m4 == m3 \o p4
<1>1. p1 \in Seq(Row) /\ Len(p1) = 1
  BY SRow DEF Steps, FactNames
<1>2. /\ p1[1].step = "init-add-mfa"
  BY DEF S
<1>3. MfaStepUpLoop \in Seq(Row) /\ Len(MfaStepUpLoop) = 10
  BY MfaStepUpLoopRows
<1>4. p3 \in Seq(Row) /\ Len(p3) = 4
  BY SRow DEF Steps, FactNames
<1>5. /\ p3[1] = S("manage-password-reauth", {"stepUp"}, {"byFactor", "otp"})
      /\ p3[2].step = "manage-stepup-done"
      /\ p3[3].step = "manage-menu"
      /\ p3[4] = S("confirm-remove-mfa", {"removing"}, {"aborted"})
  BY DEF S
<1>6. p4 \in Seq(Row) /\ Len(p4) = 5
  BY ManageEnrollRows
<1>7. /\ p4[1].step = "enroll-pick-method" /\ "aborted" \in p4[1].unless
      /\ p4[2].step = "enroll-address" /\ "aborted" \in p4[2].unless
      /\ p4[3].step = "enroll-totp-qr" /\ "aborted" \in p4[3].unless
      /\ p4[4].step = "enroll-send" /\ "aborted" \in p4[4].unless
      /\ p4[5].step = "enroll-confirm" /\ "aborted" \in p4[5].unless /\ "enrolling" \in p4[5].when /\ "aborted" \notin p4[5].when
  BY ManageEnrollRows
<1> HIDE DEF p1, p3, p4
<1>8. Joined(p1, MfaStepUpLoop, m2) BY <1>1, <1>3, Cat
<1> HIDE DEF m2
<1>9. /\ m2 \in Seq(Row) /\ Len(m2) = 11
      /\ \A i \in 1..11 : m2[i] = IF i <= 1 THEN p1[i] ELSE MfaStepUpLoop[i - 1]
  BY <1>8, <1>1, <1>3 DEF Joined
<1>10. \A i \in 1..11 : m2[i] = IF i <= 1 THEN p1[i] ELSE MfaStepUpLoop[i - 1]
  BY <1>9
<1>11. Joined(m2, p3, m3) BY <1>9, <1>4, Cat
<1> HIDE DEF m3
<1>12. /\ m3 \in Seq(Row) /\ Len(m3) = 15
      /\ \A i \in 1..15 : m3[i] = IF i <= 11 THEN m2[i] ELSE p3[i - 11]
  BY <1>11, <1>9, <1>4 DEF Joined
<1>13. \A i \in 1..15 : m3[i] = IF i <= 11 THEN m2[i] ELSE p3[i - 11]
  BY <1>12
<1>14. Joined(m3, p4, m4) BY <1>12, <1>6, Cat
<1> HIDE DEF m4
<1>15. /\ m4 \in Seq(Row) /\ Len(m4) = 20
      /\ \A i \in 1..20 : m4[i] = IF i <= 15 THEN m3[i] ELSE p4[i - 15]
  BY <1>14, <1>12, <1>6 DEF Joined
<1>16. \A i \in 1..20 : m4[i] = IF i <= 15 THEN m3[i] ELSE p4[i - 15]
  BY <1>15
<1>17. AddMfaFlow = m4 BY DEF AddMfaFlow, p1, p3, p4, m2, m3, m4
<1>18. /\ AddMfaFlow[1] = p1[1]
  BY <1>17, <1>10, <1>13, <1>16
<1>19. /\ AddMfaFlow[2] = MfaStepUpLoop[1] /\ AddMfaFlow[3] = MfaStepUpLoop[2] /\ AddMfaFlow[4] = MfaStepUpLoop[3]
      /\ AddMfaFlow[5] = MfaStepUpLoop[4] /\ AddMfaFlow[6] = MfaStepUpLoop[5] /\ AddMfaFlow[7] = MfaStepUpLoop[6]
      /\ AddMfaFlow[8] = MfaStepUpLoop[7] /\ AddMfaFlow[9] = MfaStepUpLoop[8] /\ AddMfaFlow[10] = MfaStepUpLoop[9]
      /\ AddMfaFlow[11] = MfaStepUpLoop[10]
  BY <1>17, <1>10, <1>13, <1>16
<1>20. /\ AddMfaFlow[12] = p3[1] /\ AddMfaFlow[13] = p3[2] /\ AddMfaFlow[14] = p3[3]
      /\ AddMfaFlow[15] = p3[4]
  BY <1>17, <1>13, <1>16
<1>21. /\ AddMfaFlow[16] = p4[1] /\ AddMfaFlow[17] = p4[2] /\ AddMfaFlow[18] = p4[3]
      /\ AddMfaFlow[19] = p4[4] /\ AddMfaFlow[20] = p4[5]
  BY <1>17, <1>16
<1>22. /\ AddMfaFlow[1].step = "init-add-mfa"
  BY <1>18, <1>2
<1>23. /\ AddMfaFlow[2] = S("while", {"stepUp", "byFactor"}, {"otp", "aborted"})
      /\ AddMfaFlow[3].step = "load-enrolled-mfa-methods"
      /\ AddMfaFlow[4].step = "select-mfa-method"
      /\ AddMfaFlow[5].step = "select-2fa"
      /\ AddMfaFlow[6].step = "manage-stepup-confirm"
      /\ AddMfaFlow[7] = S("leave", {"aborted"}, {})
      /\ AddMfaFlow[8].step = "pincode-send"
      /\ AddMfaFlow[9].step = "pincode-check" /\ "emailMethod" \in AddMfaFlow[9].when
      /\ AddMfaFlow[10].step = "totp-check"
      /\ AddMfaFlow[11].step = "again"
  BY <1>19, MfaStepUpLoopRows
<1>24. /\ AddMfaFlow[12] = S("manage-password-reauth", {"stepUp"}, {"byFactor", "otp"})
      /\ AddMfaFlow[13].step = "manage-stepup-done"
      /\ AddMfaFlow[14].step = "manage-menu"
      /\ AddMfaFlow[15] = S("confirm-remove-mfa", {"removing"}, {"aborted"})
  BY <1>20, <1>5
<1>25. /\ AddMfaFlow[16].step = "enroll-pick-method" /\ "aborted" \in AddMfaFlow[16].unless
      /\ AddMfaFlow[17].step = "enroll-address" /\ "aborted" \in AddMfaFlow[17].unless
      /\ AddMfaFlow[18].step = "enroll-totp-qr" /\ "aborted" \in AddMfaFlow[18].unless
      /\ AddMfaFlow[19].step = "enroll-send" /\ "aborted" \in AddMfaFlow[19].unless
      /\ AddMfaFlow[20].step = "enroll-confirm" /\ "aborted" \in AddMfaFlow[20].unless /\ "enrolling" \in AddMfaFlow[20].when /\ "aborted" \notin AddMfaFlow[20].when
  BY <1>21, <1>7
<1> QED BY <1>17, <1>15, <1>22, <1>23, <1>24, <1>25

LEMMA AddMfaSteps ==
    /\ AddMfaFlow[1].step = "init-add-mfa"
    /\ AddMfaFlow[2].step = "while"
    /\ AddMfaFlow[3].step = "load-enrolled-mfa-methods"
    /\ AddMfaFlow[4].step = "select-mfa-method"
    /\ AddMfaFlow[5].step = "select-2fa"
    /\ AddMfaFlow[6].step = "manage-stepup-confirm"
    /\ AddMfaFlow[7].step = "leave"
    /\ AddMfaFlow[8].step = "pincode-send"
    /\ AddMfaFlow[9].step = "pincode-check"
    /\ AddMfaFlow[10].step = "totp-check"
    /\ AddMfaFlow[11].step = "again"
    /\ AddMfaFlow[12].step = "manage-password-reauth"
    /\ AddMfaFlow[13].step = "manage-stepup-done"
    /\ AddMfaFlow[14].step = "manage-menu"
    /\ AddMfaFlow[15].step = "confirm-remove-mfa"
    /\ AddMfaFlow[16].step = "enroll-pick-method"
    /\ AddMfaFlow[17].step = "enroll-address"
    /\ AddMfaFlow[18].step = "enroll-totp-qr"
    /\ AddMfaFlow[19].step = "enroll-send"
    /\ AddMfaFlow[20].step = "enroll-confirm"
BY AddMfaFlowRows DEF S

LEMMA SignupFlowRows ==
    /\ SignupFlow \in Seq(Row) /\ Len(SignupFlow) = 16
    /\ SignupFlow[1].step = "signup-form"
    /\ SignupFlow[2].step = "break"
    /\ SignupFlow[3] = S("while", {}, {"otp", "aborted"})
    /\ SignupFlow[4].step = "pincode-send"
    /\ SignupFlow[5].step = "pincode-check"
    /\ SignupFlow[6].step = "again"
    /\ SignupFlow[7] = S("break", {"aborted"}, {})
    /\ SignupFlow[8] = S("signup-create-user", {"otp"}, {"sub"})
    /\ SignupFlow[9] = S("break", {}, {"sub"})
    /\ SignupFlow[10].step = "prepare-consents"
    /\ SignupFlow[11] = S("create-password-form", {"newPassword"}, {})
    /\ SignupFlow[12] = S("break", {"aborted"}, {})
    /\ SignupFlow[13].step = "activate-user"
    /\ SignupFlow[14].step = "persist-consents"
    /\ SignupFlow[15].step = "auto-login-check"
    /\ SignupFlow[16].step = "finalize-auto-login"
<1> DEFINE p1 == << S("signup-form", {}, {}),
             S("break", {}, {"submitted"}) >>
           p3 == << S("signup-create-user", {"otp"}, {"sub"}),
             S("break", {}, {"sub"}),
             S("prepare-consents", {}, {}) >>
           p5 == << S("break", {"aborted"}, {}), S("activate-user", {}, {}) >>
           m2 == p1 \o OtpLoop
           m3 == m2 \o p3
           m4 == m3 \o PasswordPhase
           m5 == m4 \o p5
           m6 == m5 \o ConsentsTail
           m7 == m6 \o AutoLogin
<1>1. p1 \in Seq(Row) /\ Len(p1) = 2
  BY SRow DEF Steps, FactNames
<1>2. /\ p1[1].step = "signup-form"
      /\ p1[2].step = "break"
  BY DEF S
<1>3. OtpLoop \in Seq(Row) /\ Len(OtpLoop) = 5
  BY OtpLoopRows
<1>4. p3 \in Seq(Row) /\ Len(p3) = 3
  BY SRow DEF Steps, FactNames
<1>5. /\ p3[1] = S("signup-create-user", {"otp"}, {"sub"})
      /\ p3[2] = S("break", {}, {"sub"})
      /\ p3[3].step = "prepare-consents"
  BY DEF S
<1>6. PasswordPhase \in Seq(Row) /\ Len(PasswordPhase) = 1
  BY PasswordPhaseRows
<1>7. p5 \in Seq(Row) /\ Len(p5) = 2
  BY SRow DEF Steps, FactNames
<1>8. /\ p5[1] = S("break", {"aborted"}, {})
      /\ p5[2].step = "activate-user"
  BY DEF S
<1>9. ConsentsTail \in Seq(Row) /\ Len(ConsentsTail) = 1
  BY ConsentsTailRows
<1>10. AutoLogin \in Seq(Row) /\ Len(AutoLogin) = 2
  BY AutoLoginRows
<1> HIDE DEF p1, p3, p5
<1>11. Joined(p1, OtpLoop, m2) BY <1>1, <1>3, Cat
<1> HIDE DEF m2
<1>12. /\ m2 \in Seq(Row) /\ Len(m2) = 7
      /\ \A i \in 1..7 : m2[i] = IF i <= 2 THEN p1[i] ELSE OtpLoop[i - 2]
  BY <1>11, <1>1, <1>3 DEF Joined
<1>13. \A i \in 1..7 : m2[i] = IF i <= 2 THEN p1[i] ELSE OtpLoop[i - 2]
  BY <1>12
<1>14. Joined(m2, p3, m3) BY <1>12, <1>4, Cat
<1> HIDE DEF m3
<1>15. /\ m3 \in Seq(Row) /\ Len(m3) = 10
      /\ \A i \in 1..10 : m3[i] = IF i <= 7 THEN m2[i] ELSE p3[i - 7]
  BY <1>14, <1>12, <1>4 DEF Joined
<1>16. \A i \in 1..10 : m3[i] = IF i <= 7 THEN m2[i] ELSE p3[i - 7]
  BY <1>15
<1>17. Joined(m3, PasswordPhase, m4) BY <1>15, <1>6, Cat
<1> HIDE DEF m4
<1>18. /\ m4 \in Seq(Row) /\ Len(m4) = 11
      /\ \A i \in 1..11 : m4[i] = IF i <= 10 THEN m3[i] ELSE PasswordPhase[i - 10]
  BY <1>17, <1>15, <1>6 DEF Joined
<1>19. \A i \in 1..11 : m4[i] = IF i <= 10 THEN m3[i] ELSE PasswordPhase[i - 10]
  BY <1>18
<1>20. Joined(m4, p5, m5) BY <1>18, <1>7, Cat
<1> HIDE DEF m5
<1>21. /\ m5 \in Seq(Row) /\ Len(m5) = 13
      /\ \A i \in 1..13 : m5[i] = IF i <= 11 THEN m4[i] ELSE p5[i - 11]
  BY <1>20, <1>18, <1>7 DEF Joined
<1>22. \A i \in 1..13 : m5[i] = IF i <= 11 THEN m4[i] ELSE p5[i - 11]
  BY <1>21
<1>23. Joined(m5, ConsentsTail, m6) BY <1>21, <1>9, Cat
<1> HIDE DEF m6
<1>24. /\ m6 \in Seq(Row) /\ Len(m6) = 14
      /\ \A i \in 1..14 : m6[i] = IF i <= 13 THEN m5[i] ELSE ConsentsTail[i - 13]
  BY <1>23, <1>21, <1>9 DEF Joined
<1>25. \A i \in 1..14 : m6[i] = IF i <= 13 THEN m5[i] ELSE ConsentsTail[i - 13]
  BY <1>24
<1>26. Joined(m6, AutoLogin, m7) BY <1>24, <1>10, Cat
<1> HIDE DEF m7
<1>27. /\ m7 \in Seq(Row) /\ Len(m7) = 16
      /\ \A i \in 1..16 : m7[i] = IF i <= 14 THEN m6[i] ELSE AutoLogin[i - 14]
  BY <1>26, <1>24, <1>10 DEF Joined
<1>28. \A i \in 1..16 : m7[i] = IF i <= 14 THEN m6[i] ELSE AutoLogin[i - 14]
  BY <1>27
<1>29. SignupFlow = m7 BY DEF SignupFlow, p1, p3, p5, m2, m3, m4, m5, m6, m7
<1>30. /\ SignupFlow[1] = p1[1] /\ SignupFlow[2] = p1[2]
  BY <1>29, <1>13, <1>16, <1>19, <1>22, <1>25, <1>28
<1>31. /\ SignupFlow[3] = OtpLoop[1] /\ SignupFlow[4] = OtpLoop[2] /\ SignupFlow[5] = OtpLoop[3]
      /\ SignupFlow[6] = OtpLoop[4] /\ SignupFlow[7] = OtpLoop[5]
  BY <1>29, <1>13, <1>16, <1>19, <1>22, <1>25, <1>28
<1>32. /\ SignupFlow[8] = p3[1] /\ SignupFlow[9] = p3[2] /\ SignupFlow[10] = p3[3]
  BY <1>29, <1>16, <1>19, <1>22, <1>25, <1>28
<1>33. /\ SignupFlow[11] = PasswordPhase[1]
  BY <1>29, <1>19, <1>22, <1>25, <1>28
<1>34. /\ SignupFlow[12] = p5[1] /\ SignupFlow[13] = p5[2]
  BY <1>29, <1>22, <1>25, <1>28
<1>35. /\ SignupFlow[14] = ConsentsTail[1]
  BY <1>29, <1>25, <1>28
<1>36. /\ SignupFlow[15] = AutoLogin[1] /\ SignupFlow[16] = AutoLogin[2]
  BY <1>29, <1>28
<1>37. /\ SignupFlow[1].step = "signup-form"
      /\ SignupFlow[2].step = "break"
  BY <1>30, <1>2
<1>38. /\ SignupFlow[3] = S("while", {}, {"otp", "aborted"})
      /\ SignupFlow[4].step = "pincode-send"
      /\ SignupFlow[5].step = "pincode-check"
      /\ SignupFlow[6].step = "again"
      /\ SignupFlow[7] = S("break", {"aborted"}, {})
  BY <1>31, OtpLoopRows
<1>39. /\ SignupFlow[8] = S("signup-create-user", {"otp"}, {"sub"})
      /\ SignupFlow[9] = S("break", {}, {"sub"})
      /\ SignupFlow[10].step = "prepare-consents"
  BY <1>32, <1>5
<1>40. /\ SignupFlow[11] = S("create-password-form", {"newPassword"}, {})
  BY <1>33, PasswordPhaseRows
<1>41. /\ SignupFlow[12] = S("break", {"aborted"}, {})
      /\ SignupFlow[13].step = "activate-user"
  BY <1>34, <1>8
<1>42. /\ SignupFlow[14].step = "persist-consents"
  BY <1>35, ConsentsTailRows
<1>43. /\ SignupFlow[15].step = "auto-login-check"
      /\ SignupFlow[16].step = "finalize-auto-login"
  BY <1>36, AutoLoginRows
<1> QED BY <1>29, <1>27, <1>37, <1>38, <1>39, <1>40, <1>41, <1>42, <1>43

LEMMA SignupSteps ==
    /\ SignupFlow[1].step = "signup-form"
    /\ SignupFlow[2].step = "break"
    /\ SignupFlow[3].step = "while"
    /\ SignupFlow[4].step = "pincode-send"
    /\ SignupFlow[5].step = "pincode-check"
    /\ SignupFlow[6].step = "again"
    /\ SignupFlow[7].step = "break"
    /\ SignupFlow[8].step = "signup-create-user"
    /\ SignupFlow[9].step = "break"
    /\ SignupFlow[10].step = "prepare-consents"
    /\ SignupFlow[11].step = "create-password-form"
    /\ SignupFlow[12].step = "break"
    /\ SignupFlow[13].step = "activate-user"
    /\ SignupFlow[14].step = "persist-consents"
    /\ SignupFlow[15].step = "auto-login-check"
    /\ SignupFlow[16].step = "finalize-auto-login"
BY SignupFlowRows DEF S

(* --------------------------- Where a run may go ------------------------- *)
\* The engine runs the step at i; the engine steps over the one at j.
Due(c, i) == RunsFor(Schema[c.flow][i], Facts(c))
Passes(c, j) == Schema[c.flow][j].step \in {"while", "again"} \/ ~Due(c, j)

\* A schema of n steps whose loop is o..z (0 and 0: it has none).
Looped(c, n, o, z) ==
    /\ c.flow \in Flows /\ n = Len(Schema[c.flow]) /\ z <= n /\ ((o = 0 /\ z = 0) \/ (0 < o /\ o < z))
    /\ o = Place(Schema[c.flow], "while") /\ z = Place(Schema[c.flow], "again")
    /\ \A k \in 1..n : Schema[c.flow][k].step = "leave" => o < k /\ k < z

\* From position m the run goes on at j, in a schema of n steps whose loop is o..z.
Onward(c, m, j, n, o, z) ==
    /\ j \in 1..n /\ Due(c, j)
    /\ j >= m \/ (o < j /\ j < z /\ m <= z)
    /\ \A k \in m..(j - 1) : k < o \/ k > z => Passes(c, k)
    /\ m <= z /\ z < j => \/ ~Due(c, o)
                          \/ \E k \in (o + 1)..(z - 1) : Schema[c.flow][k].step = "leave" /\ Due(c, k)

LEMMA Walk ==
  ASSUME NEW c, NEW n \in Nat, NEW o \in Nat, NEW z \in Nat, Looped(c, n, o, z),
         NEW m \in 1..(n + 1), NEW j \in Follow(c, m), j # 0
  PROVE  Onward(c, m, j, n, o, z)
<1> USE DEF Looped
<1> SUFFICES /\ j \in 1..n /\ Due(c, j)
             /\ j >= m \/ (o < j /\ j < z /\ m <= z)
             /\ \A k \in m..(j - 1) : k < o \/ k > z => Passes(c, k)
             /\ m <= z /\ z < j => \/ ~Due(c, o)
                                   \/ \E k \in (o + 1)..(z - 1) : Schema[c.flow][k].step = "leave" /\ Due(c, k)
  BY DEF Onward
<1> DEFINE schema == Schema[c.flow]
           Stops(k) == schema[k].step \notin {"while", "again"} /\ Due(c, k)
           Quiet(a, b) == \A k \in a..b : ~Stops(k)
           First(a, b) == {k \in a..b : Stops(k) /\ Quiet(a, k - 1)}
           Outside(a) == IF Quiet(a, n) THEN {0} ELSE First(a, n)
           Inside(a, b) == IF \E k \in First(a, b) : schema[k].step = "leave" THEN Outside(z + 1)
                           ELSE First(a, b)
           Round == IF Due(c, o) THEN Inside(o + 1, z - 1) ELSE Outside(z + 1)
           last == (IF m < o THEN o ELSE z) - 1
           ends == IF m > z THEN Outside(m) ELSE IF Quiet(m, last) THEN Round ELSE Inside(m, last)
           Out(a, k) == k \in a..n /\ Stops(k) /\ Quiet(a, k - 1)
           Left == \E k \in (o + 1)..(z - 1) : schema[k].step = "leave" /\ Due(c, k)
<1>0. Opens[c.flow] = o /\ Closes[c.flow] = z
  BY DEF Opens, Closes
<1>1. j \in ends
  <2>1. j \in NextIn(Schema[c.flow], Facts(c), o, z, m)
    BY <1>0 DEF Follow
  <2> QED
    BY ZenonT(60), <2>1 DEF NextIn, Due
<1>2. \A a, b, k : k \in First(a, b) <=> k \in a..b /\ Stops(k) /\ Quiet(a, k - 1)
  OBVIOUS
<1> HIDE DEF First
<1>3. \A k : ~Stops(k) => Passes(c, k)
  BY DEF Passes
<1>4. \A k : Stops(k) => Due(c, k)
  OBVIOUS
<1>5. \A a : j \in Outside(a) => Out(a, j)
  BY <1>2
<1>6. CASE m > z
  <2>1. Out(m, j)
    BY <1>1, <1>5, <1>6
  <2> QED
    BY <2>1, <1>3, <1>4, <1>6
<1>7. CASE m <= z
  <2>1. 0 < o /\ o < z
    BY <1>7
  <2>2. j \in Inside(o + 1, z - 1) => (Out(o + 1, j) /\ j < z) \/ (Out(z + 1, j) /\ Left)
    <3>1. CASE \E k \in First(o + 1, z - 1) : schema[k].step = "leave"
      <4>1. Left
        BY <3>1, <1>2
      <4> QED
        BY <3>1, <4>1, <1>5
    <3>2. CASE ~\E k \in First(o + 1, z - 1) : schema[k].step = "leave"
      <4>1. j \in First(o + 1, z - 1) => Out(o + 1, j) /\ j < z
        BY <1>2, <2>1
      <4>2. j \in Inside(o + 1, z - 1) => j \in First(o + 1, z - 1)
        BY <3>2
      <4> HIDE DEF Inside, Out, Left
      <4> QED
        BY <4>1, <4>2
    <3> QED
      BY <3>1, <3>2
  <2>3. j \in Round => \/ (Out(o + 1, j) /\ j < z)
                       \/ Out(z + 1, j) /\ (Left \/ ~Due(c, o))
    BY <2>2, <1>5
  <2>4. CASE m < o
    <3>1. j \in First(m, last) => Out(m, j) /\ j < o
      BY <2>4, <2>1, <1>2
    <3>2. ~\E k \in First(m, last) : schema[k].step = "leave"
      <4>1. ASSUME NEW k \in First(m, last)
            PROVE  k \in 1..n /\ k < o
        <5>1. k \in m..last
          BY <4>1, <1>2
        <5> QED
          BY <5>1, <2>4, <2>1
      <4>2. \A k \in 1..n : schema[k].step = "leave" => o < k
        OBVIOUS
      <4> QED
        BY <4>1, <4>2
    <3>3. CASE ~Quiet(m, last)
      <4>1. Out(m, j) /\ j < o
        BY <1>1, <1>7, <3>1, <3>2, <3>3
      <4> QED
        BY <4>1, <1>3, <1>4, <2>1
    <3>4. CASE Quiet(m, last)
      <4>1. \A k \in m..(o - 1) : Passes(c, k)
        BY <3>4, <2>4, <1>3
      <4>2. j \in Round
        BY <1>1, <1>7, <3>4
      <4>3. CASE Out(o + 1, j) /\ j < z
        BY <4>1, <4>3, <1>3, <1>4, <2>1, <2>4
      <4>4. CASE Out(z + 1, j) /\ (Left \/ ~Due(c, o))
        BY <4>1, <4>4, <1>3, <1>4, <2>1, <2>4
      <4> QED
        BY <4>2, <4>3, <4>4, <2>3
    <3> QED
      BY <3>3, <3>4
  <2>5. CASE m >= o
    <3>1. j \in First(m, last) => Out(m, j) /\ j < z
      BY <2>5, <2>1, <1>2
    <3>2. CASE ~Quiet(m, last) /\ \E k \in First(m, last) : schema[k].step = "leave"
      <4>1. Left
        <5>1. PICK k \in First(m, last) : schema[k].step = "leave"
          BY <3>2
        <5>2. k \in m..last /\ Stops(k)
          BY <5>1, <1>2
        <5>3. k \in 1..n
          BY <5>2, <2>5, <2>1
        <5>4. o < k /\ k < z
          BY <5>1, <5>3
        <5>5. Due(c, k)
          BY <5>2
        <5>6. k \in (o + 1)..(z - 1)
          BY <5>3, <5>4
        <5> QED
          BY <5>1, <5>5, <5>6
      <4>2. Out(z + 1, j)
        BY <1>1, <1>5, <1>7, <3>2
      <4>3. j \in (z + 1)..n /\ Stops(j) /\ Quiet(z + 1, j - 1)
        BY <4>2
      <4>4. \A k \in m..(j - 1) : k > z => Passes(c, k)
        BY <4>3, <1>3, <1>7, SMTT(30)
      <4> QED
        BY SMTT(30), <4>1, <4>3, <4>4, <1>4, <1>7, <2>1, <2>5
    <3>3. CASE Quiet(m, last) \/ ~\E k \in First(m, last) : schema[k].step = "leave"
      <4>1. j \in First(m, last) \/ j \in Round
        <5>1. CASE Quiet(m, last)
          BY <1>1, <1>7, <5>1, SMTT(30)
        <5>2. CASE ~Quiet(m, last)
          BY <1>1, <1>7, <3>3, <5>2
        <5> QED
          BY <5>1, <5>2
      <4>2. CASE Out(m, j) /\ j < z
        BY <4>2, <1>3, <1>4, <2>1, <2>5
      <4>3. CASE Out(o + 1, j) /\ j < z
        BY <4>3, <1>3, <1>4, <1>7, <2>1, <2>5
      <4>4. CASE Out(z + 1, j) /\ (Left \/ ~Due(c, o))
        BY SMTT(30), <4>4, <1>3, <1>4, <1>7, <2>1, <2>5
      <4> QED
        BY <4>1, <4>2, <4>3, <4>4, <2>3, <3>1
    <3> QED
      BY <3>2, <3>3
  <2> QED
    BY <2>4, <2>5
<1> QED
  BY <1>6, <1>7

(* ---------------- What a context is, and what it has earned -------------- *)
\* The facts a context can hold, what a visitor can have proved, and the context.
Flags == {"silent", "otp", "emailConfirmed", "passwordInitial", "magicLink", "sent", "address",
          "aborted", "pendingLink", "linkByCode", "blocked", "terms", "decided", "asked",
          "newDevice", "stepUpConfirmed", "riskEvaluated", "ready", "done", "atLimit", "approved",
          "autoLogin", "named", "reuse", "dispatched", "alreadyAccepted", "choice", "otpMode",
          "stepUp", "byFactor", "stepUpDone", "submitted", "newPassword", "passwordChanged",
          "authz", "idpInbound"}
Proofs == {"session", "password", "link", "idp", "inbox", "code", "totp", "device", "enrolled", "skip"}
Context ==
    [flow : Flows, strat : {"encapsulated", "magic-link", "store"}, sub : Nat,
     stamp : Int, form : Int, pin : Nat, nonce : Nat, cand : Nat, method : {None} \cup Transports,
     all : SUBSET Transports, enroll : {None} \cup Transports, candidates : SUBSET Transports,
     op : {None, "add", "replace", "remove"}, is : SUBSET Flags, by : SUBSET Proofs]

\* The terms asked for are answered; a challenge was met where the policy wants
\* one; the codes are over; the address is confirmed.
Settled(c) == "terms" \in c.is => "decided" \in c.is
Challenged(c) == policy.mfa # "disabled" => "otp" \in c.is
OutOfCodes(c) == "otp" \in c.is \/ "aborted" \in c.is
Confirmed(c) == "ensureEmail" \in policy.has => "emailConfirmed" \in c.is

\* What a run at position i has passed, and so proved: the gates of each schema.
Upto(c, i) ==
    /\ c.flow = "login" =>
          /\ i > 15 => Confirmed(c)
          /\ i > 30 => Challenged(c)
          /\ i > 33 => Settled(c)
    /\ c.flow = "invite" =>
          /\ i > 3 /\ c.sub # 0 => "dispatched" \in c.is
          /\ i > 8 => "passwordChanged" \in c.is /\ Settled(c)
          /\ i > 23 => Challenged(c)
    /\ c.flow = "recovery" =>
          /\ i > 11 => OutOfCodes(c)
          /\ i > 12 => "otp" \in c.is
          /\ i > 14 => Settled(c)
    /\ c.flow = "signup" =>
          /\ i > 6 => OutOfCodes(c)
          /\ i > 7 => "otp" \in c.is
          /\ i > 9 => c.sub # 0
          /\ i > 11 => "passwordChanged" \in c.is /\ Settled(c)
    /\ c.flow = "addMfa" /\ "stepUp" \in c.is =>
          /\ i > 11 => OutOfCodes(c) \/ "byFactor" \notin c.is
          /\ i > 12 => OutOfCodes(c)


\* What a run at position i has yet to come to.
Ahead(c, i) ==
    /\ i = 1 => c.sub = 0 /\ "stepUp" \notin c.is /\ "otp" \notin c.is
    /\ c.flow = "login" /\ i = 15 => "asked" \in c.is \/ Confirmed(c)
    /\ c.flow = "invite" => /\ i < 4 => "otp" \notin c.is /\ "passwordChanged" \notin c.is
                            /\ 4 < i /\ i < 9 => "newPassword" \in c.is
    /\ c.flow = "signup" /\ i < 12 => "passwordChanged" \notin c.is


\* A signup has an account only once its password was chosen.
Signed(c) == c.flow = "signup" /\ c.sub # 0 => "newPassword" \in c.is \/ "passwordChanged" \in c.is

\* What a step may count on because the engine ran it.
Open(c, i) ==
    /\ Schema[c.flow][i].step = "pincode-check" /\ c.flow \in {"login", "invite", "addMfa"} => c.method = "email"
    /\ Schema[c.flow][i].step \in {"confirm-remove-mfa", "enroll-confirm"} /\ c.flow = "addMfa" => "aborted" \notin c.is
    /\ Schema[c.flow][i].step = "enroll-confirm" => c.enroll # None

LEMMA Guards ==
  ASSUME NEW e \in Row, NEW facts
  PROVE  /\ RunsFor(e, facts) => /\ \A f \in e.when : f \in facts
                                 /\ \A f \in e.unless : f \notin e.when => f \notin facts
         /\ (\A f \in e.when : f \in facts) /\ (\A f \in e.unless : f \notin facts) => RunsFor(e, facts)
BY DEF RunsFor, Row

\* The facts the schemas ask about, by the fields of the context.
FactsAre(c) ==
    /\ \A f \in Flags : f \in Facts(c) <=> f \in c.is
    /\ "sub" \in Facts(c) <=> c.sub # 0
    /\ "emailMethod" \in Facts(c) <=> c.method = "email"
    /\ "enrolling" \in Facts(c) <=> c.enroll # None
    /\ "mfa" \in Facts(c) <=> policy.mfa # "disabled"
    /\ "ensureEmail" \in Facts(c) <=> "ensureEmail" \in policy.has

LEMMA FactsOf ==
  ASSUME NEW c \in Context, policy.has \subseteq Settings
  PROVE  FactsAre(c)
<1> DEFINE derived == {"sub", "pin", "passwordStamp", "method", "emailMethod", "totpMethod", "many", "enrolled",
                       "enrolling", "enrollTotp", "acting", "removing", "canEnroll", "mfa"}
           more == Given("sub", c.sub # 0) \cup Given("pin", c.pin # 0)
         \cup Given("passwordStamp", c.stamp # Unset)
         \cup Given("method", c.method # None) \cup Given("emailMethod", c.method = "email")
         \cup Given("totpMethod", c.method = "totp") \cup Given("many", Cardinality(c.all) > 1)
         \cup Given("enrolled", c.all # {}) \cup Given("enrolling", c.enroll # None)
         \cup Given("enrollTotp", c.enroll = "totp") \cup Given("acting", c.op # None)
         \cup Given("removing", c.op = "remove")
         \cup Given("canEnroll", c.op = "replace" \/ c.candidates # {})
         \cup Given("mfa", policy.mfa # "disabled")
<1>1. \A f, holds : Given(f, holds) \subseteq {f} /\ (f \in Given(f, holds) <=> holds)
  BY DEF Given
<1>2. more \subseteq derived
  BY <1>1
<1>3. /\ "sub" \in more <=> c.sub # 0
      /\ "emailMethod" \in more <=> c.method = "email"
      /\ "enrolling" \in more <=> c.enroll # None
      /\ "mfa" \in more <=> policy.mfa # "disabled"
  BY DEF Given
<1>4. \A f : f \in Facts(c) <=> f \in c.is \/ f \in more \/ f \in policy.has
  BY DEF Facts
<1>5. c.is \subseteq Flags
  BY DEF Context
<1>6. \A f \in Flags : f \notin derived /\ f \notin Settings
  BY DEF Flags, Settings
<1>7. \A f \in {"sub", "emailMethod", "enrolling", "mfa"} : f \notin Flags /\ f \notin Settings
  BY DEF Flags, Settings
<1>8. "ensureEmail" \notin Flags /\ "ensureEmail" \notin derived
  BY DEF Flags
<1> HIDE DEF derived, more
<1>9. \A f \in Flags : f \in Facts(c) <=> f \in c.is
  BY <1>2, <1>4, <1>6
<1>10. \A f \in {"sub", "emailMethod", "enrolling", "mfa"} : f \in Facts(c) <=> f \in more
  BY <1>4, <1>5, <1>7
<1>11. "ensureEmail" \in Facts(c) <=> "ensureEmail" \in policy.has
  BY <1>2, <1>4, <1>5, <1>8
<1> QED
  BY <1>3, <1>9, <1>10, <1>11 DEF FactsAre

LEMMA PlaceIs ==
  ASSUME NEW schema \in Seq(Row), NEW word, NEW p \in 1..Len(schema), schema[p].step = word,
         \A k \in 1..Len(schema) : schema[k].step = word => k = p
  PROVE  Place(schema, word) = p
<1>1. {j \in DOMAIN schema : schema[j].step = word} = {p}
  OBVIOUS
<1> QED
  BY <1>1 DEF Place

LEMMA PlaceNone ==
  ASSUME NEW schema \in Seq(Row), NEW word, \A k \in 1..Len(schema) : schema[k].step # word
  PROVE  Place(schema, word) = 0
<1>1. {j \in DOMAIN schema : schema[j].step = word} = {}
  OBVIOUS
<1> QED
  BY <1>1 DEF Place

LEMMA LoginOnward ==
  ASSUME NEW c, c.flow = "login", NEW m \in 1..46, NEW j \in Follow(c, m), j # 0
  PROVE  Onward(c, m, j, 45, 16, 30)
<1>1. Schema[c.flow] = LoginFlow
  BY DEF Schema
<1>2. LoginFlow \in Seq(Row)
  BY LoginFlowRows
<1>3. Len(LoginFlow) = 45
  BY LoginFlowRows
<1>4. LoginFlow[16].step = "while" /\ LoginFlow[30].step = "again"
  BY LoginSteps
<1>5. \A k \in 1..Len(LoginFlow) : LoginFlow[k].step = "while" => k = 16
  BY <1>3, LoginSteps
<1>6. \A k \in 1..Len(LoginFlow) : LoginFlow[k].step = "again" => k = 30
  BY <1>3, LoginSteps
<1>7. \A k \in 1..45 : LoginFlow[k].step # "leave"
  BY LoginSteps
<1>8. 16 \in 1..Len(LoginFlow) /\ 30 \in 1..Len(LoginFlow)
  BY <1>3
<1>9. Place(LoginFlow, "while") = 16 /\ Place(LoginFlow, "again") = 30
  BY <1>2, <1>4, <1>5, <1>6, <1>8, PlaceIs
<1>10. Looped(c, 45, 16, 30)
  BY <1>1, <1>3, <1>7, <1>9 DEF Looped, Flows
<1>11. m \in 1..(45 + 1)
  OBVIOUS
<1> QED
  BY <1>10, <1>11, Walk

LEMMA InviteOnward ==
  ASSUME NEW c, c.flow = "invite", NEW m \in 1..29, NEW j \in Follow(c, m), j # 0
  PROVE  Onward(c, m, j, 28, 9, 23)
<1>1. Schema[c.flow] = InviteFlow
  BY DEF Schema
<1>2. InviteFlow \in Seq(Row)
  BY InviteFlowRows
<1>3. Len(InviteFlow) = 28
  BY InviteFlowRows
<1>4. InviteFlow[9].step = "while" /\ InviteFlow[23].step = "again"
  BY InviteSteps
<1>5. \A k \in 1..Len(InviteFlow) : InviteFlow[k].step = "while" => k = 9
  BY <1>3, InviteSteps
<1>6. \A k \in 1..Len(InviteFlow) : InviteFlow[k].step = "again" => k = 23
  BY <1>3, InviteSteps
<1>7. \A k \in 1..28 : InviteFlow[k].step # "leave"
  BY InviteSteps
<1>8. 9 \in 1..Len(InviteFlow) /\ 23 \in 1..Len(InviteFlow)
  BY <1>3
<1>9. Place(InviteFlow, "while") = 9 /\ Place(InviteFlow, "again") = 23
  BY <1>2, <1>4, <1>5, <1>6, <1>8, PlaceIs
<1>10. Looped(c, 28, 9, 23)
  BY <1>1, <1>3, <1>7, <1>9 DEF Looped, Flows
<1>11. m \in 1..(28 + 1)
  OBVIOUS
<1> QED
  BY <1>10, <1>11, Walk

LEMMA RecoveryOnward ==
  ASSUME NEW c, c.flow = "recovery", NEW m \in 1..23, NEW j \in Follow(c, m), j # 0
  PROVE  Onward(c, m, j, 22, 8, 11)
<1>1. Schema[c.flow] = RecoveryFlow
  BY DEF Schema
<1>2. RecoveryFlow \in Seq(Row)
  BY RecoveryFlowRows
<1>3. Len(RecoveryFlow) = 22
  BY RecoveryFlowRows
<1>4. RecoveryFlow[8].step = "while" /\ RecoveryFlow[11].step = "again"
  BY RecoverySteps
<1>5. \A k \in 1..Len(RecoveryFlow) : RecoveryFlow[k].step = "while" => k = 8
  BY <1>3, RecoverySteps
<1>6. \A k \in 1..Len(RecoveryFlow) : RecoveryFlow[k].step = "again" => k = 11
  BY <1>3, RecoverySteps
<1>7. \A k \in 1..22 : RecoveryFlow[k].step # "leave"
  BY RecoverySteps
<1>8. 8 \in 1..Len(RecoveryFlow) /\ 11 \in 1..Len(RecoveryFlow)
  BY <1>3
<1>9. Place(RecoveryFlow, "while") = 8 /\ Place(RecoveryFlow, "again") = 11
  BY <1>2, <1>4, <1>5, <1>6, <1>8, PlaceIs
<1>10. Looped(c, 22, 8, 11)
  BY <1>1, <1>3, <1>7, <1>9 DEF Looped, Flows
<1>11. m \in 1..(22 + 1)
  OBVIOUS
<1> QED
  BY <1>10, <1>11, Walk

LEMMA SignupOnward ==
  ASSUME NEW c, c.flow = "signup", NEW m \in 1..17, NEW j \in Follow(c, m), j # 0
  PROVE  Onward(c, m, j, 16, 3, 6)
<1>1. Schema[c.flow] = SignupFlow
  BY DEF Schema
<1>2. SignupFlow \in Seq(Row)
  BY SignupFlowRows
<1>3. Len(SignupFlow) = 16
  BY SignupFlowRows
<1>4. SignupFlow[3].step = "while" /\ SignupFlow[6].step = "again"
  BY SignupSteps
<1>5. \A k \in 1..Len(SignupFlow) : SignupFlow[k].step = "while" => k = 3
  BY <1>3, SignupSteps
<1>6. \A k \in 1..Len(SignupFlow) : SignupFlow[k].step = "again" => k = 6
  BY <1>3, SignupSteps
<1>7. \A k \in 1..16 : SignupFlow[k].step # "leave"
  BY SignupSteps
<1>8. 3 \in 1..Len(SignupFlow) /\ 6 \in 1..Len(SignupFlow)
  BY <1>3
<1>9. Place(SignupFlow, "while") = 3 /\ Place(SignupFlow, "again") = 6
  BY <1>2, <1>4, <1>5, <1>6, <1>8, PlaceIs
<1>10. Looped(c, 16, 3, 6)
  BY <1>1, <1>3, <1>7, <1>9 DEF Looped, Flows
<1>11. m \in 1..(16 + 1)
  OBVIOUS
<1> QED
  BY <1>10, <1>11, Walk

LEMMA AddMfaOnward ==
  ASSUME NEW c, c.flow = "addMfa", NEW m \in 1..21, NEW j \in Follow(c, m), j # 0
  PROVE  Onward(c, m, j, 20, 2, 11)
<1>1. Schema[c.flow] = AddMfaFlow
  BY DEF Schema
<1>2. AddMfaFlow \in Seq(Row)
  BY AddMfaFlowRows
<1>3. Len(AddMfaFlow) = 20
  BY AddMfaFlowRows
<1>4. AddMfaFlow[2].step = "while" /\ AddMfaFlow[11].step = "again"
  BY AddMfaSteps
<1>5. \A k \in 1..Len(AddMfaFlow) : AddMfaFlow[k].step = "while" => k = 2
  BY <1>3, AddMfaSteps
<1>6. \A k \in 1..Len(AddMfaFlow) : AddMfaFlow[k].step = "again" => k = 11
  BY <1>3, AddMfaSteps
<1>7. \A k \in 1..20 : AddMfaFlow[k].step = "leave" => k = 7
  BY AddMfaSteps
<1>8. 2 \in 1..Len(AddMfaFlow) /\ 11 \in 1..Len(AddMfaFlow)
  BY <1>3
<1>9. Place(AddMfaFlow, "while") = 2 /\ Place(AddMfaFlow, "again") = 11
  BY <1>2, <1>4, <1>5, <1>6, <1>8, PlaceIs
<1>10. Looped(c, 20, 2, 11)
  BY <1>1, <1>3, <1>7, <1>9 DEF Looped, Flows
<1>11. m \in 1..(20 + 1)
  OBVIOUS
<1> QED
  BY <1>10, <1>11, Walk

LEMMA ChangeOnward ==
  ASSUME NEW c, c.flow = "change", NEW m \in 1..4, NEW j \in Follow(c, m), j # 0
  PROVE  Onward(c, m, j, 3, 0, 0)
<1>1. Schema[c.flow] = ChangePasswordFlow
  BY DEF Schema
<1>2. ChangePasswordFlow \in Seq(Row) /\ Len(ChangePasswordFlow) = 3
  BY ChangePasswordFlowRows
<1>3. \A k \in 1..3 : ChangePasswordFlow[k].step \notin {"while", "again", "leave"}
  BY ChangePasswordSteps
<1>4. Place(ChangePasswordFlow, "while") = 0 /\ Place(ChangePasswordFlow, "again") = 0
  BY <1>2, <1>3, PlaceNone
<1>5. Looped(c, 3, 0, 0)
  BY <1>1, <1>2, <1>3, <1>4 DEF Looped, Flows
<1>6. m \in 1..(3 + 1)
  OBVIOUS
<1> QED
  BY <1>5, <1>6, Walk

LEMMA IsDue ==
  ASSUME NEW c, NEW i, NEW x, NEW w, NEW u, Schema[c.flow][i] = S(x, w, u),
         \A f \in w : f \in Facts(c), \A f \in u : f \notin Facts(c)
  PROVE  Due(c, i)
BY DEF Due, RunsFor, S

LEMMA IsStop ==
  ASSUME NEW c, NEW i, NEW x, NEW w, NEW u, Schema[c.flow][i] = S(x, w, u), x \notin {"while", "again"},
         \A f \in w : f \in Facts(c), \A f \in u : f \notin Facts(c)
  PROVE  ~Passes(c, i)
BY IsDue DEF Passes, S

\* A run may stand at i: it has what lies behind, and not what lies ahead.
Reached(c, i) == Upto(c, i) /\ Ahead(c, i)

LEMMA LoginWalks ==
  ASSUME policy.has \subseteq Settings, NEW c \in Context, c.flow = "login",
         NEW m \in 1..46, Reached(c, m), NEW j \in Follow(c, m), j # 0
  PROVE  Reached(c, j) 
<1>1. /\ j \in 1..45
      /\ j >= m \/ (16 < j /\ j < 30 /\ m <= 30)
      /\ \A k \in m..(j - 1) : k < 16 \/ k > 30 => Passes(c, k)
      /\ m <= 30 /\ 30 < j => ~Due(c, 16)
  <2>1. Onward(c, m, j, 45, 16, 30)
    BY LoginOnward
  <2>2. \A k \in 1..45 : Schema[c.flow][k].step # "leave"
    BY LoginSteps DEF Schema
  <2> QED
    BY <2>1, <2>2 DEF Onward
<1>2. FactsAre(c)
  BY FactsOf
<1>3. /\ Schema[c.flow][14] = S("ask/email", {"ensureEmail"}, {"asked", "emailConfirmed"})
      /\ Schema[c.flow][15] = S("verify/email", {"ensureEmail", "asked"}, {"emailConfirmed"})
      /\ Schema[c.flow][16] = S("while", {"mfa"}, {"otp"})
      /\ Schema[c.flow][33] = S("terms-bump-prompt", {"terms"}, {"decided"})
  BY LoginFlowRows DEF Schema
<1>4. /\ Passes(c, 14) => "asked" \in c.is \/ Confirmed(c)
      /\ Passes(c, 15) => "asked" \notin c.is \/ Confirmed(c)
  BY <1>2, <1>3, IsStop DEF FactsAre, Flags, Confirmed
<1>5. ~Due(c, 16) => Challenged(c)
  BY <1>2, <1>3, IsDue DEF FactsAre, Flags, Challenged
<1>6. Passes(c, 33) => Settled(c)
  BY <1>2, <1>3, IsStop DEF FactsAre, Flags, Settled
<1>7. j > 15 => Confirmed(c)
  <2>1. CASE m > 15
    BY <2>1 DEF Reached, Upto
  <2>2. CASE m = 15
    BY <2>2, <1>1, <1>4 DEF Reached, Ahead
  <2>3. CASE m < 15
    BY <2>3, <1>1, <1>4
  <2> QED
    BY <2>1, <2>2, <2>3
<1>8. j > 30 => Challenged(c)
  BY <1>1, <1>5 DEF Reached, Upto
<1>9. j > 33 => Settled(c)
  BY <1>1, <1>6 DEF Reached, Upto
<1>10. j = 15 => "asked" \in c.is \/ Confirmed(c)
  BY <1>1, <1>4 DEF Reached, Ahead
<1>11. j = 1 => m = 1
  BY <1>1
<1> QED
  BY <1>7, <1>8, <1>9, <1>10, <1>11 DEF Reached, Upto, Ahead

LEMMA InviteWalks ==
  ASSUME policy.has \subseteq Settings, NEW c \in Context, c.flow = "invite",
         NEW m \in 1..29, Reached(c, m), NEW j \in Follow(c, m), j # 0
  PROVE  Reached(c, j)
<1>1. /\ j \in 1..28
      /\ j >= m \/ (9 < j /\ j < 23 /\ m <= 23)
      /\ \A k \in m..(j - 1) : k < 9 \/ k > 23 => Passes(c, k)
      /\ m <= 23 /\ 23 < j => ~Due(c, 9)
  <2>1. Onward(c, m, j, 28, 9, 23)
    BY InviteOnward
  <2>2. \A k \in 1..28 : Schema[c.flow][k].step # "leave"
    BY InviteSteps DEF Schema
  <2> QED
    BY <2>1, <2>2 DEF Onward
<1>2. FactsAre(c)
  BY FactsOf
<1>3. /\ Schema[c.flow][3] = S("send-email", {"sub"}, {})
      /\ Schema[c.flow][4] = S("init-invite-accept", {}, {})
      /\ Schema[c.flow][8] = S("create-password-form", {"newPassword"}, {})
      /\ Schema[c.flow][9] = S("while", {"mfa"}, {"otp"})
  BY InviteFlowRows DEF Schema
<1>4. Passes(c, 3) => c.sub = 0
  BY <1>2, <1>3, IsStop DEF FactsAre
<1>5. ~Passes(c, 4)
  BY <1>3, IsStop
<1>6. Passes(c, 8) => "newPassword" \notin c.is
  BY <1>2, <1>3, IsStop DEF FactsAre, Flags
<1>7. ~Due(c, 9) => Challenged(c)
  BY <1>2, <1>3, IsDue DEF FactsAre, Flags, Challenged
<1>8. m < 5 => j < 5
  BY <1>1, <1>5
<1>9. m < 9 => j < 9
  BY <1>1, <1>6, <1>8 DEF Reached, Ahead
<1>10. j > 3 /\ c.sub # 0 => "dispatched" \in c.is
  BY <1>1, <1>4 DEF Reached, Upto
<1>11. j > 8 => "passwordChanged" \in c.is /\ Settled(c)
  BY <1>1, <1>9 DEF Reached, Upto
<1>12. j > 23 => Challenged(c)
  BY <1>1, <1>7 DEF Reached, Upto
<1>13. j < 4 => m < 4
  BY <1>1
<1>14. 4 < j /\ j < 9 => 4 < m /\ m < 9
  BY <1>1, <1>8
<1> QED
  BY <1>1, <1>10, <1>11, <1>12, <1>13, <1>14 DEF Reached, Upto, Ahead

LEMMA RecoveryWalks ==
  ASSUME policy.has \subseteq Settings, NEW c \in Context, c.flow = "recovery",
         NEW m \in 1..23, Reached(c, m), NEW j \in Follow(c, m), j # 0
  PROVE  Reached(c, j)
<1>1. /\ j \in 1..22
      /\ j >= m \/ (8 < j /\ j < 11 /\ m <= 11)
      /\ \A k \in m..(j - 1) : k < 8 \/ k > 11 => Passes(c, k)
      /\ m <= 11 /\ 11 < j => ~Due(c, 8)
  <2>1. Onward(c, m, j, 22, 8, 11)
    BY RecoveryOnward
  <2>2. \A k \in 1..22 : Schema[c.flow][k].step # "leave"
    BY RecoverySteps DEF Schema
  <2> QED
    BY <2>1, <2>2 DEF Onward
<1>2. FactsAre(c)
  BY FactsOf
<1>3. /\ Schema[c.flow][8] = S("while", {}, {"otp", "aborted"})
      /\ Schema[c.flow][12] = S("break", {"aborted"}, {})
      /\ Schema[c.flow][14] = S("create-password-form", {"otp"}, {})
  BY RecoveryFlowRows DEF Schema
<1>4. ~Due(c, 8) => OutOfCodes(c)
  BY <1>2, <1>3, IsDue DEF FactsAre, Flags, OutOfCodes
<1>5. Passes(c, 12) => "aborted" \notin c.is
  BY <1>2, <1>3, IsStop DEF FactsAre, Flags
<1>6. Passes(c, 14) => "otp" \notin c.is
  BY <1>2, <1>3, IsStop DEF FactsAre, Flags
<1>7. j > 11 => OutOfCodes(c)
  BY <1>1, <1>4 DEF Reached, Upto
<1>8. j > 12 => "otp" \in c.is
  BY <1>1, <1>5, <1>7 DEF Reached, Upto, OutOfCodes
<1>9. j > 14 => Settled(c)
  BY <1>1, <1>6, <1>8 DEF Reached, Upto
<1>10. j = 1 => m = 1
  BY <1>1
<1> QED
  BY <1>7, <1>8, <1>9, <1>10 DEF Reached, Upto, Ahead

LEMMA SignupWalks ==
  ASSUME policy.has \subseteq Settings, NEW c \in Context, c.flow = "signup", Signed(c),
         NEW m \in 1..17, Reached(c, m), NEW j \in Follow(c, m), j # 0
  PROVE  Reached(c, j)
<1>1. /\ j \in 1..16
      /\ j >= m \/ (3 < j /\ j < 6 /\ m <= 6)
      /\ \A k \in m..(j - 1) : k < 3 \/ k > 6 => Passes(c, k)
      /\ m <= 6 /\ 6 < j => ~Due(c, 3)
  <2>1. Onward(c, m, j, 16, 3, 6)
    BY SignupOnward
  <2>2. \A k \in 1..16 : Schema[c.flow][k].step # "leave"
    BY SignupSteps DEF Schema
  <2> QED
    BY <2>1, <2>2 DEF Onward
<1>2. FactsAre(c)
  BY FactsOf
<1>3. /\ Schema[c.flow][3] = S("while", {}, {"otp", "aborted"})
      /\ Schema[c.flow][7] = S("break", {"aborted"}, {})
      /\ Schema[c.flow][9] = S("break", {}, {"sub"})
      /\ Schema[c.flow][11] = S("create-password-form", {"newPassword"}, {})
  BY SignupFlowRows DEF Schema
<1>4. ~Due(c, 3) => OutOfCodes(c)
  BY <1>2, <1>3, IsDue DEF FactsAre, Flags, OutOfCodes
<1>5. Passes(c, 7) => "aborted" \notin c.is
  BY <1>2, <1>3, IsStop DEF FactsAre, Flags
<1>6. Passes(c, 9) => c.sub # 0
  BY <1>2, <1>3, IsStop DEF FactsAre
<1>7. Passes(c, 11) => "newPassword" \notin c.is
  BY <1>2, <1>3, IsStop DEF FactsAre, Flags
<1>8. j > 6 => OutOfCodes(c)
  BY <1>1, <1>4 DEF Reached, Upto
<1>9. j > 7 => "otp" \in c.is
  BY <1>1, <1>5, <1>8 DEF Reached, Upto, OutOfCodes
<1>10. j > 9 => c.sub # 0
  BY <1>1, <1>6 DEF Reached, Upto
<1>11. m < 12 => j < 12
  BY <1>1, <1>7, <1>10 DEF Reached, Ahead, Signed
<1>12. j > 11 => "passwordChanged" \in c.is /\ Settled(c)
  BY <1>1, <1>11 DEF Reached, Upto
<1>13. j < 12 => m < 12
  BY <1>1
<1>14. j = 1 => m = 1
  BY <1>1
<1> QED
  BY <1>8, <1>9, <1>10, <1>12, <1>13, <1>14 DEF Reached, Upto, Ahead

LEMMA AddMfaWalks ==
  ASSUME policy.has \subseteq Settings, NEW c \in Context, c.flow = "addMfa",
         NEW m \in 1..21, Reached(c, m), NEW j \in Follow(c, m), j # 0
  PROVE  Reached(c, j)
<1>1. /\ j \in 1..20
      /\ j >= m \/ (2 < j /\ j < 11 /\ m <= 11)
      /\ \A k \in m..(j - 1) : k < 2 \/ k > 11 => Passes(c, k)
      /\ m <= 11 /\ 11 < j => ~Due(c, 2) \/ Due(c, 7)
  <2>1. Onward(c, m, j, 20, 2, 11)
    BY AddMfaOnward
  <2>2. \A k \in 1..20 : Schema[c.flow][k].step = "leave" => k = 7
    BY AddMfaSteps DEF Schema
  <2> QED
    BY <2>1, <2>2 DEF Onward
<1>2. FactsAre(c)
  BY FactsOf
<1>3. /\ Schema[c.flow][2] = S("while", {"stepUp", "byFactor"}, {"otp", "aborted"})
      /\ Schema[c.flow][7] = S("leave", {"aborted"}, {})
      /\ Schema[c.flow][12] = S("manage-password-reauth", {"stepUp"}, {"byFactor", "otp"})
  BY AddMfaFlowRows DEF Schema
<1>4. ~Due(c, 2) => "stepUp" \notin c.is \/ "byFactor" \notin c.is \/ OutOfCodes(c)
  BY <1>2, <1>3, IsDue DEF FactsAre, Flags, OutOfCodes
<1>5. Due(c, 7) => "aborted" \in c.is
  <2>1. Schema[c.flow][7].when = {"aborted"}
    BY <1>3 DEF S
  <2> QED
    BY <1>2, <2>1 DEF FactsAre, Flags, Due, RunsFor
<1>6. Passes(c, 12) => "stepUp" \notin c.is \/ "byFactor" \in c.is \/ "otp" \in c.is
  BY <1>2, <1>3, IsStop DEF FactsAre, Flags
<1>7. "stepUp" \in c.is /\ j > 11 => OutOfCodes(c) \/ "byFactor" \notin c.is
  BY <1>1, <1>4, <1>5 DEF Reached, Upto, OutOfCodes
<1>8. "stepUp" \in c.is /\ j > 12 => OutOfCodes(c)
  BY <1>1, <1>6, <1>7 DEF Reached, Upto, OutOfCodes
<1>9. j = 1 => m = 1
  BY <1>1
<1> QED
  BY <1>7, <1>8, <1>9 DEF Reached, Upto, Ahead

LEMMA ChangeWalks ==
  ASSUME NEW c \in Context, c.flow = "change",
         NEW m \in 1..4, Reached(c, m), NEW j \in Follow(c, m), j # 0
  PROVE  Reached(c, j)
<1>1. j \in 1..3 /\ j >= m
  BY ChangeOnward DEF Onward
<1>2. j = 1 => m = 1
  BY <1>1
<1> QED
  BY <1>2 DEF Reached, Upto, Ahead

\* Which step stands where.
LEMMA LoginSites ==
  \A k \in 1..45 :
    /\ LoginFlow[k].step = "init-login" => k = 1
    /\ LoginFlow[k].step = "credentials" => k = 3
    /\ LoginFlow[k].step = "magic-link-verified" => k = 7
    /\ LoginFlow[k].step = "sso-callback" => k = 2
    /\ LoginFlow[k].step = "prove-control" => k = 8
    /\ LoginFlow[k].step = "prepare-consents" => k = 10
    /\ LoginFlow[k].step = "create-password-form" => k = 12
    /\ LoginFlow[k].step = "ask/email" => k = 14
    /\ LoginFlow[k].step = "verify/email" => k = 15
    /\ LoginFlow[k].step = "check-trusted-device" => k = 17
    /\ LoginFlow[k].step = "pincode-check" => k = 22
    /\ LoginFlow[k].step = "totp-check" => k = 23
    /\ LoginFlow[k].step = "risk-step-up" => k = 29
    /\ LoginFlow[k].step = "enroll-pick-method" => k = 24
    /\ LoginFlow[k].step = "enroll-address" => k = 25
    /\ LoginFlow[k].step = "enroll-totp-qr" => k = 26
    /\ LoginFlow[k].step = "enroll-send" => k = 27
    /\ LoginFlow[k].step = "enroll-confirm" => k = 28
    /\ LoginFlow[k].step = "issue" => k = 41
    /\ LoginFlow[k].step = "mint-authz-code" => k = 45
    /\ LoginFlow[k].step = "terms-bump-prompt" => k = 33
    /\ LoginFlow[k].step = "break" => k \in {9, 13, 37, 40, 44}
    /\ LoginFlow[k].step = "while" => k = 16
    /\ LoginFlow[k].step = "again" => k = 30
    /\ LoginFlow[k].step \notin
         {"recovery-link-verified", "manage-password-reauth", "create-user", "send-email",
          "init-invite-accept", "activate-user", "init-change-password"}
    /\ LoginFlow[k].step \notin
         {"finish-change-password", "init-add-mfa", "finalize-auto-login", "signup-create-user",
          "confirm-remove-mfa", "leave"}
<1>1. \A k \in 1..45 :
      /\ LoginFlow[k].step = "init-login" => k = 1
      /\ LoginFlow[k].step = "credentials" => k = 3
      /\ LoginFlow[k].step = "magic-link-verified" => k = 7
      /\ LoginFlow[k].step = "sso-callback" => k = 2
      /\ LoginFlow[k].step = "prove-control" => k = 8
      /\ LoginFlow[k].step = "prepare-consents" => k = 10
      /\ LoginFlow[k].step = "create-password-form" => k = 12
      /\ LoginFlow[k].step = "ask/email" => k = 14
      /\ LoginFlow[k].step = "verify/email" => k = 15
      /\ LoginFlow[k].step = "check-trusted-device" => k = 17
      /\ LoginFlow[k].step = "pincode-check" => k = 22
      /\ LoginFlow[k].step = "totp-check" => k = 23
      /\ LoginFlow[k].step = "risk-step-up" => k = 29
  BY LoginSteps, SMTT(30)
<1>2. \A k \in 1..45 :
      /\ LoginFlow[k].step = "enroll-pick-method" => k = 24
      /\ LoginFlow[k].step = "enroll-address" => k = 25
      /\ LoginFlow[k].step = "enroll-totp-qr" => k = 26
      /\ LoginFlow[k].step = "enroll-send" => k = 27
      /\ LoginFlow[k].step = "enroll-confirm" => k = 28
      /\ LoginFlow[k].step = "issue" => k = 41
      /\ LoginFlow[k].step = "mint-authz-code" => k = 45
      /\ LoginFlow[k].step = "terms-bump-prompt" => k = 33
      /\ LoginFlow[k].step = "break" => k \in {9, 13, 37, 40, 44}
      /\ LoginFlow[k].step = "while" => k = 16
      /\ LoginFlow[k].step = "again" => k = 30
  BY LoginSteps, SMTT(30)
<1>3. \A k \in 1..45 :
      /\ LoginFlow[k].step \notin
           {"recovery-link-verified", "manage-password-reauth", "create-user", "send-email",
            "init-invite-accept", "activate-user", "init-change-password"}
  BY LoginSteps, SMTT(30)
<1>4. \A k \in 1..45 :
      /\ LoginFlow[k].step \notin
           {"finish-change-password", "init-add-mfa", "finalize-auto-login", "signup-create-user",
            "confirm-remove-mfa", "leave"}
  BY LoginSteps, SMTT(30)
<1> QED
  BY <1>1, <1>2, <1>3, <1>4

LEMMA InviteSites ==
  \A k \in 1..28 :
    /\ InviteFlow[k].step = "prepare-consents" => k = 7
    /\ InviteFlow[k].step = "create-password-form" => k = 8
    /\ InviteFlow[k].step = "check-trusted-device" => k = 10
    /\ InviteFlow[k].step = "pincode-check" => k = 15
    /\ InviteFlow[k].step = "totp-check" => k = 16
    /\ InviteFlow[k].step = "risk-step-up" => k = 22
    /\ InviteFlow[k].step = "enroll-pick-method" => k = 17
    /\ InviteFlow[k].step = "enroll-address" => k = 18
    /\ InviteFlow[k].step = "enroll-totp-qr" => k = 19
    /\ InviteFlow[k].step = "enroll-send" => k = 20
    /\ InviteFlow[k].step = "enroll-confirm" => k = 21
    /\ InviteFlow[k].step = "create-user" => k = 2
    /\ InviteFlow[k].step = "send-email" => k = 3
    /\ InviteFlow[k].step = "init-invite-accept" => k = 4
    /\ InviteFlow[k].step = "activate-user" => k = 26
    /\ InviteFlow[k].step = "finalize-auto-login" => k = 28
    /\ InviteFlow[k].step = "break" => k = 6
    /\ InviteFlow[k].step = "while" => k = 9
    /\ InviteFlow[k].step = "again" => k = 23
    /\ InviteFlow[k].step \notin
         {"init-login", "credentials", "magic-link-verified", "sso-callback", "prove-control",
          "recovery-link-verified", "ask/email", "verify/email", "manage-password-reauth",
          "init-change-password", "finish-change-password", "init-add-mfa", "issue",
          "mint-authz-code", "signup-create-user", "confirm-remove-mfa", "terms-bump-prompt",
          "leave"}
BY InviteSteps

LEMMA RecoverySites ==
  \A k \in 1..22 :
    /\ RecoveryFlow[k].step = "recovery-link-verified" => k = 5
    /\ RecoveryFlow[k].step = "prepare-consents" => k = 13
    /\ RecoveryFlow[k].step = "create-password-form" => k = 14
    /\ RecoveryFlow[k].step = "pincode-check" => k = 10
    /\ RecoveryFlow[k].step = "finalize-auto-login" => k = 22
    /\ RecoveryFlow[k].step = "break" => k \in {6, 7, 12, 15, 20}
    /\ RecoveryFlow[k].step = "while" => k = 8
    /\ RecoveryFlow[k].step = "again" => k = 11
    /\ RecoveryFlow[k].step \notin
         {"init-login", "credentials", "magic-link-verified", "sso-callback", "prove-control",
          "ask/email", "verify/email", "check-trusted-device", "totp-check", "risk-step-up",
          "enroll-pick-method", "enroll-address", "enroll-totp-qr", "enroll-send",
          "enroll-confirm", "manage-password-reauth", "create-user", "send-email",
          "init-invite-accept", "activate-user", "init-change-password", "finish-change-password",
          "init-add-mfa", "issue", "mint-authz-code", "signup-create-user", "confirm-remove-mfa",
          "terms-bump-prompt", "leave"}
BY RecoverySteps

LEMMA ChangePasswordSites ==
  \A k \in 1..3 :
    /\ ChangePasswordFlow[k].step = "init-change-password" => k = 1
    /\ ChangePasswordFlow[k].step = "finish-change-password" => k = 3
    /\ ChangePasswordFlow[k].step \notin
         {"init-login", "credentials", "magic-link-verified", "sso-callback", "prove-control",
          "recovery-link-verified", "prepare-consents", "create-password-form", "ask/email",
          "verify/email", "check-trusted-device", "pincode-check", "totp-check", "risk-step-up",
          "enroll-pick-method", "enroll-address", "enroll-totp-qr", "enroll-send",
          "enroll-confirm", "manage-password-reauth", "create-user", "send-email",
          "init-invite-accept", "activate-user", "init-add-mfa", "issue", "mint-authz-code",
          "finalize-auto-login", "signup-create-user", "confirm-remove-mfa", "terms-bump-prompt",
          "break", "while", "again", "leave"}
BY ChangePasswordSteps

LEMMA AddMfaSites ==
  \A k \in 1..20 :
    /\ AddMfaFlow[k].step = "pincode-check" => k = 9
    /\ AddMfaFlow[k].step = "totp-check" => k = 10
    /\ AddMfaFlow[k].step = "enroll-pick-method" => k = 16
    /\ AddMfaFlow[k].step = "enroll-address" => k = 17
    /\ AddMfaFlow[k].step = "enroll-totp-qr" => k = 18
    /\ AddMfaFlow[k].step = "enroll-send" => k = 19
    /\ AddMfaFlow[k].step = "enroll-confirm" => k = 20
    /\ AddMfaFlow[k].step = "manage-password-reauth" => k = 12
    /\ AddMfaFlow[k].step = "init-add-mfa" => k = 1
    /\ AddMfaFlow[k].step = "confirm-remove-mfa" => k = 15
    /\ AddMfaFlow[k].step = "while" => k = 2
    /\ AddMfaFlow[k].step = "again" => k = 11
    /\ AddMfaFlow[k].step = "leave" => k = 7
    /\ AddMfaFlow[k].step \notin
         {"init-login", "credentials", "magic-link-verified", "sso-callback", "prove-control",
          "recovery-link-verified", "prepare-consents", "create-password-form", "ask/email",
          "verify/email", "check-trusted-device", "risk-step-up", "create-user", "send-email",
          "init-invite-accept", "activate-user", "init-change-password", "finish-change-password",
          "issue", "mint-authz-code", "finalize-auto-login", "signup-create-user",
          "terms-bump-prompt", "break"}
BY AddMfaSteps

LEMMA SignupSites ==
  \A k \in 1..16 :
    /\ SignupFlow[k].step = "prepare-consents" => k = 10
    /\ SignupFlow[k].step = "create-password-form" => k = 11
    /\ SignupFlow[k].step = "pincode-check" => k = 5
    /\ SignupFlow[k].step = "activate-user" => k = 13
    /\ SignupFlow[k].step = "finalize-auto-login" => k = 16
    /\ SignupFlow[k].step = "signup-create-user" => k = 8
    /\ SignupFlow[k].step = "break" => k \in {2, 7, 9, 12}
    /\ SignupFlow[k].step = "while" => k = 3
    /\ SignupFlow[k].step = "again" => k = 6
    /\ SignupFlow[k].step \notin
         {"init-login", "credentials", "magic-link-verified", "sso-callback", "prove-control",
          "recovery-link-verified", "ask/email", "verify/email", "check-trusted-device",
          "totp-check", "risk-step-up", "enroll-pick-method", "enroll-address", "enroll-totp-qr",
          "enroll-send", "enroll-confirm", "manage-password-reauth", "create-user", "send-email",
          "init-invite-accept", "init-change-password", "finish-change-password", "init-add-mfa",
          "issue", "mint-authz-code", "confirm-remove-mfa", "terms-bump-prompt", "leave"}
BY SignupSteps

LEMMA DueOpen ==
  ASSUME policy.has \subseteq Settings, NEW c \in Context, NEW j \in 1..Len(Schema[c.flow]), Due(c, j)
  PROVE  Open(c, j)
<1>1. FactsAre(c)
  BY FactsOf
<1>2. Schema[c.flow] = CASE c.flow = "login" -> LoginFlow [] c.flow = "invite" -> InviteFlow
                          [] c.flow = "recovery" -> RecoveryFlow [] c.flow = "change" -> ChangePasswordFlow
                          [] c.flow = "addMfa" -> AddMfaFlow [] c.flow = "signup" -> SignupFlow
  BY DEF Context, Flows, Schema
<1> DEFINE e == Schema[c.flow][j]
<1>3. /\ e.step = "pincode-check" /\ c.flow \in {"login", "invite", "addMfa"} => "emailMethod" \in e.when
      /\ e.step = "enroll-confirm" => "enrolling" \in e.when
      /\ e.step \in {"confirm-remove-mfa", "enroll-confirm"} /\ c.flow = "addMfa"
            => "aborted" \in e.unless /\ "aborted" \notin e.when
  <2>1. CASE c.flow = "login"
    <3>1. j \in 1..45 /\ e = LoginFlow[j]
      <4>1. Schema[c.flow] = LoginFlow
        BY <2>1 DEF Schema
      <4>2. Len(LoginFlow) = 45
        BY LoginFlowRows
      <4> QED
        BY <4>1, <4>2
    <3>2. /\ e.step = "pincode-check" => j = 22
          /\ e.step = "enroll-confirm" => j = 28
      BY <3>1, LoginSites
    <3>3. "emailMethod" \in LoginFlow[22].when /\ "enrolling" \in LoginFlow[28].when
      BY LoginFlowRows
    <3> QED
      BY <2>1, <3>1, <3>2, <3>3
  <2>2. CASE c.flow = "invite"
    <3>1. j \in 1..28 /\ e = InviteFlow[j]
      <4>1. Schema[c.flow] = InviteFlow
        BY <2>2 DEF Schema
      <4>2. Len(InviteFlow) = 28
        BY InviteFlowRows
      <4> QED
        BY <4>1, <4>2
    <3>2. /\ e.step = "pincode-check" => j = 15
          /\ e.step = "enroll-confirm" => j = 21
      BY <3>1, InviteSites
    <3>3. "emailMethod" \in InviteFlow[15].when /\ "enrolling" \in InviteFlow[21].when
      BY InviteFlowRows
    <3> QED
      BY <2>2, <3>1, <3>2, <3>3
  <2>3. CASE c.flow = "addMfa"
    <3>1. j \in 1..20 /\ e = AddMfaFlow[j]
      <4>1. Schema[c.flow] = AddMfaFlow
        BY <2>3 DEF Schema
      <4>2. Len(AddMfaFlow) = 20
        BY AddMfaFlowRows
      <4> QED
        BY <4>1, <4>2
    <3>2. /\ e.step = "pincode-check" => j = 9
          /\ e.step = "enroll-confirm" => j = 20
          /\ e.step = "confirm-remove-mfa" => j = 15
      BY <3>1, AddMfaSites
    <3>3. /\ "emailMethod" \in AddMfaFlow[9].when /\ "enrolling" \in AddMfaFlow[20].when
          /\ "aborted" \in AddMfaFlow[20].unless /\ "aborted" \notin AddMfaFlow[20].when
          /\ "aborted" \in AddMfaFlow[15].unless /\ "aborted" \notin AddMfaFlow[15].when
      BY AddMfaFlowRows DEF S
    <3> QED
      BY <2>3, <3>1, <3>2, <3>3
  <2>4. CASE c.flow \in {"recovery", "change", "signup"}
    <3>1. e.step # "enroll-confirm"
      <4>1. CASE c.flow = "recovery"
        <5>1. j \in 1..22 /\ e = RecoveryFlow[j]
          <6>1. Schema[c.flow] = RecoveryFlow
            BY <4>1 DEF Schema
          <6>2. Len(RecoveryFlow) = 22
            BY RecoveryFlowRows
          <6> QED
            BY <6>1, <6>2
        <5> QED
          BY <5>1, RecoverySites
      <4>2. CASE c.flow = "change"
        <5>1. j \in 1..3 /\ e = ChangePasswordFlow[j]
          <6>1. Schema[c.flow] = ChangePasswordFlow
            BY <4>2 DEF Schema
          <6>2. Len(ChangePasswordFlow) = 3
            BY ChangePasswordFlowRows
          <6> QED
            BY <6>1, <6>2
        <5> QED
          BY <5>1, ChangePasswordSites
      <4>3. CASE c.flow = "signup"
        <5>1. j \in 1..16 /\ e = SignupFlow[j]
          <6>1. Schema[c.flow] = SignupFlow
            BY <4>3 DEF Schema
          <6>2. Len(SignupFlow) = 16
            BY SignupFlowRows
          <6> QED
            BY <6>1, <6>2
        <5> QED
          BY <5>1, SignupSites
      <4> QED
        BY <2>4, <4>1, <4>2, <4>3
    <3> QED
      BY <2>4, <3>1
  <2> QED
    BY <2>1, <2>2, <2>3, <2>4 DEF Context, Flows
<1>4. e \in Row
  <2>1. Schema[c.flow] \in Seq(Row)
    BY <1>2, LoginFlowRows, InviteFlowRows, RecoveryFlowRows, ChangePasswordFlowRows, AddMfaFlowRows,
       SignupFlowRows DEF Context, Flows
  <2> QED
    BY <2>1
<1>5. /\ "emailMethod" \in e.when => c.method = "email"
      /\ "enrolling" \in e.when => c.enroll # None
      /\ "aborted" \in e.unless /\ "aborted" \notin e.when => "aborted" \notin c.is
  <2>1. /\ e.when \subseteq Facts(c)
        /\ "aborted" \in e.unless /\ "aborted" \notin e.when => "aborted" \notin Facts(c)
    BY <1>4, Guards DEF Due
  <2> QED
    BY <1>1, <2>1 DEF FactsAre, Flags
<1> QED
  BY <1>3, <1>5 DEF Open

\* The schema of a flow, and its length.
Sized(flow, schema, n) == Schema[flow] = schema /\ Len(schema) = n

LEMMA Sizes ==
  /\ Sized("login", LoginFlow, 45) /\ Sized("invite", InviteFlow, 28)
  /\ Sized("recovery", RecoveryFlow, 22) /\ Sized("change", ChangePasswordFlow, 3)
  /\ Sized("addMfa", AddMfaFlow, 20) /\ Sized("signup", SignupFlow, 16)
<1>1. Len(LoginFlow) = 45 /\ Len(InviteFlow) = 28 /\ Len(RecoveryFlow) = 22
  BY LoginFlowRows, InviteFlowRows, RecoveryFlowRows
<1>2. Len(ChangePasswordFlow) = 3 /\ Len(AddMfaFlow) = 20 /\ Len(SignupFlow) = 16
  BY ChangePasswordFlowRows, AddMfaFlowRows, SignupFlowRows
<1> QED
  BY <1>1, <1>2 DEF Sized, Schema

\* Where the run may go: what it has passed, and that the step is due.
LEMMA WalkOn ==
  ASSUME policy.has \subseteq Settings, NEW c \in Context, Signed(c),
         NEW m \in 1..(Len(Schema[c.flow]) + 1), Reached(c, m), NEW j \in Follow(c, m), j # 0
  PROVE  j \in 1..Len(Schema[c.flow]) /\ Reached(c, j) /\ Open(c, j)
<1>1. /\ j \in 1..Len(Schema[c.flow]) /\ Reached(c, j)
      /\ Due(c, j)
  <2>1. CASE c.flow = "login"
    <3>1. Len(Schema[c.flow]) = 45
      BY <2>1, Sizes DEF Sized
    <3>2. Onward(c, m, j, 45, 16, 30) /\ Reached(c, j)
      BY <2>1, <3>1, LoginOnward, LoginWalks
    <3> QED
      BY <3>1, <3>2 DEF Onward
  <2>2. CASE c.flow = "invite"
    <3>1. Len(Schema[c.flow]) = 28
      BY <2>2, Sizes DEF Sized
    <3>2. Onward(c, m, j, 28, 9, 23) /\ Reached(c, j)
      BY <2>2, <3>1, InviteOnward, InviteWalks
    <3> QED
      BY <3>1, <3>2 DEF Onward
  <2>3. CASE c.flow = "recovery"
    <3>1. Len(Schema[c.flow]) = 22
      BY <2>3, Sizes DEF Sized
    <3>2. Onward(c, m, j, 22, 8, 11) /\ Reached(c, j)
      BY <2>3, <3>1, RecoveryOnward, RecoveryWalks
    <3> QED
      BY <3>1, <3>2 DEF Onward
  <2>4. CASE c.flow = "change"
    <3>1. Len(Schema[c.flow]) = 3
      BY <2>4, Sizes DEF Sized
    <3>2. Onward(c, m, j, 3, 0, 0) /\ Reached(c, j)
      BY <2>4, <3>1, ChangeOnward, ChangeWalks
    <3> QED
      BY <3>1, <3>2 DEF Onward
  <2>5. CASE c.flow = "addMfa"
    <3>1. Len(Schema[c.flow]) = 20
      BY <2>5, Sizes DEF Sized
    <3>2. Onward(c, m, j, 20, 2, 11) /\ Reached(c, j)
      BY <2>5, <3>1, AddMfaOnward, AddMfaWalks
    <3> QED
      BY <3>1, <3>2 DEF Onward
  <2>6. CASE c.flow = "signup"
    <3>1. Len(Schema[c.flow]) = 16
      BY <2>6, Sizes DEF Sized
    <3>2. Onward(c, m, j, 16, 3, 6) /\ Reached(c, j)
      BY <2>6, <3>1, SignupOnward, SignupWalks
    <3> QED
      BY <3>1, <3>2 DEF Onward
  <2>7. c.flow \in Flows
    BY DEF Context
  <2> QED
    BY <2>1, <2>2, <2>3, <2>4, <2>5, <2>6, <2>7 DEF Flows
<1> QED
  BY <1>1, DueOpen

\* The step at position i is behind the run.
Passed(c, i) ==
    /\ c.flow = "login" => /\ i # 14 /\ i # 30
                           /\ i = 15 => Confirmed(c)
                           /\ i = 33 => Settled(c)
    /\ c.flow = "invite" => /\ i # 23
                            /\ i = 3 => "dispatched" \in c.is
                            /\ i = 4 => "newPassword" \in c.is
                            /\ i = 8 => "passwordChanged" \in c.is /\ Settled(c)
    /\ c.flow = "recovery" => i # 11 /\ i # 12 /\ (i = 14 => Settled(c))
    /\ c.flow = "signup" => /\ i # 6 /\ i # 7 /\ i # 9
                            /\ i = 11 => "passwordChanged" \in c.is /\ Settled(c)
    /\ c.flow = "addMfa" => i # 11 /\ (i = 12 => OutOfCodes(c))

LEMMA StepOver ==
  ASSUME NEW c, NEW i \in Nat \ {0}, Upto(c, i), Passed(c, i),
         \/ Ahead(c, i)
         \/ c.flow \in {"login", "recovery"}
         \/ c.flow = "invite" /\ i = 8
         \/ c.flow = "signup" /\ i = 11
  PROVE  Reached(c, i + 1)
<1>1. Upto(c, i + 1)
  BY DEF Upto, Passed
<1>2. Ahead(c, i + 1)
  BY DEF Ahead, Passed
<1> QED
  BY <1>1, <1>2 DEF Reached

\* The steps a run does not pass without earning something.
Turning == {"ask/email", "verify/email", "again", "while", "terms-bump-prompt", "send-email",
            "init-invite-accept", "create-password-form", "break", "manage-password-reauth"}

LEMMA TurningSites ==
    /\ \A k \in {14, 15, 30, 33} : LoginFlow[k].step \in Turning
    /\ \A k \in {3, 4, 8, 23} : InviteFlow[k].step \in Turning
<1>1. \A k \in {14, 15, 30, 33} : LoginFlow[k].step \in Turning
  BY LoginSteps DEF Turning
<1>2. \A k \in {3, 4, 8, 23} : InviteFlow[k].step \in Turning
  BY InviteSteps DEF Turning
<1> QED
  BY <1>1, <1>2

\* Most steps change nothing the later ones count on.
LEMMA Ordinary ==
  ASSUME NEW c, c.flow \in Flows, NEW i \in 1..Len(Schema[c.flow]), Schema[c.flow][i].step \notin Turning
  PROVE  Passed(c, i)
<1> DEFINE x == Schema[c.flow][i].step
<1>1. CASE c.flow = "login"
  <2>1. Schema[c.flow] = LoginFlow
    BY <1>1, Sizes DEF Sized
  <2>2. i # 14 /\ i # 15 /\ i # 30 /\ i # 33
    BY <2>1, TurningSites
  <2> QED
    BY <1>1, <2>2 DEF Passed
<1>2. CASE c.flow = "invite"
  <2>1. Schema[c.flow] = InviteFlow
    BY <1>2, Sizes DEF Sized
  <2>2. i # 3 /\ i # 4 /\ i # 8 /\ i # 23
    BY <2>1, TurningSites
  <2> QED
    BY <1>2, <2>2 DEF Passed
<1>3. CASE c.flow = "recovery"
  <2>1. Schema[c.flow] = RecoveryFlow
    BY <1>3, Sizes DEF Sized
  <2>2. i # 11 /\ i # 12 /\ i # 14
    BY <2>1, RecoverySteps, SMTT(30) DEF Turning
  <2> QED
    BY <1>3, <2>2 DEF Passed
<1>4. CASE c.flow = "change"
  BY <1>4 DEF Passed
<1>5. CASE c.flow = "addMfa"
  <2>1. Schema[c.flow] = AddMfaFlow
    BY <1>5, Sizes DEF Sized
  <2>2. i # 11 /\ i # 12
    BY <2>1, AddMfaSteps, SMTT(30) DEF Turning
  <2> QED
    BY <1>5, <2>2 DEF Passed
<1>6. CASE c.flow = "signup"
  <2>1. Schema[c.flow] = SignupFlow
    BY <1>6, Sizes DEF Sized
  <2>2. i # 6 /\ i # 7 /\ i # 9 /\ i # 11
    BY <2>1, SignupSteps DEF Turning
  <2> QED
    BY <1>6, <2>2 DEF Passed
<1> QED
  BY <1>1, <1>2, <1>3, <1>4, <1>5, <1>6 DEF Flows

\* Where the steps stand that the invariant is about.
Site(f, i, x) ==
    /\ x = "init-login" => f = "login" /\ i = 1
    /\ x \in {"credentials", "magic-link-verified", "sso-callback", "prove-control"} => f = "login"
    /\ x = "ask/email" => f = "login" /\ i = 14
    /\ x = "verify/email" => f = "login" /\ i = 15
    /\ x = "terms-bump-prompt" => f = "login" /\ i = 33
    /\ x \in {"issue", "mint-authz-code"} => f = "login" /\ i > 33
    /\ x = "recovery-link-verified" => f = "recovery"
    /\ x = "prepare-consents" => \/ f = "login" /\ i = 10
                                 \/ f = "invite" /\ i = 7
                                 \/ f = "recovery" /\ i = 13
                                 \/ f = "signup" /\ i = 10
    /\ x = "create-password-form" => \/ f = "login" /\ i = 12
                                     \/ f = "invite" /\ i = 8
                                     \/ f = "recovery" /\ i = 14
                                     \/ f = "signup" /\ i = 11
    /\ x \in {"check-trusted-device", "risk-step-up"} =>
          \/ f = "login" /\ 15 < i /\ i < 30
          \/ f = "invite" /\ 9 < i /\ i < 23
    /\ x \in {"totp-check", "enroll-pick-method", "enroll-address", "enroll-totp-qr", "enroll-confirm"} =>
          \/ f \in {"login", "addMfa"}
          \/ f = "invite" /\ i > 9
    /\ x = "pincode-check" => f # "change" /\ (f = "invite" => i > 9)
    /\ x \in {"enroll-confirm", "confirm-remove-mfa"} /\ f = "addMfa" => i > 12
    /\ x = "manage-password-reauth" => f = "addMfa" /\ i = 12
    /\ x = "create-user" => f = "invite" /\ i = 2
    /\ x = "send-email" => f = "invite" /\ i = 3
    /\ x = "init-invite-accept" => f = "invite" /\ i = 4
    /\ x = "activate-user" => \/ f = "invite" /\ i > 8
                              \/ f = "signup" /\ i > 11
    /\ x \in {"init-change-password", "finish-change-password"} => f = "change"
    /\ x = "init-add-mfa" => f = "addMfa" /\ i = 1
    /\ x = "finalize-auto-login" => \/ f = "invite" /\ i > 23
                                    \/ f = "recovery" /\ i > 14
                                    \/ f = "signup" /\ i > 11
    /\ x = "signup-create-user" => f = "signup" /\ i = 8

LEMMA LoginSite == \A i \in 1..45 : Site("login", i, LoginFlow[i].step)
BY LoginSites DEF Site
LEMMA InviteSite == \A i \in 1..28 : Site("invite", i, InviteFlow[i].step)
BY InviteSites DEF Site
LEMMA RecoverySite == \A i \in 1..22 : Site("recovery", i, RecoveryFlow[i].step)
BY RecoverySites DEF Site
LEMMA ChangeSite == \A i \in 1..3 : Site("change", i, ChangePasswordFlow[i].step)
BY ChangePasswordSites DEF Site
LEMMA AddMfaSite == \A i \in 1..20 : Site("addMfa", i, AddMfaFlow[i].step)
BY AddMfaSites DEF Site
LEMMA SignupSite == \A i \in 1..16 : Site("signup", i, SignupFlow[i].step)
BY SignupSites DEF Site

LEMMA Sites ==
  ASSUME NEW f \in Flows, NEW i \in 1..Len(Schema[f])
  PROVE  Site(f, i, Schema[f][i].step)
<1>1. \A schema, n : Sized(f, schema, n) /\ (\A k \in 1..n : Site(f, k, schema[k].step))
                       => Site(f, i, Schema[f][i].step)
  BY SMTT(30) DEF Sized
<1>2. \E schema, n : Sized(f, schema, n) /\ \A k \in 1..n : Site(f, k, schema[k].step)
  BY Sizes, LoginSite, InviteSite, RecoverySite, ChangeSite, AddMfaSite, SignupSite DEF Flows
<1> QED
  BY <1>1, <1>2

(* ------------------------- The inductive invariant ---------------------- *)
Factor == {"code", "totp", "device", "enrolled"}
SilentFactor(c) == "silent" \in c.is /\ "silentMfa" \notin policy.has

\* What a run that has passed a challenge proved by it.
Factored(c) ==
    "otp" \in c.is =>
        /\ c.flow \in {"login", "invite"} /\ policy.mfa = "required" => c.by \cap Factor # {} \/ SilentFactor(c)
        /\ c.flow \in {"recovery", "signup"} => c.by \cap {"code", "link"} # {}
        /\ c.flow = "addMfa" /\ "stepUp" \in c.is => c.by \cap {"code", "totp", "password"} # {}
\* Whom a login is for was proved, and an accepted invite was mailed.
Identified(c) == c.flow = "login" /\ c.sub # 0 => c.by \cap {"password", "link", "idp", "session"} # {}
Mailed(c) == c.flow = "invite" /\ "dispatched" \in c.is => "inbox" \in c.by
\* A context says of itself nothing that its visitor has not proved.
Earned(c) == Factored(c) /\ Identified(c) /\ Mailed(c) /\ Signed(c) /\ (c.flow = "change" => "terms" \notin c.is)

\* Nothing the run holds is newer than the account row a or the n codes sent.
Owned(c, a, n) ==
    /\ c.sub <= a.born /\ c.cand <= a.born /\ c.pin <= n
    /\ c.flow \in {"invite", "signup"} /\ "passwordChanged" \in c.is =>
          c.sub # 0 /\ (c.sub = a.id => a.pw > 0 /\ ~a.initial)

Good(c, a, n) == c \in Context /\ Earned(c) /\ Owned(c, a, n)

\* The states the engine keeps, the runs of a request, and the codes sent.
Ends == {"password", "reset", "invite", "blocked"}
Phases == {"enter", "compare", "write", "pend"}
State == [at : Nat, c : Context, left : Nat]
Run == [at : Nat \ {0}, c : Context, input : BOOLEAN, phase : Phases, from : SUBSET State, dead : SUBSET Ends]
Code == [for : Nat, tries : Nat, wrong : Nat, wins : Nat]

\* A paused state, and a run, whose context is good for where it stands.
Kept(p, a, n) == /\ p \in State /\ p.at \in 1..Len(Schema[p.c.flow])
                 /\ Good(p.c, a, n) /\ Reached(p.c, p.at)
Running(r, a, n) ==
    /\ r.at \in 1..Len(Schema[r.c.flow])
    /\ Good(r.c, a, n) /\ Reached(r.c, r.at) /\ Open(r.c, r.at)
    /\ \A p \in r.from : Kept(p, a, n)
    /\ r.phase = "compare" => r.c.pin # 0
    /\ r.phase = "pend" => Schema[r.c.flow][r.at].step = "create-user"

\* What the log says of a sign-in, a grant and a change of factors is proved.
Entry(e) ==
    /\ e.what \in {"session", "grant"} =>
        /\ e.flow = "login" => Has(e, {"password", "link", "idp", "session"}) /\ Confirmed(e)
        /\ Settled(e)
        /\ e.flow \in {"login", "invite"} /\ policy.mfa = "required" => Has(e, Factor) \/ SilentFactor(e)
        /\ e.flow \in {"recovery", "signup", "invite"} => Has(e, {"code", "link", "inbox"})
    /\ e.flow = "addMfa" /\ e.what \in {"factor", "remove"} /\ "stepUp" \in e.is
          => Has(e, {"code", "totp", "password"})

\* The inductive invariant: the types, every paused or running context good for
\* its position, every entry of the log proved, an active account with a password.
TypeOK ==
    /\ policy \in Deployment
    /\ acct \in Account /\ acct.id <= acct.born
    /\ codes \in Seq(Code) /\ failures \in [Targets -> Nat]
    /\ req \in [Requests -> Run \cup {Idle}]

Sound == /\ \A p \in paused : Kept(p, acct, Len(codes))
         /\ \A q \in Requests : req[q] # Idle => Running(req[q], acct, Len(codes))

WfInv == TypeOK /\ Sound /\ (\A e \in log : Entry(e)) /\ ActiveMeansPassword

LEMMA LogProved == WfInv => SessionsAreProved /\ ManageNeedsChallenge
BY DEF WfInv, Entry, SessionsAreProved, ManageNeedsChallenge, SignIns, Confirmed, Settled, SilentFactor, Factor

(* ----------------------------- What a step keeps ------------------------ *)
\* The account row b may follow the row a.
Grows(a, b) ==
    /\ b \in Account /\ b.id <= b.born /\ a.born <= b.born
    /\ b.id # a.id /\ b.id # 0 => b.id > a.born
    /\ b.id = a.id /\ a.pw > 0 /\ ~a.initial => b.pw > 0 /\ ~b.initial

LEMMA GrowsGood ==
  ASSUME NEW a \in Account, NEW b, Grows(a, b), NEW n \in Nat, NEW k \in Nat, n <= k, NEW c, Good(c, a, n)
  PROVE  Good(c, b, k)
<1>1. c.sub \in Nat /\ c.cand \in Nat /\ c.pin \in Nat
  BY DEF Good, Context
<1>2. a.born \in Nat /\ b.born \in Nat /\ b.id \in Nat /\ a.id \in Nat
  BY DEF Grows, Account
<1>3. Owned(c, b, k)
  BY <1>1, <1>2 DEF Good, Owned, Grows
<1> QED
  BY <1>3 DEF Good

\* The facts a step of its own gives, and those a context may gain on the way.
Fixed == {"otp", "terms", "stepUp", "byFactor", "dispatched", "passwordChanged"}
Rising == {"aborted", "emailConfirmed", "asked", "decided", "newPassword", "silent"}

\* The context d says no less than c of what the invariant is about.
Same(c, d) ==
    /\ d \in Context /\ d.flow = c.flow /\ d.sub = c.sub /\ c.by \subseteq d.by
    /\ d.pin \in {0, c.pin} /\ d.cand \in {c.cand, acct.id}
    /\ \A f \in Fixed : f \in d.is <=> f \in c.is
    /\ \A f \in Rising : f \in c.is => f \in d.is

LEMMA SameEarned ==
  ASSUME NEW c, NEW d, Earned(c), Same(c, d)
  PROVE  Earned(d)
<1>1. /\ \A f \in {"otp", "terms", "stepUp", "dispatched", "passwordChanged"} : f \in d.is <=> f \in c.is
      /\ \A f \in {"newPassword", "silent"} : f \in c.is => f \in d.is
      /\ \A x : c.by \cap x # {} => d.by \cap x # {}
      /\ "inbox" \in c.by => "inbox" \in d.by
      /\ d.flow = c.flow /\ d.sub = c.sub
  BY DEF Same, Fixed, Rising
<1>2. Factored(d)
  BY <1>1 DEF Earned, Factored, SilentFactor
<1>3. Identified(d) /\ Mailed(d) /\ Signed(d)
  BY <1>1 DEF Earned, Identified, Mailed, Signed
<1> QED
  BY <1>1, <1>2, <1>3 DEF Earned

LEMMA SameGood ==
  ASSUME NEW c, NEW d, acct \in Account, acct.id <= acct.born, NEW n \in Nat, Good(c, acct, n), Same(c, d)
  PROVE  Good(d, acct, n)
<1>1. Earned(d)
  BY SameEarned DEF Good
<1>2. /\ d.pin \in {0, c.pin} /\ d.cand \in {c.cand, acct.id} /\ d.flow = c.flow /\ d.sub = c.sub
      /\ "passwordChanged" \in d.is <=> "passwordChanged" \in c.is
  BY DEF Same, Fixed
<1>3. Owned(d, acct, n)
  BY <1>2 DEF Good, Owned
<1> QED
  BY <1>1, <1>3 DEF Good, Same

LEMMA SameReached ==
  ASSUME NEW c, NEW d, NEW i \in Nat, Same(c, d), Reached(c, i)
  PROVE  Reached(d, i)
<1>1. /\ \A f \in {"otp", "terms", "stepUp", "byFactor", "dispatched", "passwordChanged"} :
            f \in d.is <=> f \in c.is
      /\ \A f \in {"aborted", "emailConfirmed", "asked", "decided", "newPassword"} : f \in c.is => f \in d.is
      /\ d.flow = c.flow /\ d.sub = c.sub
  BY DEF Same, Fixed, Rising
<1>2. Upto(d, i)
  BY <1>1 DEF Reached, Upto, Confirmed, Challenged, Settled, OutOfCodes
<1>3. Ahead(d, i)
  BY <1>1 DEF Reached, Ahead, Confirmed
<1> QED
  BY <1>2, <1>3 DEF Reached

\* How a step leaves its request: the run goes on with a context it has a right
\* to, pauses with one, awaits with one, or is lost.
Turn(q, d, n) ==
    /\ d.flow = Ctx(q).flow /\ Good(d, acct', n)
    /\ \/ Go(q, d) /\ Reached(d, req[q].at + 1)
       \/ Persist(q, d) /\ Reached(d, req[q].at)
       \/ \E phase \in Phases :
             /\ Await(q, d, phase) /\ Reached(d, req[q].at) /\ Open(d, req[q].at)
             /\ phase = "compare" => d.pin # 0
             /\ phase = "pend" => Schema[d.flow][req[q].at].step = "create-user"

\* A whole step of the request q: it leaves its run, the account row, the codes
\* and the log as the invariant wants them.
Moved(q) ==
    /\ req[q] # Idle /\ Grows(acct, acct')
    /\ codes' \in Seq(Code) /\ Len(codes) <= Len(codes') /\ failures' \in [Targets -> Nat]
    /\ Lose(q) \/ \E d : Turn(q, d, Len(codes'))
    /\ \A e \in log' : Entry(e)
    /\ acct'.active /\ acct'.id # policy.start.id => acct'.pw > 0 /\ ~acct'.initial

LEMMA Here ==
  ASSUME WfInv, NEW q \in Requests, req[q] # Idle
  PROVE  /\ req[q] \in Run /\ Ctx(q) \in Context /\ req[q].at \in Nat /\ req[q].at # 0
         /\ req[q].at \in 1..Len(Schema[Ctx(q).flow]) /\ Ctx(q).flow \in Flows
         /\ Good(Ctx(q), acct, Len(codes)) /\ Reached(Ctx(q), req[q].at) /\ Open(Ctx(q), req[q].at)
         /\ Running(req[q], acct, Len(codes))
<1>1. req[q] \in Run /\ Running(req[q], acct, Len(codes))
  BY DEF WfInv, TypeOK, Sound
<1> QED
  BY <1>1 DEF Run, Running, Good, Ctx, Context

LEMMA GrowsKept ==
  ASSUME NEW a \in Account, NEW b, Grows(a, b), NEW n \in Nat, NEW k \in Nat, n <= k, NEW p, Kept(p, a, n)
  PROVE  Kept(p, b, k)
BY GrowsGood DEF Kept

LEMMA GrowsRunning ==
  ASSUME NEW a \in Account, NEW b, Grows(a, b), NEW n \in Nat, NEW k \in Nat, n <= k, NEW r, Running(r, a, n)
  PROVE  Running(r, b, k)
<1>1. Good(r.c, b, k)
  BY GrowsGood DEF Running
<1>2. \A p \in r.from : Kept(p, b, k)
  BY GrowsKept DEF Running
<1> QED
  BY <1>1, <1>2 DEF Running

LEMMA PolicyStays ==
  ASSUME policy' = policy, NEW x, NEW a, NEW n
  PROVE  (Kept(x, a, n) <=> Kept(x, a, n)') /\ (Running(x, a, n) <=> Running(x, a, n)')
<1>1. ASSUME NEW c, NEW i
      PROVE  /\ Good(c, a, n) <=> Good(c, a, n)'
             /\ Reached(c, i) <=> Reached(c, i)'
  <2>1. (Confirmed(c) <=> Confirmed(c)') /\ (Challenged(c) <=> Challenged(c)')
    BY DEF Confirmed, Challenged
  <2>2. Reached(c, i) <=> Reached(c, i)'
    BY <2>1 DEF Reached, Upto, Ahead, Settled, OutOfCodes
  <2>3. Factored(c) <=> Factored(c)'
    BY DEF Factored, SilentFactor
  <2> QED
    BY <2>2, <2>3 DEF Good, Earned, Identified, Mailed, Signed, Owned
<1>2. \A p : Kept(p, a, n) <=> Kept(p, a, n)'
  BY <1>1 DEF Kept
<1> QED
  BY <1>1, <1>2 DEF Running, Open

\* Every other request and every paused state keeps what it had.
LEMMA MovedKeeps ==
  ASSUME WfInv, NEW q \in Requests, Moved(q)
  PROVE  WfInv'
<1> DEFINE n == Len(codes)
           k == Len(codes')
<1>1. /\ acct \in Account /\ Grows(acct, acct') /\ n \in Nat /\ k \in Nat /\ n <= k
      /\ policy.has \subseteq Settings /\ req \in [Requests -> Run \cup {Idle}]
      /\ req[q] # Idle
  BY DEF WfInv, TypeOK, Moved, Deployment
<1>2. \A p \in paused : Kept(p, acct', k)
  BY <1>1, GrowsKept DEF WfInv, Sound
<1>3. \A r \in Requests : req[r] # Idle => Running(req[r], acct', k)
  BY <1>1, GrowsRunning DEF WfInv, Sound
<1> HIDE DEF n, k
<1>4. /\ policy' = policy
      /\ req' \in [Requests -> Run \cup {Idle}]
      /\ \A p \in paused' : Kept(p, acct', k)
      /\ \A r \in Requests : req'[r] # Idle => Running(req'[r], acct', k)
  <2>1. CASE Lose(q)
    <3>1. policy' = policy /\ req' = [req EXCEPT ![q] = Idle]
      BY <2>1 DEF Lose
    <3>2. ASSUME NEW p \in req[q].from, p.left > 0
          PROVE  Kept([p EXCEPT !.left = @ - 1], acct', k)
      <4>1. Kept(p, acct', k)
        BY <1>1, <1>3 DEF Running
      <4>2. p \in State
        BY <4>1 DEF Kept
      <4>3. /\ [p EXCEPT !.left = @ - 1].at = p.at /\ [p EXCEPT !.left = @ - 1].c = p.c
            /\ [p EXCEPT !.left = @ - 1] \in State
        BY <4>2, <3>2 DEF State
      <4> QED
        BY <4>1, <4>3 DEF Kept
    <3>3. \A p \in paused' : Kept(p, acct', k)
      BY <1>2, <2>1, <3>2 DEF Lose
    <3> QED
      BY <1>1, <1>3, <3>1, <3>3
  <2>2. CASE \E d : Turn(q, d, Len(codes'))
    <3>1. PICK d : Turn(q, d, k)
      BY <2>2 DEF k
    <3>2. /\ d.flow = Ctx(q).flow /\ Good(d, acct', k) /\ d \in Context
          /\ req[q].at \in 1..Len(Schema[d.flow]) /\ req[q].at \in Nat /\ req[q].at # 0
          /\ req[q] \in Run
      BY <1>1, <3>1, Here DEF Turn, Good
    <3>3. CASE Go(q, d) /\ Reached(d, req[q].at + 1)
      <4>1. PICK j \in Follow(d, req[q].at + 1) : Advance(q, d, j)
        BY <3>3 DEF Go
      <4>2. policy' = policy /\ paused' = paused
        BY <4>1 DEF Advance
      <4>3. CASE j = 0
        <5>1. req' = [req EXCEPT ![q] = Idle]
          BY <4>1, <4>3 DEF Advance
        <5> QED
          BY <1>1, <1>2, <1>3, <4>2, <5>1
      <4>4. CASE j # 0
        <5>1. Signed(d)
          BY <3>2 DEF Good, Earned
        <5>2. req[q].at + 1 \in 1..(Len(Schema[d.flow]) + 1)
          BY <3>2
        <5>3. j \in 1..Len(Schema[d.flow]) /\ Reached(d, j) /\ Open(d, j)
          BY <1>1, <3>2, <3>3, <4>4, <5>1, <5>2, WalkOn
        <5> DEFINE r == [req[q] EXCEPT !.at = j, !.c = d, !.input = FALSE, !.phase = "enter"]
        <5>4. req' = [req EXCEPT ![q] = r]
          BY <4>1, <4>4 DEF Advance
        <5>5. r \in Run /\ r.at = j /\ r.c = d /\ r.phase = "enter" /\ r.from = req[q].from
          <6>1. j \in Nat \ {0} /\ d \in Context /\ req[q] \in Run
            BY <3>2, <4>4, <5>3
          <6>2. "enter" \in Phases /\ FALSE \in BOOLEAN
            BY DEF Phases
          <6> QED
            BY <6>1, <6>2 DEF Run
        <5>6. \A p \in r.from : Kept(p, acct', k)
          BY <1>1, <1>3, <5>5 DEF Running
        <5> HIDE DEF r
        <5>7. Running(r, acct', k)
          BY <3>2, <5>3, <5>5, <5>6 DEF Running
        <5> QED
          BY <1>1, <1>2, <1>3, <4>2, <5>4, <5>5, <5>7
      <4> QED
        BY <4>3, <4>4
    <3>4. CASE Persist(q, d) /\ Reached(d, req[q].at)
      <4>1. policy' = policy /\ req' = [req EXCEPT ![q] = Idle]
        BY <3>4 DEF Persist
      <4> DEFINE p == [at |-> req[q].at, c |-> d, left |-> MaxRestores]
      <4>2. p \in State
        BY <3>2, LimitsAssumption DEF State
      <4>3. Kept(p, acct', k)
        BY <3>2, <3>4, <4>2 DEF Kept
      <4>4. paused' \subseteq paused \cup {p}
        BY <3>4 DEF Persist
      <4> HIDE DEF p
      <4>5. \A s \in paused' : Kept(s, acct', k)
        BY <1>2, <4>3, <4>4
      <4> QED
        BY <1>1, <1>3, <4>1, <4>5
    <3>5. CASE \E phase \in Phases :
                  /\ Await(q, d, phase) /\ Reached(d, req[q].at) /\ Open(d, req[q].at)
                  /\ phase = "compare" => d.pin # 0
                  /\ phase = "pend" => Schema[d.flow][req[q].at].step = "create-user"
      <4>0. PICK phase \in Phases :
                  /\ Await(q, d, phase) /\ Reached(d, req[q].at) /\ Open(d, req[q].at)
                  /\ phase = "compare" => d.pin # 0
                  /\ phase = "pend" => Schema[d.flow][req[q].at].step = "create-user"
        BY <3>5
      <4> DEFINE r == [req[q] EXCEPT !.c = d, !.phase = phase]
      <4>1. policy' = policy /\ paused' = paused /\ req' = [req EXCEPT ![q] = r]
        BY <1>1, <4>0 DEF Await
      <4>2. r \in Run /\ r.at = req[q].at /\ r.c = d /\ r.phase = phase /\ r.from = req[q].from
        BY <3>2 DEF Run
      <4>3. \A p \in r.from : Kept(p, acct', k)
        BY <1>1, <1>3, <4>2 DEF Running
      <4> HIDE DEF r
      <4>4. Running(r, acct', k)
        BY <3>2, <4>0, <4>2, <4>3 DEF Running
      <4> QED
        BY <1>1, <1>2, <1>3, <4>1, <4>2, <4>4
    <3> QED
      BY <3>1, <3>3, <3>4, <3>5 DEF Turn
  <2> QED
    BY <2>1, <2>2 DEF Moved
<1>5. TypeOK'
  BY <1>4 DEF Moved, Grows, WfInv, TypeOK
<1>6. Sound'
  <2>1. Len(codes)' = k
    BY DEF k
  <2> QED
    <3>1. PICK a, m : a = acct' /\ m = k
      OBVIOUS
    <3>2. ASSUME NEW p \in paused'
          PROVE  Kept(p, acct, Len(codes))'
      <4>1. Kept(p, a, m)
        BY <1>4, <3>1, <3>2
      <4> QED
        BY <1>4, <2>1, <3>1, <4>1, PolicyStays
    <3>3. ASSUME NEW r \in Requests, req'[r] # Idle
          PROVE  Running(req[r], acct, Len(codes))'
      <4>1. PICK x : x = req'[r]
        OBVIOUS
      <4>2. Running(x, a, m)
        BY <1>4, <3>1, <3>3, <4>1
      <4>3. Running(x, a, m)'
        BY <1>4, <4>2, PolicyStays
      <4> QED
        BY <2>1, <3>1, <4>1, <4>3
    <3> QED
      BY <3>2, <3>3 DEF Sound
<1>7. \A e \in log' : Entry(e)'
  BY <1>4 DEF Moved, Entry, Has, Confirmed, Settled, SilentFactor
<1>8. ActiveMeansPassword'
  BY <1>4 DEF Moved, ActiveMeansPassword
<1> QED
  BY <1>5, <1>6, <1>7, <1>8 DEF WfInv

(* -------------------- Changes that lose nothing ------------------------- *)
LEMMA SameItself ==
  ASSUME NEW c \in Context
  PROVE  Same(c, c)
BY DEF Same

LEMMA SameWith ==
  ASSUME NEW c, NEW e, Same(c, e), NEW flags \in SUBSET (Flags \ Fixed)
  PROVE  Same(c, With(e, flags))
<1>1. e \in Context
  BY DEF Same
<1> DEFINE d == With(e, flags)
<1>2. /\ d \in Context /\ d.is = e.is \cup flags /\ d.by = e.by /\ d.flow = e.flow /\ d.sub = e.sub
      /\ d.pin = e.pin /\ d.cand = e.cand
  BY <1>1 DEF With, Context
<1> SUFFICES Same(c, d)
  OBVIOUS
<1> HIDE DEF d
<1>3. /\ e.flow = c.flow /\ e.sub = c.sub /\ c.by \subseteq e.by
      /\ e.pin \in {0, c.pin} /\ e.cand \in {c.cand, acct.id}
      /\ \A f \in Fixed : f \in e.is <=> f \in c.is
      /\ \A f \in Rising : f \in c.is => f \in e.is
  BY DEF Same
<1>4. /\ \A f \in Fixed : f \in d.is <=> f \in c.is
      /\ \A f \in Rising : f \in c.is => f \in d.is
  BY <1>2, <1>3
<1>5. c.by \subseteq d.by
  BY <1>2, <1>3
<1> QED
  BY <1>2, <1>3, <1>4, <1>5 DEF Same

LEMMA SameWithout ==
  ASSUME NEW c, NEW e, Same(c, e), NEW flags, \A f \in flags : f \notin Fixed /\ f \notin Rising
  PROVE  Same(c, Without(e, flags))
<1>1. e \in Context
  BY DEF Same
<1> DEFINE d == Without(e, flags)
<1>2. /\ d \in Context /\ d.is = e.is \ flags /\ d.by = e.by /\ d.flow = e.flow /\ d.sub = e.sub
      /\ d.pin = e.pin /\ d.cand = e.cand
  BY <1>1 DEF Without, Context
<1> SUFFICES Same(c, d)
  OBVIOUS
<1> HIDE DEF d
<1>3. /\ e.flow = c.flow /\ e.sub = c.sub /\ c.by \subseteq e.by
      /\ e.pin \in {0, c.pin} /\ e.cand \in {c.cand, acct.id}
      /\ \A f \in Fixed : f \in e.is <=> f \in c.is
      /\ \A f \in Rising : f \in c.is => f \in e.is
  BY DEF Same
<1>4. /\ \A f \in Fixed : f \in d.is <=> f \in c.is
      /\ \A f \in Rising : f \in c.is => f \in d.is
  BY <1>2, <1>3
<1>5. c.by \subseteq d.by
  BY <1>2, <1>3
<1> QED
  BY <1>2, <1>3, <1>4, <1>5 DEF Same

LEMMA SameProved ==
  ASSUME NEW c, NEW e, Same(c, e), NEW proof \in Proofs
  PROVE  Same(c, Proved(e, proof))
<1>1. e \in Context
  BY DEF Same
<1> DEFINE d == Proved(e, proof)
<1>2. /\ d \in Context /\ d.is = e.is /\ d.by = e.by \cup {proof} /\ d.flow = e.flow /\ d.sub = e.sub
      /\ d.pin = e.pin /\ d.cand = e.cand
  BY <1>1 DEF Proved, Context
<1> SUFFICES Same(c, d)
  OBVIOUS
<1> HIDE DEF d
<1>3. /\ e.flow = c.flow /\ e.sub = c.sub /\ c.by \subseteq e.by
      /\ e.pin \in {0, c.pin} /\ e.cand \in {c.cand, acct.id}
      /\ \A f \in Fixed : f \in e.is <=> f \in c.is
      /\ \A f \in Rising : f \in c.is => f \in e.is
  BY DEF Same
<1>4. /\ \A f \in Fixed : f \in d.is <=> f \in c.is
      /\ \A f \in Rising : f \in c.is => f \in d.is
  BY <1>2, <1>3
<1>5. c.by \subseteq d.by
  BY <1>2, <1>3
<1> QED
  BY <1>2, <1>3, <1>4, <1>5 DEF Same

LEMMA SameField ==
  ASSUME NEW c, NEW e, Same(c, e)
  PROVE  /\ \A x \in {"encapsulated", "magic-link", "store"} : Same(c, [e EXCEPT !.strat = x])
         /\ \A x \in Int : Same(c, [e EXCEPT !.stamp = x]) /\ Same(c, [e EXCEPT !.form = x])
         /\ Same(c, [e EXCEPT !.pin = 0])
         /\ Same(c, [e EXCEPT !.cand = acct.id]) \/ acct.id \notin Nat
         /\ \A x \in {None} \cup Transports : /\ Same(c, [e EXCEPT !.method = x])
                                              /\ Same(c, [e EXCEPT !.enroll = x])
         /\ \A x \in {None, "add", "replace", "remove"} : Same(c, [e EXCEPT !.op = x])
         /\ \A x \in SUBSET Transports : Same(c, [e EXCEPT !.all = x])
<1>1. e \in Context
  BY DEF Same
<1>2. ASSUME NEW d \in Context, d.flow = e.flow, d.sub = e.sub, d.by = e.by, d.is = e.is,
             d.pin \in {0, e.pin}, d.cand \in {acct.id, e.cand}
      PROVE  Same(c, d)
  BY <1>2 DEF Same
<1>3. ASSUME NEW x \in {"encapsulated", "magic-link", "store"}
      PROVE  Same(c, [e EXCEPT !.strat = x])
  BY <1>1, <1>2 DEF Context
<1>4. ASSUME NEW x \in Int
      PROVE  Same(c, [e EXCEPT !.stamp = x]) /\ Same(c, [e EXCEPT !.form = x])
  BY <1>1, <1>2 DEF Context
<1>5. Same(c, [e EXCEPT !.pin = 0])
  BY <1>1, <1>2 DEF Context
<1>6. Same(c, [e EXCEPT !.cand = acct.id]) \/ acct.id \notin Nat
  BY <1>1, <1>2 DEF Context
<1>7. ASSUME NEW x \in {None} \cup Transports
      PROVE  Same(c, [e EXCEPT !.method = x]) /\ Same(c, [e EXCEPT !.enroll = x])
  BY <1>1, <1>2 DEF Context
<1>8. ASSUME NEW x \in {None, "add", "replace", "remove"}
      PROVE  Same(c, [e EXCEPT !.op = x])
  BY <1>1, <1>2 DEF Context
<1>9. ASSUME NEW x \in SUBSET Transports
      PROVE  Same(c, [e EXCEPT !.all = x])
  BY <1>1, <1>2 DEF Context
<1> QED
  BY <1>3, <1>4, <1>5, <1>6, <1>7, <1>8, <1>9

LEMMA SameFields ==
  ASSUME NEW c, NEW e, Same(c, e)
  PROVE  /\ Same(c, Unpicked(e)) /\ Same(c, Cleared(e)) /\ Same(c, Aborted(e))
         /\ \A op \in {"add", "replace", "remove"}, m \in Transports :
               Same(c, [Without(e, {"ready", "done"}) EXCEPT !.op = op, !.enroll = m])
<1>1. Same(c, Unpicked(e))
  <2>1. e \in Context /\ None \in {None} \cup Transports
    BY DEF Same
  <2>2. Same(c, [[e EXCEPT !.method = None] EXCEPT !.pin = 0])
    BY <2>1, SameField
  <2>3. Unpicked(e) = [[e EXCEPT !.method = None] EXCEPT !.pin = 0]
    BY <2>1 DEF Unpicked, Context
  <2> QED
    BY <2>2, <2>3
<1>2. \A x \in {{"ready"}, {"ready", "done"}} : Same(c, Without(e, x))
  BY SameWithout DEF Fixed, Rising
<1>3. Same(c, Cleared(e))
  <2> DEFINE w == Without(e, {"ready"})
  <2>1. Same(c, w) /\ w \in Context /\ None \in {None} \cup Transports
    BY <1>2 DEF Same
  <2> SUFFICES Same(c, [w EXCEPT !.enroll = None, !.pin = 0])
    BY DEF Cleared
  <2> HIDE DEF w
  <2>2. Same(c, [[w EXCEPT !.enroll = None] EXCEPT !.pin = 0])
    BY <2>1, SameField
  <2>3. [w EXCEPT !.enroll = None, !.pin = 0] = [[w EXCEPT !.enroll = None] EXCEPT !.pin = 0]
    BY <2>1 DEF Context
  <2> QED
    BY <2>2, <2>3
<1>4. Same(c, Aborted(e))
  <2>1. {"aborted"} \in SUBSET (Flags \ Fixed)
    BY DEF Flags, Fixed
  <2> QED
    BY <2>1, SameWith DEF Aborted
<1>5. ASSUME NEW op \in {"add", "replace", "remove"}, NEW m \in Transports
      PROVE  Same(c, [Without(e, {"ready", "done"}) EXCEPT !.op = op, !.enroll = m])
  <2> DEFINE w == Without(e, {"ready", "done"})
  <2>1. Same(c, w) /\ w \in Context /\ m \in {None} \cup Transports /\ op \in {None, "add", "replace", "remove"}
    BY <1>2 DEF Same
  <2> SUFFICES Same(c, [w EXCEPT !.op = op, !.enroll = m])
    OBVIOUS
  <2> HIDE DEF w
  <2>2. Same(c, [[w EXCEPT !.op = op] EXCEPT !.enroll = m])
    BY <2>1, SameField
  <2>3. [w EXCEPT !.op = op, !.enroll = m] = [[w EXCEPT !.op = op] EXCEPT !.enroll = m]
    BY <2>1 DEF Context
  <2> QED
    BY <2>2, <2>3
<1> QED
  BY <1>1, <1>3, <1>4, <1>5

LEMMA SameFlag ==
  ASSUME NEW c, NEW e, Same(c, e), NEW f \in Flags \ Fixed
  PROVE  Same(c, With(e, {f})) /\ \A holds : Same(c, With(e, Given(f, holds)))
<1>1. {f} \in SUBSET (Flags \ Fixed) /\ \A holds : Given(f, holds) \in SUBSET (Flags \ Fixed)
  BY DEF Given
<1> QED
  BY <1>1, SameWith

(* ------------------------------ Simple turns ---------------------------- *)
Grown == /\ Grows(acct, acct') /\ codes' \in Seq(Code) /\ Len(codes) <= Len(codes')

LEMMA GoodGrown ==
  ASSUME WfInv, NEW q \in Requests, req[q] # Idle, Grown, NEW d, Same(Ctx(q), d)
  PROVE  d.flow = Ctx(q).flow /\ Good(d, acct', Len(codes'))
<1>1. acct \in Account /\ acct.id <= acct.born /\ Len(codes) \in Nat /\ Len(codes') \in Nat
  BY DEF WfInv, TypeOK, Grown
<1>2. Good(d, acct, Len(codes))
  BY <1>1, Here, SameGood
<1>3. Good(d, acct', Len(codes'))
  BY <1>1, <1>2, GrowsGood DEF Grown
<1> QED
  BY <1>3 DEF Same

LEMMA SameGo ==
  ASSUME WfInv, NEW q \in Requests, req[q] # Idle, Grown, NEW d, Same(Ctx(q), d),
         Schema[Ctx(q).flow][req[q].at].step \notin Turning, Go(q, d)
  PROVE  \E e : Turn(q, e, Len(codes'))
<1>1. d.flow = Ctx(q).flow /\ Good(d, acct', Len(codes'))
  BY GoodGrown
<1>2. Reached(d, req[q].at)
  BY Here, SameReached
<1>3. Passed(d, req[q].at)
  BY <1>1, Here, Ordinary
<1>4. Reached(d, req[q].at + 1)
  BY <1>2, <1>3, Here, StepOver DEF Reached
<1> QED
  BY <1>1, <1>4 DEF Turn

LEMMA SamePause ==
  ASSUME WfInv, NEW q \in Requests, req[q] # Idle, Grown, NEW d, Same(Ctx(q), d), Persist(q, d)
  PROVE  \E e : Turn(q, e, Len(codes'))
<1>1. d.flow = Ctx(q).flow /\ Good(d, acct', Len(codes'))
  BY GoodGrown
<1>2. Reached(d, req[q].at)
  BY Here, SameReached
<1> QED
  BY <1>1, <1>2 DEF Turn

LEMMA Quietly ==
  ASSUME WfInv, UNCHANGED <<acct, codes, failures, log>>
  PROVE  Grown /\ \A q : req[q] # Idle /\ (Lose(q) \/ \E d : Turn(q, d, Len(codes'))) => Moved(q)
<1>1. /\ acct \in Account /\ acct.id <= acct.born /\ codes \in Seq(Code) /\ failures \in [Targets -> Nat]
      /\ \A e \in log : Entry(e)
      /\ acct.active /\ acct.id # policy.start.id => acct.pw > 0 /\ ~acct.initial
      /\ acct' = acct /\ codes' = codes /\ failures' = failures /\ log' = log
  BY DEF WfInv, TypeOK, ActiveMeansPassword
<1>2. Grows(acct, acct')
  BY <1>1 DEF Grows, Account
<1>3. Grown
  BY <1>1, <1>2 DEF Grown
<1>4. acct'.active /\ acct'.id # policy.start.id => acct'.pw > 0 /\ ~acct'.initial
  BY <1>1
<1> QED
  BY <1>1, <1>2, <1>3, <1>4 DEF Moved

LEMMA QuietGo ==
  ASSUME WfInv, UNCHANGED <<acct, codes, failures, log>>, NEW q \in Requests, req[q] # Idle, NEW d, Same(Ctx(q), d),
         Schema[Ctx(q).flow][req[q].at].step \notin Turning, Go(q, d)
  PROVE  Moved(q)
BY Quietly, SameGo

LEMMA QuietPause ==
  ASSUME WfInv, UNCHANGED <<acct, codes, failures, log>>, NEW q \in Requests, req[q] # Idle, NEW d, Same(Ctx(q), d), Persist(q, d)
  PROVE  Moved(q)
BY Quietly, SamePause

LEMMA QuietAsk ==
  ASSUME WfInv, UNCHANGED <<acct, codes, failures, log>>, NEW q \in Requests, req[q] # Idle, Ask(q)
  PROVE  Moved(q)
BY QuietPause, SameItself, Here DEF Ask

LEMMA QuietLose ==
  ASSUME WfInv, UNCHANGED <<acct, codes, failures, log>>, NEW q \in Requests, req[q] # Idle, Lose(q)
  PROVE  Moved(q)
BY Quietly

\* The step the request is at.
StepHere(q) == Schema[Ctx(q).flow][req[q].at].step

LEMMA RunsHere ==
  ASSUME WfInv, NEW q \in Requests, NEW step, Runs(q, step)
  PROVE  req[q] # Idle /\ StepHere(q) = step /\ Same(Ctx(q), Ctx(q)) /\ Site(Ctx(q).flow, req[q].at, step)
<1>1. req[q] # Idle /\ StepHere(q) = step
  BY DEF Runs, At, StepHere, Ctx
<1> QED
  BY <1>1, Here, SameItself, Sites DEF StepHere

\* A quiet step that is no turning point may go on with any context that says no less.
LEMMA Goes ==
  ASSUME WfInv, NEW q \in Requests, NEW step, Runs(q, step), step \notin Turning,
         UNCHANGED <<acct, codes, failures, log>>
  PROVE  \A d : Same(Ctx(q), d) /\ Go(q, d) => Moved(q)
BY RunsHere, QuietGo DEF StepHere

LEMMA Pauses ==
  ASSUME WfInv, NEW q \in Requests, NEW step, Runs(q, step), UNCHANGED <<acct, codes, failures, log>>
  PROVE  /\ \A d : Same(Ctx(q), d) /\ Persist(q, d) => Moved(q)
         /\ Ask(q) => Moved(q)
         /\ Lose(q) => Moved(q)
BY RunsHere, QuietPause, QuietAsk, QuietLose

\* ...
LEMMA Quiet ==
  ASSUME WfInv, NEW q \in Requests, NEW step, Runs(q, step), step \notin Turning, UNCHANGED Shared
  PROVE  /\ \A d : Same(Ctx(q), d) /\ (Go(q, d) \/ Persist(q, d)) => Moved(q)
         /\ Go(q, Ctx(q)) \/ Ask(q) \/ Lose(q) => Moved(q)
<1>1. UNCHANGED <<acct, codes, failures, log>>
  BY DEF Shared
<1> QED
  BY <1>1, RunsHere, Goes, Pauses

LEMMA GivenIs == \A f, holds : Given(f, holds) \subseteq {f}
BY DEF Given

LEMMA MagicLinkRequestMoves ==
  ASSUME WfInv, NEW q \in Requests, MagicLinkRequest(q)
  PROVE  Moved(q)
<1>1. Runs(q, "magic-link-request") /\ UNCHANGED Shared
  BY DEF MagicLinkRequest
<1>2. Same(Ctx(q), [Ctx(q) EXCEPT !.cand = acct.id])
  <2>1. acct.id \in Nat
    BY DEF WfInv, TypeOK, Account
  <2> QED
    BY <1>1, <2>1, RunsHere, SameField
<1> QED
  BY <1>1, <1>2, Quiet DEF MagicLinkRequest, Turning

LEMMA MagicLinkSendMoves ==
  ASSUME WfInv, NEW q \in Requests, MagicLinkSend(q)
  PROVE  Moved(q)
<1> DEFINE c == Ctx(q)
           address == c.cand # 0 /\ c.cand = acct.id
                      /\ IF c.flow = "login" THEN CanSignIn ELSE acct.active
           flags == {"sent"} \cup Given("address", address)
           sent == [With(c, flags) EXCEPT !.strat = "magic-link"]
<1>1. Runs(q, "magic-link-send") /\ UNCHANGED Shared
  BY DEF MagicLinkSend
<1>2. Same(c, sent)
  <2>1. flags \in SUBSET (Flags \ Fixed)
    BY GivenIs DEF Flags, Fixed
  <2>2. Same(c, With(c, flags))
    BY <1>1, <2>1, RunsHere, SameWith
  <2> HIDE DEF flags
  <2> QED
    BY <2>2, SameField
<1>3. Go(q, c) \/ Persist(q, sent) \/ Lose(q)
  BY DEF MagicLinkSend
<1> HIDE DEF sent
<1> QED
  BY <1>1, <1>2, <1>3, Quiet DEF Turning

LEMMA MagicLinkConfirmMoves ==
  ASSUME WfInv, NEW q \in Requests, MagicLinkConfirm(q)
  PROVE  Moved(q)
BY Quiet DEF MagicLinkConfirm, Turning

LEMMA PrepareSemanticFlagsMoves ==
  ASSUME WfInv, NEW q \in Requests, PrepareSemanticFlags(q)
  PROVE  Moved(q)
<1>1. Runs(q, "prepare-semantic-flags") /\ UNCHANGED Shared
  BY DEF PrepareSemanticFlags
<1>2. \A holds : Same(Ctx(q), With(Ctx(q), Given("newPassword", holds)))
  BY <1>1, RunsHere, SameFlag DEF Flags, Fixed
<1> QED
  BY <1>1, <1>2, Quiet DEF PrepareSemanticFlags, Turning

LEMMA LoadEnrolledMfaMethodsMoves ==
  ASSUME WfInv, NEW q \in Requests, LoadEnrolledMfaMethods(q)
  PROVE  Moved(q)
<1>1. Runs(q, "load-enrolled-mfa-methods") /\ UNCHANGED Shared
  BY DEF LoadEnrolledMfaMethods
<1>2. Same(Ctx(q), [Ctx(q) EXCEPT !.all = acct.factors \cap policy.transports])
  <2>1. acct.factors \cap policy.transports \in SUBSET Transports
    BY DEF WfInv, TypeOK, Account
  <2> QED
    BY <1>1, <2>1, RunsHere, SameField
<1> QED
  BY <1>1, <1>2, Quiet DEF LoadEnrolledMfaMethods, Turning

LEMMA SelectMfaMethodMoves ==
  ASSUME WfInv, NEW q \in Requests, SelectMfaMethod(q)
  PROVE  Moved(q)
<1>1. Runs(q, "select-mfa-method") /\ UNCHANGED Shared
  BY DEF SelectMfaMethod
<1>2. \A m \in Ctx(q).all : Same(Ctx(q), [Ctx(q) EXCEPT !.method = m])
  <2>1. \A m \in Ctx(q).all : m \in {None} \cup Transports
    BY <1>1, RunsHere DEF Same, Context
  <2> QED
    BY <1>1, <2>1, RunsHere, SameField
<1> QED
  BY <1>1, <1>2, Quiet DEF SelectMfaMethod, Turning

LEMMA Select2faMoves ==
  ASSUME WfInv, NEW q \in Requests, Select2fa(q)
  PROVE  Moved(q)
<1> DEFINE c == Ctx(q)
           e == With(c, Given("stepUpConfirmed", c.flow = "addMfa"))
<1>1. Runs(q, "select-2fa") /\ UNCHANGED Shared
  BY DEF Select2fa
<1>2. \A m \in c.all : Same(c, [e EXCEPT !.method = m])
  <2>1. \A m \in c.all : m \in {None} \cup Transports
    BY <1>1, RunsHere DEF Same, Context
  <2>2. Same(c, e)
    BY <1>1, RunsHere, SameFlag DEF Flags, Fixed
  <2> HIDE DEF e
  <2> QED
    BY <2>1, <2>2, SameField
<1>3. Ask(q) \/ \E m \in c.all : Go(q, [e EXCEPT !.method = m])
  BY DEF Select2fa
<1> HIDE DEF e
<1> QED
  BY <1>1, <1>2, <1>3, Quiet DEF Turning

LEMMA ManageStepUpConfirmMoves ==
  ASSUME WfInv, NEW q \in Requests, ManageStepUpConfirm(q)
  PROVE  Moved(q)
<1>1. Runs(q, "manage-stepup-confirm") /\ UNCHANGED Shared
  BY DEF ManageStepUpConfirm
<1>2. /\ Same(Ctx(q), Aborted(Ctx(q))) /\ Same(Ctx(q), Unpicked(Ctx(q)))
      /\ Same(Ctx(q), With(Ctx(q), {"stepUpConfirmed"}))
  BY <1>1, RunsHere, SameFields, SameFlag DEF Flags, Fixed
<1> QED
  BY <1>1, <1>2, Quiet DEF ManageStepUpConfirm, Turning

LEMMA LoadActiveSessionsMoves ==
  ASSUME WfInv, NEW q \in Requests, LoadActiveSessions(q)
  PROVE  Moved(q)
<1>1. Runs(q, "load-active-sessions") /\ UNCHANGED Shared
  BY DEF LoadActiveSessions
<1>2. Same(Ctx(q), With(Ctx(q), Given("atLimit", live)))
  BY <1>1, RunsHere, SameFlag DEF Flags, Fixed
<1> QED
  BY <1>1, <1>2, Quiet DEF LoadActiveSessions, Turning

LEMMA ConcurrencyLimitMoves ==
  ASSUME WfInv, NEW q \in Requests, ConcurrencyLimit(q)
  PROVE  Moved(q)
<1>1. Runs(q, "concurrency-limit") /\ UNCHANGED <<acct, codes, failures, log>>
  BY DEF ConcurrencyLimit
<1> QED
  BY <1>1, RunsHere, Goes, Pauses DEF ConcurrencyLimit, Turning

LEMMA RevokeSessionsMoves ==
  ASSUME WfInv, NEW q \in Requests, RevokeSessions(q)
  PROVE  Moved(q)
<1>1. Runs(q, "revoke-sessions") /\ UNCHANGED <<acct, codes, failures, log>>
  BY DEF RevokeSessions
<1> QED
  BY <1>1, RunsHere, Goes DEF RevokeSessions, Turning

LEMMA CheckPasswordUnchangedMoves ==
  ASSUME WfInv, NEW q \in Requests, CheckPasswordUnchanged(q)
  PROVE  Moved(q)
<1>1. Runs(q, "check-password-unchanged") /\ UNCHANGED Shared
  BY DEF CheckPasswordUnchanged
<1>2. Same(Ctx(q), Aborted(Ctx(q)))
  BY <1>1, RunsHere, SameFields
<1> QED
  BY <1>1, <1>2, Quiet DEF CheckPasswordUnchanged, Turning

LEMMA CheckCanSignInMoves ==
  ASSUME WfInv, NEW q \in Requests, CheckCanSignIn(q)
  PROVE  Moved(q)
<1>1. Runs(q, "check-can-sign-in") /\ UNCHANGED Shared
  BY DEF CheckCanSignIn
<1>2. Same(Ctx(q), Aborted(Ctx(q)))
  BY <1>1, RunsHere, SameFields
<1> QED
  BY <1>1, <1>2, Quiet DEF CheckCanSignIn, Turning

LEMMA AuthzConsentMoves ==
  ASSUME WfInv, NEW q \in Requests, AuthzConsent(q)
  PROVE  Moved(q)
<1>1. Runs(q, "authz-consent") /\ UNCHANGED Shared
  BY DEF AuthzConsent
<1>2. Same(Ctx(q), With(Ctx(q), {"approved"}))
  BY <1>1, RunsHere, SameFlag DEF Flags, Fixed
<1> QED
  BY <1>1, <1>2, Quiet DEF AuthzConsent, Turning

LEMMA AutoLoginCheckMoves ==
  ASSUME WfInv, NEW q \in Requests, AutoLoginCheck(q)
  PROVE  Moved(q)
<1>1. Runs(q, "auto-login-check") /\ UNCHANGED Shared
  BY DEF AutoLoginCheck
<1>2. Same(Ctx(q), Without(Ctx(q), {"autoLogin"}))
  BY <1>1, RunsHere, SameWithout DEF Fixed, Rising
<1> QED
  BY <1>1, <1>2, Quiet DEF AutoLoginCheck, Turning

LEMMA AdminFormMoves ==
  ASSUME WfInv, NEW q \in Requests, AdminForm(q)
  PROVE  Moved(q)
<1>1. Runs(q, "admin-form") /\ UNCHANGED Shared
  BY DEF AdminForm
<1>2. \A flags \in {{"named"}, {"named", "reuse"}} : Same(Ctx(q), With(Ctx(q), flags))
  <2>1. \A flags \in {{"named"}, {"named", "reuse"}} : flags \in SUBSET (Flags \ Fixed)
    BY DEF Flags, Fixed
  <2> QED
    BY <1>1, <2>1, RunsHere, SameWith
<1> QED
  BY <1>1, <1>2, Quiet DEF AdminForm, Turning

LEMMA CheckPendingInvitationMoves ==
  ASSUME WfInv, NEW q \in Requests, CheckPendingInvitation(q)
  PROVE  Moved(q)
<1>1. Runs(q, "check-pending-invitation") /\ UNCHANGED Shared
  BY DEF CheckPendingInvitation
<1>2. \A holds : Same(Ctx(q), With(Ctx(q), Given("alreadyAccepted", holds)))
  BY <1>1, RunsHere, SameFlag DEF Flags, Fixed
<1> QED
  BY <1>1, <1>2, Quiet DEF CheckPendingInvitation, Turning

LEMMA SameMode ==
  ASSUME WfInv, NEW c \in Context, NEW mode \in {"magicLink", "otp", "choice"}
  PROVE  Same(c, RecoveryMode(c, mode))
<1> DEFINE plain == Without(c, {"choice"})
<1>1. acct.id \in Nat /\ Same(c, c)
  BY SameItself DEF WfInv, TypeOK, Account
<1>2. Same(c, plain)
  BY <1>1, SameWithout DEF Fixed, Rising
<1> HIDE DEF plain
<1>3. Same(c, With(plain, {"magicLink"})) /\ Same(c, With(plain, {"otpMode"})) /\ Same(c, With(c, {"choice"}))
  BY <1>1, <1>2, SameFlag DEF Flags, Fixed
<1>4. /\ Same(c, [With(plain, {"magicLink"}) EXCEPT !.cand = acct.id])
      /\ Same(c, [With(plain, {"otpMode"}) EXCEPT !.strat = "store"])
  BY <1>1, <1>3, SameField
<1> QED
  BY <1>3, <1>4 DEF RecoveryMode, plain

LEMMA RequestMoves ==
  ASSUME WfInv, NEW q \in Requests, Request(q)
  PROVE  Moved(q)
<1>1. Runs(q, "request") /\ UNCHANGED Shared
  BY DEF Request
<1>2. policy.recovery \in {"magicLink", "otp", "choice"}
  BY DEF WfInv, TypeOK, Deployment
<1>3. Same(Ctx(q), Aborted(Ctx(q))) /\ Same(Ctx(q), RecoveryMode(Ctx(q), policy.recovery))
  <2>1. Same(Ctx(q), Ctx(q)) /\ Ctx(q) \in Context
    BY <1>1, RunsHere DEF Same
  <2> QED
    BY <1>2, <2>1, SameFields, SameMode
<1> QED
  BY <1>1, <1>3, Quiet DEF Request, Turning

LEMMA SelectRecoveryModeMoves ==
  ASSUME WfInv, NEW q \in Requests, SelectRecoveryMode(q)
  PROVE  Moved(q)
<1>1. Runs(q, "select-recovery-mode") /\ UNCHANGED Shared
  BY DEF SelectRecoveryMode
<1>2. \A mode \in {"magicLink", "otp"} : Same(Ctx(q), RecoveryMode(Ctx(q), mode))
  BY <1>1, RunsHere, SameMode DEF Same
<1> QED
  BY <1>1, <1>2, Quiet DEF SelectRecoveryMode, Turning

LEMMA RecoveryLockCheckMoves ==
  ASSUME WfInv, NEW q \in Requests, RecoveryLockCheck(q)
  PROVE  Moved(q)
<1>1. Runs(q, "recovery-lock-check") /\ UNCHANGED Shared
  BY DEF RecoveryLockCheck
<1>2. Same(Ctx(q), Aborted(Ctx(q)))
  BY <1>1, RunsHere, SameFields
<1> QED
  BY <1>1, <1>2, Quiet DEF RecoveryLockCheck, Turning

LEMMA ManageStepUpDoneMoves ==
  ASSUME WfInv, NEW q \in Requests, ManageStepUpDone(q)
  PROVE  Moved(q)
<1>1. Runs(q, "manage-stepup-done") /\ UNCHANGED Shared
  BY DEF ManageStepUpDone
<1>2. Same(Ctx(q), [With(Ctx(q), {"stepUpDone"}) EXCEPT !.strat = "store"])
  <2>1. Same(Ctx(q), With(Ctx(q), {"stepUpDone"}))
    BY <1>1, RunsHere, SameFlag DEF Flags, Fixed
  <2> QED
    BY <2>1, SameField
<1> QED
  BY <1>1, <1>2, Quiet DEF ManageStepUpDone, Turning

LEMMA ManageMenuMoves ==
  ASSUME WfInv, NEW q \in Requests, ManageMenu(q)
  PROVE  Moved(q)
<1> DEFINE c == Ctx(q)
           Chosen(op, m) == [Without(c, {"ready", "done"}) EXCEPT !.op = op, !.enroll = m]
<1>1. Runs(q, "manage-menu") /\ UNCHANGED Shared
  BY DEF ManageMenu
<1>2. /\ Same(c, Aborted(c))
      /\ \A op \in {"add", "replace", "remove"}, m \in Transports : Same(c, Chosen(op, m))
  BY <1>1, RunsHere, SameFields
<1>3. c.all \subseteq Transports /\ c.candidates \subseteq Transports
  BY <1>1, RunsHere DEF Same, Context
<1>4. \/ Go(q, Aborted(c))
      \/ Ask(q)
      \/ \E op \in {"add", "replace", "remove"}, m \in Transports : Go(q, Chosen(op, m))
  BY <1>3 DEF ManageMenu
<1> HIDE DEF Chosen
<1> QED
  BY <1>1, <1>2, <1>4, Quiet DEF Turning

LEMMA SignupFormMoves ==
  ASSUME WfInv, NEW q \in Requests, SignupForm(q)
  PROVE  Moved(q)
<1>1. Runs(q, "signup-form") /\ UNCHANGED Shared
  BY DEF SignupForm
<1>2. Same(Ctx(q), [With(Ctx(q), {"submitted"}) EXCEPT !.strat = "store"])
  <2>1. Same(Ctx(q), With(Ctx(q), {"submitted"}))
    BY <1>1, RunsHere, SameFlag DEF Flags, Fixed
  <2> QED
    BY <2>1, SameField
<1> QED
  BY <1>1, <1>2, Quiet DEF SignupForm, Turning

(* ---------------------- Forms written by a second step ------------------ *)
LEMMA SameStamped ==
  ASSUME WfInv, NEW c \in Context
  PROVE  /\ Same(c, Stamped(c)) /\ Stamped(c).flow = c.flow /\ Stamped(c).method = c.method
         /\ Stamped(c).enroll = c.enroll /\ Stamped(c).is = c.is
<1>1. Same(c, c) /\ acct.pw \in Int
  BY SameItself DEF WfInv, TypeOK, Account
<1>2. Same(c, Stamped(c))
  BY <1>1, SameField DEF Stamped
<1> QED
  BY <1>2 DEF Stamped, Context

LEMMA AwaitsWrite ==
  ASSUME WfInv, NEW q \in Requests, req[q] # Idle, UNCHANGED Shared, Await(q, Stamped(Ctx(q)), "write")
  PROVE  Moved(q)
<1> DEFINE d == Stamped(Ctx(q))
<1>1. UNCHANGED <<acct, codes, failures, log>>
  BY DEF Shared
<1>2. Ctx(q) \in Context
  BY Here
<1>3. /\ Same(Ctx(q), d) /\ d.flow = Ctx(q).flow /\ d.method = Ctx(q).method
      /\ d.enroll = Ctx(q).enroll /\ d.is = Ctx(q).is
  BY <1>2, SameStamped
<1> HIDE DEF d
<1>4. Grown
  BY <1>1, Quietly
<1>5. d.flow = Ctx(q).flow /\ Good(d, acct', Len(codes'))
  BY <1>3, <1>4, GoodGrown
<1>6. Reached(d, req[q].at) /\ Open(d, req[q].at)
  BY <1>3, Here, SameReached DEF Open
<1>7. Turn(q, d, Len(codes'))
  BY <1>5, <1>6 DEF Turn, Phases, d
<1> QED
  BY <1>1, <1>7, Quietly

LEMMA CreatePasswordFormMoves ==
  ASSUME WfInv, NEW q \in Requests, CreatePasswordForm(q)
  PROVE  Moved(q)
<1>1. Runs(q, "create-password-form") /\ UNCHANGED Shared
  BY DEF CreatePasswordForm
<1>2. req[q] # Idle /\ Same(Ctx(q), Stamped(Ctx(q)))
  BY <1>1, RunsHere, SameStamped DEF Same
<1>3. Lose(q) \/ Persist(q, Stamped(Ctx(q))) \/ Await(q, Stamped(Ctx(q)), "write")
  BY DEF CreatePasswordForm
<1>4. UNCHANGED <<acct, codes, failures, log>>
  BY <1>1 DEF Shared
<1> QED
  BY <1>1, <1>2, <1>3, <1>4, Pauses, AwaitsWrite

LEMMA ChangePasswordFormMoves ==
  ASSUME WfInv, NEW q \in Requests, ChangePasswordForm(q)
  PROVE  Moved(q)
<1>1. Runs(q, "change-password-form") /\ UNCHANGED Shared
  BY DEF ChangePasswordForm
<1>2. req[q] # Idle /\ Same(Ctx(q), Stamped(Ctx(q)))
  BY <1>1, RunsHere, SameStamped DEF Same
<1>3. Lose(q) \/ Persist(q, Stamped(Ctx(q))) \/ Await(q, Stamped(Ctx(q)), "write")
  BY DEF ChangePasswordForm
<1>4. UNCHANGED <<acct, codes, failures, log>>
  BY <1>1 DEF Shared
<1> QED
  BY <1>1, <1>2, <1>3, <1>4, Pauses, AwaitsWrite

\* The context d differs from c in its subject, its proofs and its challenge at most.
Like(c, d) ==
    /\ d \in Context /\ d.flow = c.flow
    /\ d.pin <= c.pin /\ d.cand \in {c.cand, acct.id} /\ d.sub \in {c.sub, c.cand, acct.id, 0}
    /\ c.flow \in {"invite", "signup"} => d.sub = c.sub
    /\ \A f \in Fixed \ {"otp"} : f \in d.is <=> f \in c.is
    /\ \A f \in Rising : f \in c.is => f \in d.is

LEMMA LikeGo ==
  ASSUME WfInv, NEW q \in Requests, req[q] # Idle, Grown, NEW d, Like(Ctx(q), d), Earned(d),
         Passed(d, req[q].at), Go(q, d),
         Ctx(q).flow = "invite" => req[q].at > 3,
         "otp" \in d.is \/ "otp" \notin Ctx(q).is \/ Site(Ctx(q).flow, req[q].at, "risk-step-up")
  PROVE  \E e : Turn(q, e, Len(codes'))
<1> DEFINE c == Ctx(q)
           i == req[q].at
           n == Len(codes)
<1>1. /\ acct \in Account /\ acct.id <= acct.born /\ n \in Nat /\ Len(codes') \in Nat
      /\ acct.id \in Nat /\ acct.born \in Nat
  BY DEF WfInv, TypeOK, Grown, Account
<1>2. /\ c \in Context /\ i \in Nat \ {0} /\ Good(c, acct, n) /\ Upto(c, i) /\ Ahead(c, i)
  BY Here DEF Reached
<1>3. /\ d \in Context /\ d.flow = c.flow
      /\ d.pin <= c.pin /\ d.cand \in {c.cand, acct.id} /\ d.sub \in {c.sub, c.cand, acct.id, 0}
      /\ c.flow \in {"invite", "signup"} => d.sub = c.sub
      /\ \A f \in {"terms", "stepUp", "byFactor", "dispatched", "passwordChanged"} : f \in d.is <=> f \in c.is
      /\ \A f \in {"aborted", "emailConfirmed", "asked", "decided", "newPassword"} : f \in c.is => f \in d.is
  BY DEF Like, Fixed, Rising
<1>4. Owned(d, acct, n)
  <2>1. c.sub \in Nat /\ c.cand \in Nat /\ c.pin \in Nat /\ d.pin \in Nat /\ Owned(c, acct, n)
    BY <1>2, <1>3 DEF Context, Good
  <2>2. d.sub <= acct.born /\ d.cand <= acct.born /\ d.pin <= n
    BY <1>1, <1>3, <2>1 DEF Owned
  <2> QED
    BY <1>3, <2>1, <2>2 DEF Owned
<1>5. Good(d, acct', Len(codes'))
  <2>1. Good(d, acct, n)
    BY <1>3, <1>4 DEF Good
  <2> QED
    BY <1>1, <2>1, GrowsGood DEF Grown
<1> HIDE DEF c, i, n
<1>6. Reached(d, i + 1)
  <2>1. CASE "otp" \in d.is \/ "otp" \notin c.is
    <3>1. Upto(d, i)
      BY <1>2, <1>3, <2>1 DEF Upto, Confirmed, Challenged, Settled, OutOfCodes
    <3>2. Ahead(d, i) \/ i = 1
      BY <1>2, <1>3 DEF Ahead, Confirmed, c, i
    <3>3. CASE i = 1
      <4>1. Upto(d, i + 1)
        BY <3>3 DEF Upto
      <4>2. Ahead(d, i + 1)
        BY <1>2, <1>3, <3>3 DEF Ahead, c, i
      <4> QED
        BY <4>1, <4>2 DEF Reached, i
    <3> QED
      BY <1>2, <3>1, <3>2, <3>3, StepOver DEF i
  <2>2. CASE "otp" \notin d.is /\ "otp" \in c.is
    <3>1. \/ c.flow = "login" /\ 15 < i /\ i < 30
          \/ c.flow = "invite" /\ 9 < i /\ i < 23
      BY <2>2 DEF Site, c, i
    <3>2. Upto(d, i + 1)
      BY <1>2, <1>3, <3>1 DEF Upto, Confirmed, Settled
    <3>3. Ahead(d, i + 1)
      BY <1>2, <1>3, <3>1 DEF Ahead
    <3> QED
      BY <3>2, <3>3 DEF Reached
  <2> QED
    BY <2>1, <2>2
<1> QED
  BY <1>3, <1>5, <1>6 DEF Turn, c, i

\* A challenge was answered with this proof.
Answered(c, d, proof) ==
    /\ d \in Context /\ d.flow = c.flow /\ d.sub = c.sub /\ d.cand = c.cand /\ d.pin <= c.pin
    /\ d.by = c.by \cup {proof} /\ "otp" \in d.is
    /\ \A f \in (Fixed \cup Rising) \ {"otp"} : f \in d.is <=> f \in c.is

LEMMA AnsweredGo ==
  ASSUME WfInv, NEW q \in Requests, req[q] # Idle, Grown, NEW d, NEW proof, Answered(Ctx(q), d, proof),
         Passed(d, req[q].at), Go(q, d),
         Ctx(q).flow = "invite" => req[q].at > 3,
         Ctx(q).flow \in {"login", "invite"} => proof \in Factor \/ policy.mfa # "required",
         Ctx(q).flow \in {"recovery", "signup"} => proof \in {"code", "link"},
         Ctx(q).flow = "addMfa" => proof \in {"code", "totp", "password"}
  PROVE  \E e : Turn(q, e, Len(codes'))
<1> DEFINE c == Ctx(q)
<1>1. Earned(c)
  BY Here DEF Good
<1>2. /\ d \in Context /\ d.flow = c.flow /\ d.sub = c.sub /\ d.by = c.by \cup {proof}
      /\ "otp" \in d.is
      /\ \A f \in {"terms", "dispatched", "passwordChanged", "newPassword"} : f \in d.is <=> f \in c.is
      /\ proof \in d.by /\ c.by \subseteq d.by
  BY DEF Answered, Fixed, Rising
<1>3. Earned(d)
  <2>1. Factored(d)
    BY <1>2 DEF Factored
  <2>2. Identified(d)
    BY <1>1, <1>2 DEF Earned, Identified
  <2>3. Mailed(d) /\ Signed(d)
    BY <1>1, <1>2 DEF Earned, Mailed, Signed
  <2> QED
    BY <1>1, <1>2, <2>1, <2>2, <2>3 DEF Earned
<1>4. Like(c, d)
  BY DEF Like, Answered
<1> QED
  BY <1>2, <1>3, <1>4, LikeGo

LEMMA QuietlyAnswered ==
  ASSUME WfInv, NEW q \in Requests, NEW step, Runs(q, step), step \notin Turning, UNCHANGED Shared,
         NEW d, NEW proof, Answered(Ctx(q), d, proof), Go(q, d),
         Ctx(q).flow = "invite" => req[q].at > 3,
         Ctx(q).flow \in {"login", "invite"} => proof \in Factor \/ policy.mfa # "required",
         Ctx(q).flow \in {"recovery", "signup"} => proof \in {"code", "link"},
         Ctx(q).flow = "addMfa" => proof \in {"code", "totp", "password"}
  PROVE  Moved(q)
<1>1. UNCHANGED <<acct, codes, failures, log>>
  BY DEF Shared
<1>2. req[q] # Idle /\ Grown
  BY <1>1, RunsHere, Quietly
<1>3. Passed(d, req[q].at)
  <2>1. d.flow = Ctx(q).flow /\ StepHere(q) \notin Turning
    BY RunsHere DEF Answered
  <2> QED
    BY <1>2, <2>1, Here, Ordinary DEF StepHere
<1>4. \E e : Turn(q, e, Len(codes'))
  BY <1>2, <1>3, AnsweredGo
<1> QED
  BY <1>1, <1>2, <1>4, Quietly

LEMMA VerifiedIs ==
  ASSUME NEW c \in Context, NEW proof \in Proofs
  PROVE  /\ Answered(c, Verified(c, proof), proof)
         /\ Answered(c, Without(Verified(c, proof), {"riskEvaluated"}), proof)
         /\ Answered(c, Verified(With(Cleared(c), {"done"}), proof), proof)
         /\ Answered(c, Verified(With(c, {"done"}), proof), proof)
         /\ Answered(c, [Verified(With(c, {"done"}), proof) EXCEPT !.pin = 0], proof)
<1>1. ASSUME NEW d, d \in Context, d.flow = c.flow, d.sub = c.sub, d.cand = c.cand, d.pin \in {0, c.pin},
             d.by = c.by \cup {proof}, "otp" \in d.is, c.is \ {"ready", "riskEvaluated"} \subseteq d.is,
             d.is \subseteq c.is \cup {"otp", "done"}
      PROVE  Answered(c, d, proof)
  <2>1. d.pin <= c.pin
    BY <1>1 DEF Context
  <2>2. \A f \in (Fixed \cup Rising) \ {"otp"} : f \in d.is <=> f \in c.is
    BY <1>1 DEF Fixed, Rising
  <2> QED
    BY <1>1, <2>1, <2>2 DEF Answered
<1>2. /\ "otp" \in Flags /\ "done" \in Flags
      /\ None \in {None} \cup Transports
  BY DEF Flags
<1>3. Answered(c, Verified(c, proof), proof)
  <2> DEFINE d == Verified(c, proof)
  <2>1. /\ d \in Context /\ d.flow = c.flow /\ d.sub = c.sub /\ d.cand = c.cand /\ d.pin = c.pin
        /\ d.by = c.by \cup {proof} /\ d.is = c.is \cup {"otp"}
    BY <1>2 DEF Verified, With, Proved, Context
  <2> HIDE DEF d
  <2>2. Answered(c, d, proof)
    BY <1>1, <2>1
  <2> QED
    BY <2>2 DEF d
<1>4. Answered(c, Without(Verified(c, proof), {"riskEvaluated"}), proof)
  <2> DEFINE d == Without(Verified(c, proof), {"riskEvaluated"})
  <2>1. /\ d \in Context /\ d.flow = c.flow /\ d.sub = c.sub /\ d.cand = c.cand /\ d.pin = c.pin
        /\ d.by = c.by \cup {proof} /\ d.is = (c.is \cup {"otp"}) \ {"riskEvaluated"}
    BY <1>2 DEF Without, Verified, With, Proved, Context
  <2> HIDE DEF d
  <2>2. Answered(c, d, proof)
    BY <1>1, <2>1
  <2> QED
    BY <2>2 DEF d
<1>5. Answered(c, Verified(With(Cleared(c), {"done"}), proof), proof)
  <2> DEFINE d == Verified(With(Cleared(c), {"done"}), proof)
  <2>1. /\ d \in Context /\ d.flow = c.flow /\ d.sub = c.sub /\ d.cand = c.cand /\ d.pin = 0
        /\ d.by = c.by \cup {proof} /\ d.is = (c.is \ {"ready"}) \cup {"done"} \cup {"otp"}
    BY <1>2 DEF Cleared, Without, Verified, With, Proved, Context
  <2> HIDE DEF d
  <2>2. Answered(c, d, proof)
    BY <1>1, <2>1
  <2> QED
    BY <2>2 DEF d
<1>6. Answered(c, Verified(With(c, {"done"}), proof), proof)
  <2> DEFINE d == Verified(With(c, {"done"}), proof)
  <2>1. /\ d \in Context /\ d.flow = c.flow /\ d.sub = c.sub /\ d.cand = c.cand /\ d.pin = c.pin
        /\ d.by = c.by \cup {proof} /\ d.is = c.is \cup {"done"} \cup {"otp"}
    BY <1>2 DEF Verified, With, Proved, Context
  <2> HIDE DEF d
  <2>2. Answered(c, d, proof)
    BY <1>1, <2>1
  <2> QED
    BY <2>2 DEF d
<1>7. Answered(c, [Verified(With(c, {"done"}), proof) EXCEPT !.pin = 0], proof)
  <2> DEFINE d == [Verified(With(c, {"done"}), proof) EXCEPT !.pin = 0]
  <2>1. /\ d \in Context /\ d.flow = c.flow /\ d.sub = c.sub /\ d.cand = c.cand /\ d.pin = 0
        /\ d.by = c.by \cup {proof} /\ d.is = c.is \cup {"done"} \cup {"otp"}
    BY <1>2 DEF Verified, With, Proved, Context
  <2> HIDE DEF d
  <2>2. Answered(c, d, proof)
    BY <1>1, <2>1
  <2> QED
    BY <2>2 DEF d
<1> QED
  BY <1>3, <1>4, <1>5, <1>6, <1>7

LEMMA CheckTrustedDeviceMoves ==
  ASSUME WfInv, NEW q \in Requests, CheckTrustedDevice(q)
  PROVE  Moved(q)
<1>1. Runs(q, "check-trusted-device") /\ UNCHANGED Shared /\ "check-trusted-device" \notin Turning
  BY DEF CheckTrustedDevice, Turning
<1>2. Ctx(q) \in Context /\ req[q].at \in Nat
  BY <1>1, RunsHere, Here
<1>3. Answered(Ctx(q), Verified(Ctx(q), "device"), "device") /\ "device" \in Factor
  BY <1>2, VerifiedIs DEF Proofs, Factor
<1>4. \/ Ctx(q).flow = "login"
      \/ Ctx(q).flow = "invite" /\ req[q].at > 3
  BY <1>1, <1>2, RunsHere DEF Site
<1>5. Go(q, Verified(Ctx(q), "device")) => Moved(q)
  BY <1>1, <1>3, <1>4, QuietlyAnswered
<1>6. Same(Ctx(q), With(Ctx(q), {"newDevice"}))
  BY <1>1, RunsHere, SameFlag DEF Flags, Fixed
<1> QED
  BY <1>1, <1>5, <1>6, Quiet DEF CheckTrustedDevice

LEMMA TotpCheckMoves ==
  ASSUME WfInv, NEW q \in Requests, TotpCheck(q)
  PROVE  Moved(q)
<1> DEFINE d == Without(Verified(Ctx(q), "totp"), {"riskEvaluated"})
<1>1. Runs(q, "totp-check") /\ UNCHANGED Shared /\ "totp-check" \notin Turning
  BY DEF TotpCheck, Turning
<1>2. Ctx(q) \in Context /\ req[q].at \in Nat
  BY <1>1, RunsHere, Here
<1>3. Answered(Ctx(q), d, "totp") /\ "totp" \in Factor
  BY <1>2, VerifiedIs DEF Proofs, Factor
<1>4. \/ Ctx(q).flow \in {"login", "addMfa"}
      \/ Ctx(q).flow = "invite" /\ req[q].at > 3
  BY <1>1, <1>2, RunsHere DEF Site
<1> HIDE DEF d
<1>5. Go(q, d) => Moved(q)
  BY <1>1, <1>3, <1>4, QuietlyAnswered
<1>6. Same(Ctx(q), Unpicked(Ctx(q)))
  BY <1>1, RunsHere, SameFields
<1>7. Ask(q) \/ Go(q, Unpicked(Ctx(q))) \/ Lose(q) \/ Go(q, d)
  BY DEF TotpCheck, d
<1> QED
  BY <1>1, <1>5, <1>6, <1>7, Quiet

LEMMA RiskStepUpMoves ==
  ASSUME WfInv, NEW q \in Requests, RiskStepUp(q)
  PROVE  Moved(q)
<1> DEFINE c == With(Ctx(q), {"riskEvaluated"})
           d == [Without(c, {"otp"}) EXCEPT !.pin = 0]
<1>1. Runs(q, "risk-step-up") /\ UNCHANGED Shared /\ "risk-step-up" \notin Turning
  BY DEF RiskStepUp, Turning
<1>2. UNCHANGED <<acct, codes, failures, log>>
  BY <1>1 DEF Shared
<1>3. Same(Ctx(q), c)
  BY <1>1, RunsHere, SameFlag DEF Flags, Fixed
<1>4. ASSUME Go(q, d)
      PROVE  Moved(q)
  <2>1. req[q] # Idle /\ Grown /\ Earned(Ctx(q)) /\ Ctx(q) \in Context /\ req[q].at \in Nat
    BY <1>1, <1>2, RunsHere, Here, Quietly DEF Good
  <2>2. Site(Ctx(q).flow, req[q].at, "risk-step-up")
    BY <1>1, RunsHere
  <2>3. /\ d \in Context /\ d.flow = Ctx(q).flow /\ d.sub = Ctx(q).sub /\ d.cand = Ctx(q).cand /\ d.pin = 0
        /\ d.by = Ctx(q).by /\ d.is = (Ctx(q).is \cup {"riskEvaluated"}) \ {"otp"}
    <3>1. "riskEvaluated" \in Flags
      BY DEF Flags
    <3> QED
      BY <2>1, <3>1 DEF With, Without, Context
  <2>4. Like(Ctx(q), d)
    <3>1. d.pin <= Ctx(q).pin
      BY <2>1, <2>3 DEF Context
    <3>2. /\ \A f \in Fixed \ {"otp"} : f \in d.is <=> f \in Ctx(q).is
          /\ \A f \in Rising : f \in Ctx(q).is => f \in d.is
      BY <2>3 DEF Fixed, Rising
    <3> HIDE DEF d
    <3> QED
      BY <2>3, <3>1, <3>2 DEF Like
  <2>5. Ctx(q).flow \in {"login", "invite"} /\ (Ctx(q).flow = "invite" => req[q].at > 3)
    BY <2>1, <2>2 DEF Site
  <2>6. Earned(d)
    <3>1. "otp" \notin d.is /\ ("dispatched" \in d.is => "dispatched" \in Ctx(q).is)
      BY <2>3
    <3> HIDE DEF d
    <3> QED
      BY <2>1, <2>3, <2>5, <3>1 DEF Earned, Factored, Identified, Mailed, Signed
  <2>7. Passed(d, req[q].at)
    <3>1. d.flow = Ctx(q).flow /\ StepHere(q) \notin Turning
      BY <1>1, <2>3, RunsHere
    <3> QED
      BY <2>1, <3>1, Here, Ordinary DEF StepHere
  <2>8. \E e : Turn(q, e, Len(codes'))
    BY <1>4, <2>1, <2>2, <2>4, <2>5, <2>6, <2>7, LikeGo
  <2> QED
    BY <1>2, <2>1, <2>8, Quietly
<1>5. Go(q, c) \/ Go(q, d)
  BY DEF RiskStepUp
<1> HIDE DEF c, d
<1> QED
  BY <1>1, <1>3, <1>4, <1>5, Quiet

(* ------------------------------ Enrolment ------------------------------- *)
LEMMA ExitsMove ==
  ASSUME WfInv, NEW q \in Requests, NEW step, Runs(q, step), UNCHANGED Shared,
         step \in {"enroll-pick-method", "enroll-address", "enroll-totp-qr", "enroll-confirm"},
         NEW d \in EnrollExits(Ctx(q)) \cup {Aborted(Ctx(q)), Verified(With(Ctx(q), {"done"}), "skip")},
         d = Verified(With(Ctx(q), {"done"}), "skip") => Mode(Ctx(q)) = "optional",
         Go(q, d)
  PROVE  Moved(q)
<1> DEFINE c == Ctx(q)
<1>1. step \notin Turning
  BY DEF Turning
<1>2. c \in Context /\ req[q].at \in Nat /\ Same(c, c)
  BY RunsHere, Here
<1>3. Same(c, Cleared(c)) /\ Same(c, Aborted(c)) /\ Same(c, Aborted(Cleared(c)))
  BY <1>2, SameFields
<1>4. \/ d \in {Cleared(c), Aborted(c), Aborted(Cleared(c))}
      \/ /\ d \in {Verified(With(Cleared(c), {"done"}), "skip"), Verified(With(c, {"done"}), "skip")}
         /\ Mode(c) = "optional"
  BY DEF EnrollExits, Mode
<1>5. CASE d \in {Cleared(c), Aborted(c), Aborted(Cleared(c))}
  BY <1>1, <1>3, <1>5, Quiet
<1>6. CASE /\ d \in {Verified(With(Cleared(c), {"done"}), "skip"), Verified(With(c, {"done"}), "skip")}
           /\ Mode(c) = "optional"
  <2>1. Answered(c, d, "skip")
    BY <1>2, <1>6, VerifiedIs DEF Proofs
  <2>2. c.flow # "addMfa" /\ policy.mfa # "required"
    BY <1>6 DEF Mode
  <2>3. Site(c.flow, req[q].at, step)
    BY RunsHere
  <2>4. c.flow = "login" \/ (c.flow = "invite" /\ req[q].at > 3)
    BY <1>2, <2>2, <2>3 DEF Site
  <2> QED
    BY <1>1, <2>1, <2>2, <2>4, QuietlyAnswered
<1> QED
  BY <1>4, <1>5, <1>6

LEMMA EnrollPickMethodMoves ==
  ASSUME WfInv, NEW q \in Requests, EnrollPickMethod(q)
  PROVE  Moved(q)
<1> DEFINE c == Ctx(q)
<1>1. Runs(q, "enroll-pick-method") /\ UNCHANGED Shared /\ "enroll-pick-method" \notin Turning
  BY DEF EnrollPickMethod, Turning
<1>2. policy.transports \subseteq Transports
  BY DEF WfInv, TypeOK, Deployment
<1>3. \A m \in policy.transports : Same(c, [c EXCEPT !.enroll = m])
  <2>1. \A m \in policy.transports : m \in {None} \cup Transports
    BY <1>2
  <2> QED
    BY <1>1, <2>1, RunsHere, SameField
<1>4. Mode(c) \in {"manage", "required", "optional"}
  BY DEF Mode
<1>5. \/ Ask(q)
      \/ \E m \in policy.transports : Go(q, [c EXCEPT !.enroll = m])
      \/ Go(q, Aborted(c))
      \/ Mode(c) = "optional" /\ Go(q, Verified(With(c, {"done"}), "skip"))
  BY <1>4 DEF EnrollPickMethod
<1>6. Go(q, Aborted(c)) => Moved(q)
  BY <1>1, RunsHere, SameFields, Quiet
<1>7. Mode(c) = "optional" /\ Go(q, Verified(With(c, {"done"}), "skip")) => Moved(q)
  BY <1>1, ExitsMove
<1> QED
  BY <1>1, <1>3, <1>5, <1>6, <1>7, Quiet

LEMMA EnrollFormMoves ==
  ASSUME WfInv, NEW q \in Requests, NEW step \in {"enroll-address", "enroll-totp-qr"}, Runs(q, step),
         UNCHANGED Shared,
         Ask(q) \/ \E next \in EnrollExits(Ctx(q)) \cup {With(Ctx(q), {"ready"})} : Go(q, next)
  PROVE  Moved(q)
<1> DEFINE c == Ctx(q)
<1>1. step \notin Turning
  BY DEF Turning
<1>2. Same(c, With(c, {"ready"}))
  BY RunsHere, SameFlag DEF Flags, Fixed
<1>3. ASSUME NEW d \in EnrollExits(c), Go(q, d)
      PROVE  Moved(q)
  <2>1. d = Verified(With(c, {"done"}), "skip") => Mode(c) = "optional" \/ d \in {Cleared(c), Aborted(Cleared(c))}
    BY DEF EnrollExits
  <2>2. Same(c, Cleared(c)) /\ Same(c, Aborted(Cleared(c)))
    BY RunsHere, SameFields
  <2>3. CASE d \in {Cleared(c), Aborted(Cleared(c))}
    BY <1>1, <1>3, <2>2, <2>3, Quiet
  <2>4. CASE d \notin {Cleared(c), Aborted(Cleared(c))}
    BY <1>3, <2>1, <2>4, ExitsMove
  <2> QED
    BY <2>3, <2>4
<1> QED
  BY <1>1, <1>2, <1>3, Quiet

LEMMA EnrollAddressMoves ==
  ASSUME WfInv, NEW q \in Requests, EnrollAddress(q) \/ EnrollTotpQr(q)
  PROVE  Moved(q)
BY EnrollFormMoves DEF EnrollAddress, EnrollTotpQr

(* ------------------- Steps that write the shared state ------------------ *)
CodesKept == codes' \in Seq(Code) /\ Len(codes) <= Len(codes') /\ failures' \in [Targets -> Nat]
\* The same of the account row and of the log.
RowKept == /\ Grows(acct, acct')
           /\ acct'.active /\ acct'.id # policy.start.id => acct'.pw > 0 /\ ~acct'.initial
LogKept == \A e \in log' : Entry(e)
Steady == CodesKept /\ RowKept /\ LogKept

LEMMA SteadyMoves ==
  ASSUME NEW q, req[q] # Idle, Steady, Lose(q) \/ \E d : Turn(q, d, Len(codes'))
  PROVE  Moved(q)
BY DEF Moved, Steady, CodesKept, RowKept, LogKept

LEMMA SteadyGrown == Steady => Grown
BY DEF Grown, Steady, CodesKept, RowKept

LEMMA Unwritten ==
  ASSUME WfInv
  PROVE  /\ UNCHANGED <<codes, failures>> => CodesKept
         /\ UNCHANGED acct => RowKept
         /\ UNCHANGED log => LogKept
<1>1. ASSUME UNCHANGED <<codes, failures>>
      PROVE  CodesKept
  BY <1>1 DEF WfInv, TypeOK, CodesKept
<1>2. ASSUME UNCHANGED acct
      PROVE  RowKept
  <2>1. acct \in Account /\ acct.id <= acct.born /\ acct' = acct
    BY <1>2 DEF WfInv, TypeOK
  <2>2. Grows(acct, acct')
    BY <2>1 DEF Grows, Account
  <2> QED
    BY <2>1, <2>2 DEF RowKept, WfInv, ActiveMeansPassword
<1>3. ASSUME UNCHANGED log
      PROVE  LogKept
  BY <1>3 DEF WfInv, LogKept
<1> QED
  BY <1>1, <1>2, <1>3

\* The row keeps its name, and a password once its owner chose one.
LEMMA RowEdited ==
  ASSUME WfInv, NEW b \in Account, b.id = acct.id, b.born = acct.born,
         \/ b.pw = acct.pw /\ b.initial = acct.initial /\ (b.active => acct.active)
         \/ b.pw > 0 /\ ~b.initial,
         acct' = b
  PROVE  RowKept
<1>1. acct \in Account /\ acct.id <= acct.born
  BY DEF WfInv, TypeOK
<1>2. Grows(acct, b)
  BY <1>1 DEF Grows, Account
<1>3. b.active /\ b.id # policy.start.id => b.pw > 0 /\ ~b.initial
  BY DEF WfInv, ActiveMeansPassword
<1> QED
  BY <1>2, <1>3 DEF RowKept

LEMMA OneMore == \A n \in Nat : n + 1 \in Nat /\ n + 1 > 0
OBVIOUS

\* b is the row a with the same password, not active unless a is.
Edited(a, b) == /\ b \in Account /\ b.id = a.id /\ b.born = a.born
                /\ b.pw = a.pw /\ b.initial = a.initial /\ (b.active => a.active)

LEMMA Edits ==
  ASSUME NEW a \in Account, NEW v \in BOOLEAN, NEW n \in Nat, NEW x \in SUBSET Transports
  PROVE  /\ Edited(a, [a EXCEPT !.idp = v]) /\ Edited(a, [a EXCEPT !.terms = v])
         /\ Edited(a, [a EXCEPT !.trusted = v]) /\ Edited(a, [a EXCEPT !.locked = v])
         /\ Edited(a, [a EXCEPT !.pending = v]) /\ Edited(a, [a EXCEPT !.active = FALSE])
         /\ Edited(a, [a EXCEPT !.nonce = n]) /\ Edited(a, [a EXCEPT !.pending = TRUE, !.nonce = n])
         /\ Edited(a, [a EXCEPT !.factors = x])
<1>1. Edited(a, [a EXCEPT !.idp = v])
  BY DEF Edited, Account
<1>2. Edited(a, [a EXCEPT !.terms = v])
  BY DEF Edited, Account
<1>3. Edited(a, [a EXCEPT !.trusted = v])
  BY DEF Edited, Account
<1>4. Edited(a, [a EXCEPT !.locked = v])
  BY DEF Edited, Account
<1>5. Edited(a, [a EXCEPT !.pending = v])
  BY DEF Edited, Account
<1>6. Edited(a, [a EXCEPT !.active = FALSE])
  BY DEF Edited, Account
<1>7. Edited(a, [a EXCEPT !.nonce = n])
  BY DEF Edited, Account
<1>8. Edited(a, [a EXCEPT !.pending = TRUE, !.nonce = n])
  BY DEF Edited, Account
<1>9. Edited(a, [a EXCEPT !.factors = x])
  BY DEF Edited, Account
<1> QED
  BY <1>1, <1>2, <1>3, <1>4, <1>5, <1>6, <1>7, <1>8, <1>9

LEMMA RowEdits ==
  ASSUME WfInv,
         \/ acct' = [acct EXCEPT !.idp = TRUE]
         \/ acct' = [acct EXCEPT !.terms = TRUE]
         \/ acct' = [acct EXCEPT !.trusted = TRUE]
         \/ acct' = [acct EXCEPT !.locked = FALSE]
         \/ acct' = [acct EXCEPT !.locked = TRUE]
         \/ acct' = [acct EXCEPT !.pending = FALSE]
         \/ acct' = [acct EXCEPT !.active = FALSE]
         \/ acct' = [acct EXCEPT !.pw = @ + 1, !.initial = FALSE]
         \/ acct' = [acct EXCEPT !.nonce = @ + 1]
         \/ \E n \in Nat : acct' = [acct EXCEPT !.pending = TRUE, !.nonce = n]
         \/ \E x \in SUBSET Transports : acct' = [acct EXCEPT !.factors = x]
  PROVE  RowKept
<1>1. acct \in Account
  BY DEF WfInv, TypeOK
<1>2. ASSUME NEW b, Edited(acct, b), acct' = b
      PROVE  RowKept
  BY <1>2, RowEdited DEF Edited
<1>3. CASE acct' = [acct EXCEPT !.idp = TRUE]
  <2>1. Edited(acct, [acct EXCEPT !.idp = TRUE])
    BY <1>1, Edits
  <2> QED
    BY <1>2, <1>3, <2>1
<1>4. CASE acct' = [acct EXCEPT !.terms = TRUE]
  <2>1. Edited(acct, [acct EXCEPT !.terms = TRUE])
    BY <1>1, Edits
  <2> QED
    BY <1>2, <1>4, <2>1
<1>5. CASE acct' = [acct EXCEPT !.trusted = TRUE]
  <2>1. Edited(acct, [acct EXCEPT !.trusted = TRUE])
    BY <1>1, Edits
  <2> QED
    BY <1>2, <1>5, <2>1
<1>6. CASE acct' = [acct EXCEPT !.locked = FALSE]
  <2>1. Edited(acct, [acct EXCEPT !.locked = FALSE])
    BY <1>1, Edits
  <2> QED
    BY <1>2, <1>6, <2>1
<1>7. CASE acct' = [acct EXCEPT !.locked = TRUE]
  <2>1. Edited(acct, [acct EXCEPT !.locked = TRUE])
    BY <1>1, Edits
  <2> QED
    BY <1>2, <1>7, <2>1
<1>8. CASE acct' = [acct EXCEPT !.pending = FALSE]
  <2>1. Edited(acct, [acct EXCEPT !.pending = FALSE])
    BY <1>1, Edits
  <2> QED
    BY <1>2, <1>8, <2>1
<1>9. CASE acct' = [acct EXCEPT !.active = FALSE]
  <2>1. Edited(acct, [acct EXCEPT !.active = FALSE])
    BY <1>1, Edits
  <2> QED
    BY <1>2, <1>9, <2>1
<1>10. CASE acct' = [acct EXCEPT !.nonce = @ + 1]
  <2>1. acct.nonce + 1 \in Nat
    BY <1>1, OneMore DEF Account
  <2>2. Edited(acct, [acct EXCEPT !.nonce = acct.nonce + 1])
    BY <1>1, <2>1, Edits
  <2> QED
    BY <1>2, <1>10, <2>2
<1>11. CASE \E n \in Nat : acct' = [acct EXCEPT !.pending = TRUE, !.nonce = n]
  <2>1. PICK n \in Nat : acct' = [acct EXCEPT !.pending = TRUE, !.nonce = n]
    BY <1>11
  <2>2. Edited(acct, [acct EXCEPT !.pending = TRUE, !.nonce = n])
    BY <1>1, Edits
  <2> QED
    BY <1>2, <2>1, <2>2
<1>12. CASE \E x \in SUBSET Transports : acct' = [acct EXCEPT !.factors = x]
  <2>1. PICK x \in SUBSET Transports : acct' = [acct EXCEPT !.factors = x]
    BY <1>12
  <2>2. Edited(acct, [acct EXCEPT !.factors = x])
    BY <1>1, Edits
  <2> QED
    BY <1>2, <2>1, <2>2
<1>13. CASE acct' = [acct EXCEPT !.pw = @ + 1, !.initial = FALSE]
  <2> DEFINE b == [acct EXCEPT !.pw = @ + 1, !.initial = FALSE]
  <2>0. acct.pw + 1 \in Nat /\ acct.pw + 1 > 0
    <3>1. acct.pw \in Nat
      BY <1>1 DEF Account
    <3> QED
      BY <3>1, OneMore
  <2>1. b.id = acct.id /\ b.born = acct.born /\ b.pw = acct.pw + 1 /\ b.initial = FALSE
    BY <1>1 DEF Account
  <2>3. b \in Account
    BY <1>1, <2>0 DEF Account
  <2> HIDE DEF b
  <2>2. acct' = b
    BY <1>13 DEF b
  <2> QED
    BY <2>0, <2>1, <2>2, <2>3, RowEdited
<1> QED
  BY <1>3, <1>4, <1>5, <1>6, <1>7, <1>8, <1>9, <1>10, <1>11, <1>12, <1>13

(* ------------------------------ One-time codes -------------------------- *)
LEMMA Minted ==
  ASSUME WfInv, NEW target, NEW for \in Nat, Mint(target, for)
  PROVE  CodesKept /\ Len(codes') = Len(codes) + 1
<1>1. codes \in Seq(Code) /\ failures \in [Targets -> Nat]
  BY DEF WfInv, TypeOK
<1>2. [for |-> for, tries |-> 0, wrong |-> 0, wins |-> 0] \in Code
  BY DEF Code
<1> QED
  BY <1>1, <1>2 DEF Mint, CodesKept

LEMMA Counted ==
  ASSUME WfInv, NEW n \in 1..Len(codes),
         \/ codes' = [codes EXCEPT ![n].tries = @ + 1]
         \/ codes' = [codes EXCEPT ![n].wrong = @ + 1]
         \/ codes' = [codes EXCEPT ![n].wins = @ + 1],
         \/ UNCHANGED failures
         \/ \E target \in Targets : failures' = [failures EXCEPT ![target] = @ + 1]
  PROVE  CodesKept
<1>1. codes \in Seq(Code) /\ failures \in [Targets -> Nat]
  BY DEF WfInv, TypeOK
<1>2. codes[n] \in Code
  BY <1>1
<1>3. PICK row \in Code : codes' = [codes EXCEPT ![n] = row]
  <2>1. CASE codes' = [codes EXCEPT ![n].tries = @ + 1]
    <3>1. [codes[n] EXCEPT !.tries = @ + 1] \in Code
      BY <1>2, SMTT(30) DEF Code
    <3> QED
      BY <2>1, <3>1
  <2>2. CASE codes' = [codes EXCEPT ![n].wrong = @ + 1]
    <3>1. [codes[n] EXCEPT !.wrong = @ + 1] \in Code
      BY <1>2, SMTT(30) DEF Code
    <3> QED
      BY <2>2, <3>1
  <2>3. CASE codes' = [codes EXCEPT ![n].wins = @ + 1]
    <3>1. [codes[n] EXCEPT !.wins = @ + 1] \in Code
      BY <1>2, SMTT(30) DEF Code
    <3> QED
      BY <2>3, <3>1
  <2> QED
    BY <2>1, <2>2, <2>3
<1>4. codes' \in Seq(Code) /\ Len(codes') = Len(codes)
  BY <1>1, <1>3
<1>5. failures' \in [Targets -> Nat]
  BY <1>1
<1>6. Len(codes) \in Nat
  BY <1>1
<1> QED
  BY <1>4, <1>5, <1>6 DEF CodesKept

\* A pin is the number of a code that was sent.
LEMMA PinSent ==
  ASSUME WfInv, NEW q \in Requests, req[q] # Idle, NEW d, Same(Ctx(q), d), d.pin # 0
  PROVE  d.pin \in 1..Len(codes)
<1>1. Len(codes) \in Nat
  BY DEF WfInv, TypeOK
<1>2. Ctx(q) \in Context /\ Ctx(q).pin <= Len(codes)
  BY Here DEF Good, Owned
<1>3. d.pin = Ctx(q).pin /\ d.pin \in Nat
  BY <1>2 DEF Same, Context
<1> QED
  BY <1>1, <1>2, <1>3

LEMMA SamePlace ==
  ASSUME NEW e, NEW d, d.flow = e.flow, d.sub = e.sub, d.is = e.is, NEW i, Reached(e, i)
  PROVE  Reached(d, i)
<1>1. Upto(d, i)
  BY DEF Reached, Upto, Confirmed, Challenged, Settled, OutOfCodes
<1>2. Ahead(d, i)
  BY DEF Reached, Ahead, Confirmed
<1> QED
  BY <1>1, <1>2 DEF Reached

LEMMA PinnedTurn ==
  ASSUME WfInv, NEW q \in Requests, req[q] # Idle, Steady, Len(codes') = Len(codes) + 1,
         NEW e, Same(Ctx(q), e),
         \/ Persist(q, Pinned(e))
         \/ Go(q, Pinned(e)) /\ StepHere(q) \notin Turning
  PROVE  Moved(q)
<1> DEFINE d == Pinned(e)
           k == Len(codes')
<1>1. Len(codes) \in Nat /\ k \in Nat /\ Grown
  BY SteadyGrown DEF WfInv, TypeOK, Steady, CodesKept
<1>2. e \in Context /\ e.flow = Ctx(q).flow /\ Good(e, acct', k) /\ Reached(e, req[q].at)
  BY <1>1, GoodGrown, SameReached, Here DEF Same
<1>3. /\ d \in Context /\ d.flow = e.flow /\ d.sub = e.sub /\ d.by = e.by /\ d.is = e.is
      /\ d.pin = k /\ d.cand = e.cand
  BY <1>1, <1>2 DEF Pinned, Context
<1> HIDE DEF d
<1>4. Earned(d)
  BY <1>2, <1>3 DEF Good, Earned, Factored, SilentFactor, Identified, Mailed, Signed
<1>5. Owned(d, acct', k)
  BY <1>1, <1>2, <1>3 DEF Good, Owned
<1>6. d.flow = Ctx(q).flow /\ Good(d, acct', k)
  BY <1>2, <1>3, <1>4, <1>5 DEF Good
<1>7. Reached(d, req[q].at)
  BY <1>2, <1>3, SamePlace
<1>8. CASE Persist(q, d)
  <2>1. Turn(q, d, k)
    BY <1>6, <1>7, <1>8 DEF Turn
  <2> QED
    BY <2>1, SteadyMoves
<1>9. CASE Go(q, d) /\ StepHere(q) \notin Turning
  <2>1. Passed(e, req[q].at)
    BY <1>2, <1>9, Here, Ordinary DEF StepHere
  <2>2. Reached(e, req[q].at + 1)
    BY <1>2, <2>1, Here, StepOver DEF Reached
  <2>3. Reached(d, req[q].at + 1)
    BY <1>3, <2>2, SamePlace
  <2>4. Turn(q, d, k)
    BY <1>6, <1>9, <2>3 DEF Turn
  <2> QED
    BY <2>4, SteadyMoves
<1> QED
  BY <1>8, <1>9 DEF d

LEMMA SubmittedMoves ==
  ASSUME WfInv, NEW q \in Requests, req[q] # Idle, NEW target \in Targets, NEW e, Same(Ctx(q), e),
         e.method = Ctx(q).method, e.enroll = Ctx(q).enroll, "aborted" \in e.is => "aborted" \in Ctx(q).is,
         SubmitPin(q, target, e)
  PROVE  Moved(q)
<1>1. UNCHANGED <<acct, failures, log>>
  BY DEF SubmitPin
<1>2. CASE UNCHANGED codes /\ Ask(q)
  BY <1>1, <1>2, QuietAsk
<1>3. CASE e.pin # 0 /\ codes' = [codes EXCEPT ![e.pin].tries = @ + 1] /\ (Await(q, e, "compare") \/ Ask(q))
  <2>1. Steady
    BY <1>1, <1>3, PinSent, Counted, Unwritten DEF Steady
  <2>2. Grown
    BY <2>1, SteadyGrown
  <2>3. CASE Ask(q)
    <3>1. \E d : Turn(q, d, Len(codes'))
      BY <2>2, <2>3, Here, SameItself, SamePause DEF Ask
    <3> QED
      BY <2>1, <3>1, SteadyMoves
  <2>4. CASE Await(q, e, "compare")
    <3>1. e.flow = Ctx(q).flow /\ Good(e, acct', Len(codes')) /\ Reached(e, req[q].at)
      BY <2>2, GoodGrown, SameReached, Here
    <3>2. Open(e, req[q].at)
      BY <3>1, Here DEF Open
    <3>3. "compare" \in Phases
      BY DEF Phases
    <3>4. Turn(q, e, Len(codes'))
      BY <1>3, <2>4, <3>1, <3>2, <3>3 DEF Turn
    <3> QED
      BY <2>1, <3>4, SteadyMoves
  <2> QED
    BY <1>3, <2>3, <2>4
<1> QED
  BY <1>2, <1>3 DEF SubmitPin

LEMMA ComparesHere ==
  ASSUME WfInv, NEW q \in Requests, Resumes(q, "compare")
  PROVE  req[q] # Idle /\ Ctx(q).pin \in 1..Len(codes)
<1>1. req[q] # Idle /\ Ctx(q).pin # 0 /\ Ctx(q) \in Context
  BY Here DEF Resumes, Running, Ctx
<1> QED
  BY <1>1, SameItself, PinSent

LEMMA WrongMoves ==
  ASSUME WfInv, NEW q \in Requests, Resumes(q, "compare"), NEW target \in Targets, WrongPin(q, target)
  PROVE  Moved(q)
<1>1. req[q] # Idle
  BY ComparesHere
<1>2. Steady
  BY ComparesHere, Counted, Unwritten DEF WrongPin, Steady
<1>3. Ask(q) \/ Lose(q)
  BY DEF WrongPin
<1>4. Ask(q) => \E d : Turn(q, d, Len(codes'))
  BY <1>1, <1>2, SteadyGrown, Here, SameItself, SamePause DEF Ask
<1> QED
  BY <1>1, <1>2, <1>3, <1>4, SteadyMoves

LEMMA RightKept ==
  ASSUME WfInv, NEW q \in Requests, Resumes(q, "compare"), NEW for, RightPin(q, for)
  PROVE  CodesKept
BY ComparesHere, Counted DEF RightPin

LEMMA SpentMoves ==
  ASSUME WfInv, NEW q \in Requests, Resumes(q, "compare"), NEW for, RightPin(q, for), AskSpent(q)
  PROVE  Moved(q)
<1>1. req[q] # Idle /\ Ctx(q) \in Context
  BY ComparesHere, Here
<1>2. Steady
  BY RightKept, Unwritten DEF AskSpent, Steady
<1>3. Same(Ctx(q), [Ctx(q) EXCEPT !.pin = 0])
  BY <1>1, SameItself, SameField
<1>4. \E d : Turn(q, d, Len(codes'))
  BY <1>1, <1>2, <1>3, SteadyGrown, SamePause DEF AskSpent
<1> QED
  BY <1>1, <1>2, <1>4, SteadyMoves

LEMMA AtHere ==
  ASSUME WfInv, NEW q \in Requests, NEW step, At(q, Schema, step)
  PROVE  /\ req[q] # Idle /\ StepHere(q) = step /\ Same(Ctx(q), Ctx(q)) /\ Site(Ctx(q).flow, req[q].at, step)
         /\ Ctx(q) \in Context /\ Earned(Ctx(q)) /\ req[q].at \in Nat /\ Ctx(q).flow \in Flows
<1>1. req[q] # Idle /\ StepHere(q) = step
  BY DEF At, StepHere, Ctx
<1> QED
  BY <1>1, Here, SameItself, Sites DEF StepHere, Good

LEMMA Steadily ==
  ASSUME WfInv, NEW q \in Requests, req[q] # Idle, Steady
  PROVE  /\ \A d : Same(Ctx(q), d) /\ Go(q, d) /\ StepHere(q) \notin Turning => Moved(q)
         /\ \A d : Same(Ctx(q), d) /\ Persist(q, d) => Moved(q)
         /\ Ask(q) \/ Lose(q) => Moved(q)
<1>1. Grown /\ Same(Ctx(q), Ctx(q))
  BY SteadyGrown, Here, SameItself
<1>2. ASSUME NEW d, Same(Ctx(q), d), Go(q, d), StepHere(q) \notin Turning
      PROVE  Moved(q)
  <2>1. \E e : Turn(q, e, Len(codes'))
    BY <1>1, <1>2, SameGo DEF StepHere
  <2> QED
    BY <2>1, SteadyMoves
<1>3. ASSUME NEW d, Same(Ctx(q), d), Persist(q, d)
      PROVE  Moved(q)
  <2>1. \E e : Turn(q, e, Len(codes'))
    BY <1>1, <1>3, SamePause
  <2> QED
    BY <2>1, SteadyMoves
<1> QED
  BY <1>1, <1>2, <1>3, SteadyMoves DEF Ask

LEMMA StillSteady ==
  ASSUME WfInv, UNCHANGED Shared
  PROVE  Steady /\ UNCHANGED <<acct, codes, failures, live, log>>
BY Unwritten DEF Shared, Steady

\* The run of a login was bound to the account, on this proof of who signs in.
Bound(c, d) ==
    /\ d \in Context /\ c.flow = "login" /\ d.flow = c.flow /\ d.sub = acct.id /\ d.cand = c.cand
    /\ d.pin <= c.pin /\ c.by \subseteq d.by /\ d.by \cap {"password", "link", "idp", "session"} # {}
    /\ \A f \in Fixed : f \in d.is <=> f \in c.is
    /\ \A f \in Rising : f \in c.is => f \in d.is

LEMMA BoundMoves ==
  ASSUME WfInv, NEW q \in Requests, req[q] # Idle, Steady, StepHere(q) \notin Turning,
         NEW d, Bound(Ctx(q), d), Go(q, d)
  PROVE  Moved(q)
<1> DEFINE c == Ctx(q)
<1>1. Earned(c) /\ c.flow \in Flows /\ req[q].at \in 1..Len(Schema[c.flow])
  BY Here DEF Good
<1>2. /\ d.flow = "login" /\ c.flow = "login" /\ c.by \subseteq d.by
      /\ d.by \cap {"password", "link", "idp", "session"} # {}
      /\ "otp" \in d.is <=> "otp" \in c.is
      /\ "silent" \in c.is => "silent" \in d.is
  BY DEF Bound, Fixed, Rising
<1>3. Earned(d)
  <2>1. Factored(d)
    BY <1>1, <1>2 DEF Earned, Factored, SilentFactor
  <2> QED
    BY <1>2, <2>1 DEF Earned, Identified, Mailed, Signed
<1>4. Like(c, d)
  BY <1>2 DEF Bound, Like
<1>5. Passed(d, req[q].at)
  BY <1>1, <1>2, Ordinary DEF StepHere
<1>6. \E e : Turn(q, e, Len(codes'))
  BY <1>2, <1>3, <1>4, <1>5, SteadyGrown, LikeGo
<1> QED
  BY <1>6, SteadyMoves

LEMMA InitLoginMoves ==
  ASSUME WfInv, NEW q \in Requests, InitLogin(q)
  PROVE  Moved(q)
<1> DEFINE c == Ctx(q)
           flags == {"silent"} \cup Given("otp", ~("silentMfa" \in policy.has))
                    \cup Given("emailConfirmed", "email" \in acct.factors)
           d == [With(c, flags) EXCEPT !.sub = acct.id, !.strat = "store", !.by = {"session"}]
<1>1. Runs(q, "init-login") /\ UNCHANGED Shared /\ "init-login" \notin Turning /\ At(q, Schema, "init-login")
  BY DEF InitLogin, Turning, Runs
<1>2. Go(q, c) \/ Go(q, d)
  BY DEF InitLogin
<1>3. /\ c \in Context /\ Earned(c) /\ c.flow = "login" /\ req[q].at = 1 /\ req[q] # Idle /\ "otp" \notin c.is
      /\ StepHere(q) \notin Turning
  <2>1. /\ c \in Context /\ Earned(c) /\ c.flow = "login" /\ req[q].at = 1 /\ req[q] # Idle
        /\ StepHere(q) \notin Turning
    BY <1>1, AtHere DEF Site
  <2>2. Reached(c, 1)
    BY <2>1, Here
  <2> QED
    BY <2>1, <2>2 DEF Reached, Ahead
<1>4. acct.id \in Nat
  BY DEF WfInv, TypeOK, Account
<1>5. flags \subseteq {"silent", "otp", "emailConfirmed"} /\ "silent" \in flags
      /\ ("otp" \in flags <=> "silentMfa" \notin policy.has)
  BY DEF Given
<1> HIDE DEF flags
<1>6. /\ d \in Context /\ d.flow = "login" /\ d.sub = acct.id /\ d.cand = c.cand /\ d.pin = c.pin
      /\ d.by = {"session"} /\ d.is = c.is \cup flags
  <2>1. flags \subseteq Flags
    BY <1>5 DEF Flags
  <2>2. "session" \in Proofs
    BY DEF Proofs
  <2> QED
    BY <1>3, <1>4, <2>1, <2>2 DEF With, Context
<1>7. d.pin <= c.pin
  BY <1>3, <1>6 DEF Context
<1>8. /\ \A f \in Fixed \ {"otp"} : f \in d.is <=> f \in c.is
      /\ \A f \in Rising : f \in c.is => f \in d.is
      /\ "silent" \in d.is /\ ("otp" \in d.is => "silentMfa" \notin policy.has)
  BY <1>3, <1>5, <1>6 DEF Fixed, Rising
<1>9. CASE Go(q, d)
  <2> SUFFICES Go(q, d) => Moved(q)
    BY <1>9
  <2> HIDE DEF d
  <2>1. Like(c, d)
    BY <1>3, <1>6, <1>7, <1>8 DEF Like
  <2>2. Earned(d)
    <3>1. Factored(d)
      BY <1>6, <1>8 DEF Factored, SilentFactor
    <3> QED
      BY <1>6, <3>1 DEF Earned, Identified, Mailed, Signed
  <2>3. Passed(d, req[q].at)
    BY <1>3, <1>6 DEF Passed
  <2>4. Go(q, d) => \E e : Turn(q, e, Len(codes'))
    BY <1>1, <1>3, <2>1, <2>2, <2>3, StillSteady, SteadyGrown, LikeGo
  <2> QED
    BY <1>1, <1>3, <2>4, StillSteady, SteadyMoves
<1> QED
  BY <1>1, <1>2, <1>9, Quiet

LEMMA BoundIs ==
  ASSUME NEW c \in Context, c.flow = "login", NEW d \in Context, d.flow = c.flow, d.sub = acct.id,
         d.cand = c.cand, d.pin \in {0, c.pin}, c.by \subseteq d.by,
         d.by \cap {"password", "link", "idp", "session"} # {},
         c.is \ {"pendingLink", "blocked"} \subseteq d.is, d.is \subseteq c.is \cup {"passwordInitial", "emailConfirmed"}
  PROVE  Bound(c, d)
<1>1. d.pin <= c.pin
  BY DEF Context
<1>2. \A f \in Fixed : f \in d.is <=> f \in c.is
  BY DEF Fixed
<1>3. \A f \in Rising : f \in c.is => f \in d.is
  BY DEF Rising
<1> QED
  BY <1>1, <1>2, <1>3 DEF Bound

LEMMA Binds ==
  ASSUME WfInv, NEW c \in Context
  PROVE  /\ /\ Bind(c) \in Context /\ Bind(c).flow = c.flow /\ Bind(c).sub = acct.id /\ Bind(c).cand = c.cand
            /\ Bind(c).pin = c.pin /\ Bind(c).by = c.by /\ c.is \subseteq Bind(c).is
            /\ Bind(c).is \subseteq c.is \cup {"passwordInitial", "emailConfirmed"}
         /\ LET d == FederatedBind(c) IN
            /\ d \in Context /\ d.flow = c.flow /\ d.sub = acct.id /\ d.cand = c.cand
            /\ d.pin = c.pin /\ d.by = c.by /\ c.is \subseteq d.is
            /\ d.is \subseteq c.is \cup {"passwordInitial", "emailConfirmed"}
<1>1. acct.id \in Nat /\ acct.pw \in Int
  BY DEF WfInv, TypeOK, Account
<1> DEFINE more == Given("passwordInitial", acct.initial) \cup Given("emailConfirmed", "email" \in acct.factors)
           less == Given("emailConfirmed", "email" \in acct.factors)
<1>2. more \subseteq {"passwordInitial", "emailConfirmed"} /\ less \subseteq {"passwordInitial", "emailConfirmed"}
  BY DEF Given
<1>3. more \subseteq Flags /\ less \subseteq Flags
  BY <1>2 DEF Flags
<1>4. Bind(c) = [c EXCEPT !.is = c.is \cup more, !.sub = acct.id, !.stamp = acct.pw]
  BY DEF Bind, With, Context
<1>5. FederatedBind(c) = [c EXCEPT !.is = c.is \cup less, !.sub = acct.id, !.strat = "store"]
  BY DEF FederatedBind, With, Context
<1> HIDE DEF more, less
<1>9. c.is \cup more \in SUBSET Flags /\ c.is \cup less \in SUBSET Flags
  BY <1>3 DEF Context
<1>6. /\ Bind(c) \in Context /\ Bind(c).flow = c.flow /\ Bind(c).sub = acct.id /\ Bind(c).cand = c.cand
      /\ Bind(c).pin = c.pin /\ Bind(c).by = c.by /\ Bind(c).is = c.is \cup more
  <2>1. Bind(c).flow = c.flow /\ Bind(c).sub = acct.id /\ Bind(c).cand = c.cand
    BY <1>4 DEF Context
  <2>2. Bind(c).pin = c.pin /\ Bind(c).by = c.by /\ Bind(c).is = c.is \cup more
    BY <1>4 DEF Context
  <2>3. Bind(c) \in Context
    BY <1>1, <1>4, <1>9 DEF Context
  <2> QED
    BY <2>1, <2>2, <2>3
<1> DEFINE d == FederatedBind(c)
<1>7. /\ d \in Context /\ d.flow = c.flow /\ d.sub = acct.id /\ d.cand = c.cand
      /\ d.pin = c.pin /\ d.by = c.by /\ d.is = c.is \cup less
  <2>1. d.flow = c.flow /\ d.sub = acct.id /\ d.cand = c.cand
    BY <1>5 DEF Context
  <2>2. d.pin = c.pin /\ d.by = c.by /\ d.is = c.is \cup less
    BY <1>5 DEF Context
  <2>3. d \in Context
    BY <1>1, <1>5, <1>9 DEF Context
  <2> QED
    BY <2>1, <2>2, <2>3
<1> HIDE DEF d
<1>8. /\ Bind(c).is \subseteq c.is \cup {"passwordInitial", "emailConfirmed"} /\ c.is \subseteq Bind(c).is
      /\ d.is \subseteq c.is \cup {"passwordInitial", "emailConfirmed"} /\ c.is \subseteq d.is
  BY <1>2, <1>6, <1>7
<1> QED
  BY <1>6, <1>7, <1>8 DEF d

LEMMA ProvedIs ==
  ASSUME NEW c \in Context, NEW proof \in Proofs
  PROVE  LET d == Proved(c, proof) IN
         /\ d \in Context /\ d.flow = c.flow /\ d.sub = c.sub /\ d.cand = c.cand /\ d.pin = c.pin
         /\ d.by = c.by \cup {proof} /\ d.is = c.is
BY DEF Proved, Context

LEMMA CredentialsMoves ==
  ASSUME WfInv, NEW q \in Requests, Credentials(q)
  PROVE  Moved(q)
<1> DEFINE c == Ctx(q)
           b == [Bind(c) EXCEPT !.strat = "store"]
           d == Proved(b, "password")
<1>1. /\ Runs(q, "credentials") /\ UNCHANGED Shared /\ "credentials" \notin Turning
      /\ At(q, Schema, "credentials")
  BY DEF Credentials, Turning, Runs
<1>2. c \in Context /\ c.flow = "login" /\ req[q] # Idle /\ StepHere(q) \notin Turning
  BY <1>1, AtHere DEF Site
<1>3. Ask(q) \/ Go(q, With(c, {"magicLink"})) \/ Go(q, d)
  BY DEF Credentials
<1>4. Same(c, With(c, {"magicLink"}))
  BY <1>1, RunsHere, SameFlag DEF Flags, Fixed
<1>5. /\ b \in Context /\ b.flow = c.flow /\ b.sub = acct.id /\ b.cand = c.cand
      /\ b.pin = c.pin /\ b.by = c.by /\ c.is \subseteq b.is
      /\ b.is \subseteq c.is \cup {"passwordInitial", "emailConfirmed"}
  BY <1>2, Binds DEF Context
<1> HIDE DEF b
<1>6. /\ d \in Context /\ d.flow = c.flow /\ d.sub = acct.id /\ d.cand = c.cand
      /\ d.pin = c.pin /\ d.by = c.by \cup {"password"} /\ d.is = b.is
  BY <1>5, ProvedIs DEF Proofs
<1> HIDE DEF d
<1>7. Bound(c, d)
  BY <1>2, <1>5, <1>6, BoundIs
<1>8. Go(q, d) => Moved(q)
  BY <1>1, <1>2, <1>7, StillSteady, BoundMoves
<1> QED
  BY <1>1, <1>3, <1>4, <1>8, Quiet

LEMMA StoredIs ==
  ASSUME NEW c \in Context
  PROVE  LET d == [c EXCEPT !.strat = "store"] IN
         /\ d \in Context /\ d.flow = c.flow /\ d.sub = c.sub /\ d.cand = c.cand /\ d.pin = c.pin
         /\ d.by = c.by /\ d.is = c.is /\ Same(c, d)
<1>1. Same(c, [c EXCEPT !.strat = "store"])
  BY SameItself, SameField
<1> QED
  BY <1>1 DEF Context

LEMMA MagicLinkVerifiedMoves ==
  ASSUME WfInv, NEW q \in Requests, MagicLinkVerified(q)
  PROVE  Moved(q)
<1> DEFINE c == Ctx(q)
           e == [c EXCEPT !.strat = "store"]
           b == Bind(e)
           d == Proved(b, "link")
<1>1. /\ Runs(q, "magic-link-verified") /\ UNCHANGED Shared /\ "magic-link-verified" \notin Turning
      /\ At(q, Schema, "magic-link-verified")
  BY DEF MagicLinkVerified, Turning, Runs
<1>2. c \in Context /\ c.flow = "login" /\ req[q] # Idle /\ StepHere(q) \notin Turning
  BY <1>1, AtHere DEF Site
<1>3. Go(q, Aborted(e)) \/ Go(q, d)
  BY DEF MagicLinkVerified
<1>4. /\ e \in Context /\ e.flow = c.flow /\ e.cand = c.cand /\ e.pin = c.pin
      /\ e.by = c.by /\ e.is = c.is /\ Same(c, e)
  BY <1>2, StoredIs
<1> HIDE DEF e
<1>5. Same(c, Aborted(e))
  BY <1>4, SameFields
<1>6. /\ b \in Context /\ b.flow = e.flow /\ b.sub = acct.id /\ b.cand = e.cand
      /\ b.pin = e.pin /\ b.by = e.by /\ e.is \subseteq b.is
      /\ b.is \subseteq e.is \cup {"passwordInitial", "emailConfirmed"}
  BY <1>4, Binds
<1> HIDE DEF b
<1>7. /\ d \in Context /\ d.flow = c.flow /\ d.sub = acct.id /\ d.cand = c.cand
      /\ d.pin = c.pin /\ d.by = c.by \cup {"link"} /\ d.is = b.is
  BY <1>4, <1>6, ProvedIs DEF Proofs
<1> HIDE DEF d
<1>8. Bound(c, d)
  BY <1>2, <1>4, <1>6, <1>7, BoundIs
<1>9. Go(q, d) => Moved(q)
  BY <1>1, <1>2, <1>8, StillSteady, BoundMoves
<1> QED
  BY <1>1, <1>3, <1>5, <1>9, Quiet

LEMMA RecoveryLinkVerifiedMoves ==
  ASSUME WfInv, NEW q \in Requests, RecoveryLinkVerified(q)
  PROVE  Moved(q)
<1> DEFINE c == Ctx(q)
           e == [c EXCEPT !.strat = "store"]
           d == [Verified(e, "link") EXCEPT !.sub = e.cand]
<1>1. /\ Runs(q, "recovery-link-verified") /\ UNCHANGED Shared /\ "recovery-link-verified" \notin Turning
      /\ At(q, Schema, "recovery-link-verified")
  BY DEF RecoveryLinkVerified, Turning, Runs
<1>2. /\ c \in Context /\ c.flow = "recovery" /\ req[q] # Idle /\ StepHere(q) \notin Turning /\ Earned(c)
      /\ c.flow \in Flows /\ req[q].at \in 1..Len(Schema[c.flow])
  BY <1>1, AtHere, Here DEF Site
<1>3. Go(q, Aborted(e)) \/ Go(q, d)
  BY DEF RecoveryLinkVerified
<1>4. /\ e \in Context /\ e.flow = c.flow /\ e.cand = c.cand /\ e.pin = c.pin
      /\ e.by = c.by /\ e.is = c.is /\ Same(c, e)
  BY <1>2, StoredIs
<1> HIDE DEF e
<1>5. Same(c, Aborted(e))
  BY <1>4, SameFields
<1>6. /\ d \in Context /\ d.flow = e.flow /\ d.sub = e.cand /\ d.cand = e.cand
      /\ d.pin = e.pin /\ d.by = e.by \cup {"link"} /\ d.is = e.is \cup {"otp"}
  <2>1. "otp" \in Flags /\ "link" \in Proofs
    BY DEF Flags, Proofs
  <2> QED
    BY <1>4, <2>1 DEF Verified, With, Proved, Context
<1> HIDE DEF d
<1>7. Like(c, d)
  <2>1. d.pin <= c.pin
    BY <1>2, <1>4, <1>6 DEF Context
  <2>2. /\ \A f \in Fixed \ {"otp"} : f \in d.is <=> f \in c.is
        /\ \A f \in Rising : f \in c.is => f \in d.is
    BY <1>4, <1>6
  <2> QED
    BY <1>2, <1>4, <1>6, <2>1, <2>2 DEF Like
<1>8. Earned(d)
  BY <1>2, <1>4, <1>6 DEF Earned, Factored, Identified, Mailed, Signed
<1>9. Passed(d, req[q].at)
  BY <1>2, <1>4, <1>6, Ordinary DEF StepHere
<1>10. "otp" \in d.is
  BY <1>6
<1>11. Go(q, d) => \E f : Turn(q, f, Len(codes'))
  BY <1>1, <1>2, <1>7, <1>8, <1>9, <1>10, StillSteady, SteadyGrown, LikeGo
<1> QED
  BY <1>1, <1>2, <1>3, <1>5, <1>11, Quiet, StillSteady, SteadyMoves

LEMMA SsoCallbackMoves ==
  ASSUME WfInv, NEW q \in Requests, SsoCallback(q)
  PROVE  Moved(q)
<1> DEFINE c == Ctx(q)
           b == FederatedBind(c)
           d == Proved(b, "idp")
           flags == {"pendingLink"} \cup Given("linkByCode", acct.initial)
           e == [With(c, flags) EXCEPT !.strat = "store", !.cand = acct.id]
<1>1. /\ Runs(q, "sso-callback") /\ UNCHANGED Shared /\ "sso-callback" \notin Turning
      /\ At(q, Schema, "sso-callback")
  BY DEF SsoCallback, Turning, Runs
<1>2. c \in Context /\ c.flow = "login" /\ req[q] # Idle /\ StepHere(q) \notin Turning /\ Same(c, c)
  BY <1>1, AtHere DEF Site
<1>3. Go(q, c) \/ Go(q, d) \/ Go(q, e)
  BY DEF SsoCallback
<1>4. Same(c, e)
  <2>1. flags \in SUBSET (Flags \ Fixed)
    BY GivenIs DEF Flags, Fixed
  <2>2. Same(c, With(c, flags)) /\ acct.id \in Nat
    BY <1>2, <2>1, SameWith DEF WfInv, TypeOK, Account
  <2> DEFINE w == With(c, flags)
             v == [w EXCEPT !.strat = "store"]
  <2>3. w \in Context
    BY <2>2 DEF Same
  <2>4. e = [v EXCEPT !.cand = acct.id]
    BY <2>3 DEF Context
  <2> HIDE DEF w, e
  <2>5. Same(c, v)
    BY <2>2, SameField DEF w
  <2> HIDE DEF v
  <2> QED
    BY <2>2, <2>4, <2>5, SameField
<1>5. /\ b \in Context /\ b.flow = c.flow /\ b.sub = acct.id /\ b.cand = c.cand
      /\ b.pin = c.pin /\ b.by = c.by /\ c.is \subseteq b.is
      /\ b.is \subseteq c.is \cup {"passwordInitial", "emailConfirmed"}
  BY <1>2, Binds
<1> HIDE DEF b, e
<1>6. /\ d \in Context /\ d.flow = c.flow /\ d.sub = acct.id /\ d.cand = c.cand
      /\ d.pin = c.pin /\ d.by = c.by \cup {"idp"} /\ d.is = b.is
  BY <1>5, ProvedIs DEF Proofs
<1> HIDE DEF d
<1>7. Bound(c, d)
  BY <1>2, <1>5, <1>6, BoundIs
<1>8. Go(q, d) => Moved(q)
  BY <1>1, <1>2, <1>7, StillSteady, BoundMoves
<1> QED
  BY <1>1, <1>2, <1>3, <1>4, <1>8, Quiet

LEMMA WithoutIs ==
  ASSUME NEW c \in Context, NEW flags
  PROVE  LET d == Without(c, flags) IN
         /\ d \in Context /\ d.flow = c.flow /\ d.sub = c.sub /\ d.cand = c.cand /\ d.pin = c.pin
         /\ d.by = c.by /\ d.is = c.is \ flags /\ d.method = c.method /\ d.enroll = c.enroll
BY DEF Without, Context

LEMMA WithIs ==
  ASSUME NEW c \in Context, NEW flags \in SUBSET Flags
  PROVE  LET d == With(c, flags) IN
         /\ d \in Context /\ d.flow = c.flow /\ d.sub = c.sub /\ d.cand = c.cand /\ d.pin = c.pin
         /\ d.by = c.by /\ d.is = c.is \cup flags /\ d.method = c.method /\ d.enroll = c.enroll
BY DEF With, Context

\* The account that proved control of the candidate's address.
LEMMA LinkedIs ==
  ASSUME WfInv, NEW c \in Context, c.flow = "login", NEW e \in Context, e.flow = c.flow,
         e.cand = c.cand, e.pin = c.pin, e.by = c.by, e.is \subseteq c.is,
         c.is \ {"pendingLink", "blocked"} \subseteq e.is
  PROVE  /\ Bound(c, Proved(Proved(FederatedBind(e), "password"), "idp"))
         /\ Bound(c, [Proved(FederatedBind(e), "idp") EXCEPT !.pin = 0])
<1> DEFINE b == FederatedBind(e)
<1>1. /\ b \in Context /\ b.flow = e.flow /\ b.sub = acct.id /\ b.cand = e.cand
      /\ b.pin = e.pin /\ b.by = e.by /\ e.is \subseteq b.is
      /\ b.is \subseteq e.is \cup {"passwordInitial", "emailConfirmed"}
  BY Binds
<1> SUFFICES /\ Bound(c, Proved(Proved(b, "password"), "idp"))
             /\ Bound(c, [Proved(b, "idp") EXCEPT !.pin = 0])
  OBVIOUS
<1> HIDE DEF b
<1>2. c.is \ {"pendingLink", "blocked"} \subseteq b.is /\ b.is \subseteq c.is \cup {"passwordInitial", "emailConfirmed"}
  BY <1>1
<1> DEFINE p == Proved(b, "password")
           d == Proved(p, "idp")
           f == Proved(b, "idp")
           g == [f EXCEPT !.pin = 0]
<1>3. "password" \in Proofs /\ "idp" \in Proofs
  BY DEF Proofs
<1>4. /\ p \in Context /\ p.flow = b.flow /\ p.sub = b.sub /\ p.cand = b.cand /\ p.pin = b.pin
      /\ p.by = b.by \cup {"password"} /\ p.is = b.is
  BY <1>1, <1>3, ProvedIs
<1> HIDE DEF p
<1>5. /\ d \in Context /\ d.flow = p.flow /\ d.sub = p.sub /\ d.cand = p.cand /\ d.pin = p.pin
      /\ d.by = p.by \cup {"idp"} /\ d.is = p.is
  BY <1>3, <1>4, ProvedIs
<1>6. /\ f \in Context /\ f.flow = b.flow /\ f.sub = b.sub /\ f.cand = b.cand /\ f.pin = b.pin
      /\ f.by = b.by \cup {"idp"} /\ f.is = b.is
  BY <1>1, <1>3, ProvedIs
<1> HIDE DEF d, f
<1>7. /\ g \in Context /\ g.flow = f.flow /\ g.sub = f.sub /\ g.cand = f.cand /\ g.pin = 0
      /\ g.by = f.by /\ g.is = f.is
  BY <1>6 DEF Context
<1> HIDE DEF g
<1>8. Bound(c, d)
  BY <1>1, <1>2, <1>4, <1>5, BoundIs
<1>9. Bound(c, g)
  BY <1>1, <1>2, <1>6, <1>7, BoundIs
<1> QED
  BY <1>8, <1>9 DEF p, d, f, g

LEMMA ProveControlMoves ==
  ASSUME WfInv, NEW q \in Requests, ProveControl(q)
  PROVE  Moved(q)
<1> DEFINE x == Ctx(q)
           c == Without(x, {"blocked"})
           given == Without(c, {"pendingLink"})
           d == Proved(Proved(FederatedBind(given), "password"), "idp")
           e == With(c, Given("blocked", ~CanSignIn))
<1>1. /\ Runs(q, "prove-control") /\ "prove-control" \notin Turning
      /\ At(q, Schema, "prove-control")
  BY DEF ProveControl, Turning, Runs
<1>2. x \in Context /\ x.flow = "login" /\ req[q] # Idle /\ StepHere(q) \notin Turning /\ Same(x, x)
  BY <1>1, AtHere DEF Site
<1>3. \/ Go(q, given) /\ UNCHANGED Shared
      \/ Ask(q) /\ UNCHANGED Shared
      \/ /\ acct' = [acct EXCEPT !.idp = TRUE] /\ Go(q, d)
         /\ UNCHANGED <<codes, failures, live, log>>
      \/ /\ Mint("link", acct.id)
         /\ Persist(q, Pinned(c)) /\ UNCHANGED <<acct, live, log>>
      \/ SubmitPin(q, "link", e)
  BY DEF ProveControl
<1>4. /\ c \in Context /\ c.flow = x.flow /\ c.cand = x.cand /\ c.pin = x.pin
      /\ c.by = x.by /\ c.is = x.is \ {"blocked"} /\ c.method = x.method /\ c.enroll = x.enroll
      /\ Same(x, c)
  BY <1>2, WithoutIs, SameWithout DEF Fixed, Rising
<1> HIDE DEF c
<1>5. /\ given \in Context /\ given.flow = c.flow /\ given.cand = c.cand /\ given.pin = c.pin
      /\ given.by = c.by /\ given.is = c.is \ {"pendingLink"} /\ Same(x, given)
  BY <1>4, WithoutIs, SameWithout DEF Fixed, Rising
<1> HIDE DEF given
<1>6. Bound(x, d)
  <2>1. given.is \subseteq x.is /\ x.is \ {"pendingLink", "blocked"} \subseteq given.is
    BY <1>4, <1>5
  <2> QED
    BY <1>2, <1>4, <1>5, <2>1, LinkedIs
<1>7. Same(x, e) /\ e.method = x.method /\ e.enroll = x.enroll /\ ("aborted" \in e.is => "aborted" \in x.is)
  <2>1. Given("blocked", ~CanSignIn) \in SUBSET Flags /\ "aborted" \notin Given("blocked", ~CanSignIn)
    BY DEF Given, Flags
  <2>2. e.method = x.method /\ e.enroll = x.enroll /\ e.is = c.is \cup Given("blocked", ~CanSignIn)
    BY <1>4, <2>1, WithIs
  <2>3. Same(x, e)
    BY <1>4, SameFlag DEF Flags, Fixed
  <2> QED
    BY <1>4, <2>1, <2>2, <2>3
<1> HIDE DEF d, e
<1>8. CASE acct' = [acct EXCEPT !.idp = TRUE] /\ Go(q, d) /\ UNCHANGED <<codes, failures, live, log>>
  <2>1. Steady
    BY <1>8, RowEdits, Unwritten DEF Steady
  <2> QED
    BY <1>2, <1>6, <1>8, <2>1, BoundMoves
<1>9. CASE Mint("link", acct.id) /\ Persist(q, Pinned(c)) /\ UNCHANGED <<acct, live, log>>
  <2>1. acct.id \in Nat
    BY DEF WfInv, TypeOK, Account
  <2>2. Steady /\ Len(codes') = Len(codes) + 1
    BY <1>9, <2>1, Minted, Unwritten DEF Steady
  <2> QED
    BY <1>2, <1>4, <1>9, <2>2, PinnedTurn
<1>10. CASE SubmitPin(q, "link", e)
  BY <1>2, <1>7, <1>10, SubmittedMoves DEF Targets
<1> QED
  BY <1>1, <1>3, <1>5, <1>8, <1>9, <1>10, Quiet

LEMMA ProvedControlMoves ==
  ASSUME WfInv, NEW q \in Requests, ProvedControl(q)
  PROVE  Moved(q)
<1> DEFINE x == Ctx(q)
           c == Without(x, {"pendingLink", "blocked"})
           d == [Proved(FederatedBind(c), "idp") EXCEPT !.pin = 0]
<1>1. /\ Resumes(q, "compare") /\ "prove-control" \notin Turning
      /\ At(q, Schema, "prove-control")
  BY DEF ProvedControl, Turning
<1>2. x \in Context /\ x.flow = "login" /\ req[q] # Idle /\ StepHere(q) \notin Turning /\ Same(x, x)
  BY <1>1, AtHere DEF Site
<1>3. \/ WrongPin(q, "link")
      \/ RightPin(q, x.cand) /\ AskSpent(q)
      \/ RightPin(q, x.cand) /\ UNCHANGED <<live, log>> /\ Lose(q) /\ UNCHANGED acct
      \/ RightPin(q, x.cand) /\ UNCHANGED <<live, log>> /\ Go(q, c) /\ UNCHANGED acct
      \/ RightPin(q, x.cand) /\ UNCHANGED <<live, log>> /\ acct' = [acct EXCEPT !.idp = TRUE] /\ Go(q, d)
  BY DEF ProvedControl
<1>4. /\ c \in Context /\ c.flow = x.flow /\ c.cand = x.cand /\ c.pin = x.pin
      /\ c.by = x.by /\ c.is = x.is \ {"pendingLink", "blocked"}
      /\ Same(x, c)
  BY <1>2, WithoutIs, SameWithout DEF Fixed, Rising
<1> HIDE DEF c
<1>5. Bound(x, d)
  <2>1. c.is \subseteq x.is /\ x.is \ {"pendingLink", "blocked"} \subseteq c.is
    BY <1>4
  <2> QED
    BY <1>2, <1>4, <2>1, LinkedIs
<1> HIDE DEF d
<1>6. CASE WrongPin(q, "link")
  BY <1>1, <1>6, WrongMoves DEF Targets
<1>7. CASE RightPin(q, x.cand) /\ AskSpent(q)
  BY <1>1, <1>7, SpentMoves
<1>8. CASE RightPin(q, x.cand) /\ UNCHANGED <<live, log>> /\ (Lose(q) \/ Go(q, c)) /\ UNCHANGED acct
  <2>1. Steady
    BY <1>1, <1>8, RightKept, Unwritten DEF Steady
  <2> QED
    BY <1>2, <1>4, <1>8, <2>1, Steadily
<1>9. CASE RightPin(q, x.cand) /\ UNCHANGED <<live, log>> /\ acct' = [acct EXCEPT !.idp = TRUE] /\ Go(q, d)
  <2>1. Steady
    BY <1>1, <1>9, RightKept, RowEdits, Unwritten DEF Steady
  <2> QED
    BY <1>2, <1>5, <1>9, <2>1, BoundMoves
<1> QED
  BY <1>3, <1>6, <1>7, <1>8, <1>9

\* A step whose outcome the later ones count on.
LEMMA PassedGo ==
  ASSUME WfInv, NEW q \in Requests, req[q] # Idle, Steady, NEW d, Same(Ctx(q), d), Passed(d, req[q].at), Go(q, d)
  PROVE  Moved(q)
<1>1. d.flow = Ctx(q).flow /\ Good(d, acct', Len(codes'))
  BY GoodGrown, SteadyGrown
<1>2. Reached(d, req[q].at)
  BY Here, SameReached
<1>3. Reached(d, req[q].at + 1)
  BY <1>2, Here, StepOver DEF Reached
<1>4. Turn(q, d, Len(codes'))
  BY <1>1, <1>3 DEF Turn
<1> QED
  BY <1>4, SteadyMoves

LEMMA DoesKeeps ==
  ASSUME WfInv, NEW q, NEW what, NEW c, Does(q, what, c),
         Entry([what |-> what, flow |-> c.flow, by |-> c.by, is |-> c.is \cap Told,
                dead |-> req[q].dead, sub |-> c.sub])
  PROVE  LogKept
BY DEF WfInv, Does, LogKept

LEMMA PlainDoes ==
  ASSUME WfInv, NEW q, NEW c,
         NEW what \in {"password", "terms", "accept", "activate", "unlock"}, Does(q, what, c)
  PROVE  LogKept
<1> DEFINE e == [what |-> what, flow |-> c.flow, by |-> c.by, is |-> c.is \cap Told,
                 dead |-> req[q].dead, sub |-> c.sub]
<1>1. e.what \notin {"session", "grant", "factor", "remove"}
  OBVIOUS
<1> HIDE DEF e
<1>2. Entry(e)
  BY <1>1 DEF Entry
<1> QED
  BY <1>2, DoesKeeps DEF e

LEMMA PrepareConsentsMoves ==
  ASSUME WfInv, NEW q \in Requests, PrepareConsents(q)
  PROVE  Moved(q)
<1> DEFINE c == Ctx(q)
           i == req[q].at
           d == With(c, Given("terms", ~acct.terms))
<1>1. /\ Runs(q, "prepare-consents") /\ UNCHANGED Shared /\ "prepare-consents" \notin Turning
      /\ At(q, Schema, "prepare-consents") /\ Go(q, d)
  BY DEF PrepareConsents, Turning, Runs
<1>2. /\ c \in Context /\ req[q] # Idle /\ Earned(c) /\ c.flow \in Flows /\ i \in 1..Len(Schema[c.flow])
      /\ Site(c.flow, i, "prepare-consents") /\ StepHere(q) \notin Turning /\ Reached(c, i) /\ i \in Nat
      /\ i # 0
  BY <1>1, AtHere, Here
<1>3. Reached(c, i + 1)
  <2>1. Passed(c, i)
    BY <1>2, Ordinary DEF StepHere
  <2> QED
    BY <1>2, <2>1, StepOver DEF Reached
<1>4. /\ d \in Context /\ d.flow = c.flow /\ d.sub = c.sub /\ d.cand = c.cand /\ d.pin = c.pin
      /\ d.by = c.by /\ c.is \subseteq d.is /\ d.is \subseteq c.is \cup {"terms"}
  <2>1. Given("terms", ~acct.terms) \in SUBSET Flags /\ Given("terms", ~acct.terms) \subseteq {"terms"}
    BY DEF Given, Flags
  <2> QED
    BY <1>2, <2>1, WithIs
<1> HIDE DEF d
<1>5. \A f : f # "terms" => (f \in d.is <=> f \in c.is)
  BY <1>4
<1>6. Steady /\ Grown
  BY <1>1, StillSteady, SteadyGrown
<1>7. Good(d, acct', Len(codes'))
  <2>1. Good(c, acct', Len(codes'))
    BY <1>1, <1>6, GoodGrown, AtHere
  <2>2. Earned(d)
    <3>1. Factored(d)
      BY <1>2, <1>4, <1>5 DEF Earned, Factored, SilentFactor
    <3>2. Identified(d) /\ Mailed(d) /\ Signed(d)
      BY <1>2, <1>4, <1>5 DEF Earned, Identified, Mailed, Signed
    <3>3. c.flow # "change"
      BY <1>2 DEF Site
    <3> QED
      BY <1>4, <3>1, <3>2, <3>3 DEF Earned
  <2>3. Owned(d, acct', Len(codes'))
    BY <1>4, <1>5, <2>1 DEF Good, Owned
  <2> QED
    BY <1>4, <2>2, <2>3 DEF Good
<1>8. Reached(d, i + 1)
  <2>1. /\ c.flow = "login" => i = 10
        /\ c.flow = "invite" => i = 7
        /\ c.flow = "recovery" => i = 13
        /\ c.flow = "signup" => i = 10
        /\ c.flow \in {"login", "invite", "recovery", "signup"}
    BY <1>2 DEF Site
  <2> HIDE DEF c, i
  <2>2. Upto(d, i + 1)
    BY <1>3, <1>4, <1>5, <2>1 DEF Reached, Upto, OutOfCodes
  <2>3. Ahead(d, i + 1)
    BY <1>3, <1>4, <1>5, <2>1 DEF Reached, Ahead
  <2> QED
    BY <2>2, <2>3 DEF Reached
<1>9. Turn(q, d, Len(codes'))
  BY <1>1, <1>4, <1>7, <1>8 DEF Turn
<1> QED
  BY <1>2, <1>6, <1>9, SteadyMoves

LEMMA TermsBumpPromptMoves ==
  ASSUME WfInv, NEW q \in Requests, TermsBumpPrompt(q)
  PROVE  Moved(q)
<1> DEFINE c == Ctx(q)
           d == With(c, {"decided"})
<1>1. Runs(q, "terms-bump-prompt") /\ UNCHANGED Shared /\ At(q, Schema, "terms-bump-prompt")
  BY DEF TermsBumpPrompt, Runs
<1>2. c \in Context /\ c.flow = "login" /\ req[q].at = 33 /\ req[q] # Idle
  BY <1>1, AtHere DEF Site
<1>3. Ask(q) \/ Go(q, d)
  BY DEF TermsBumpPrompt
<1>4. Same(c, d) /\ d.flow = "login" /\ "decided" \in d.is
  BY <1>1, <1>2, AtHere, SameFlag, WithIs DEF Flags, Fixed
<1> HIDE DEF d
<1>5. Passed(d, req[q].at)
  BY <1>2, <1>4 DEF Passed, Settled
<1>6. Steady
  BY <1>1, StillSteady
<1> QED
  BY <1>2, <1>3, <1>4, <1>5, <1>6, PassedGo, Steadily

LEMMA PersistConsentsMoves ==
  ASSUME WfInv, NEW q \in Requests, PersistConsents(q)
  PROVE  Moved(q)
<1> DEFINE c == Ctx(q)
<1>1. /\ Runs(q, "persist-consents") /\ "persist-consents" \notin Turning /\ At(q, Schema, "persist-consents")
      /\ UNCHANGED <<codes, failures, live>>
  BY DEF PersistConsents, Turning, Runs
<1>2. req[q] # Idle /\ StepHere(q) \notin Turning /\ Same(c, c)
  BY <1>1, AtHere
<1>3. CASE Lose(q) /\ UNCHANGED <<acct, log>>
  <2>1. Steady
    BY <1>1, <1>3, Unwritten DEF Steady
  <2> QED
    BY <1>2, <1>3, <2>1, Steadily
<1>4. CASE /\ acct' = IF Found(c) THEN [acct EXCEPT !.terms = TRUE] ELSE acct
           /\ Does(q, "terms", c) /\ Go(q, c)
  <2>1. RowKept
    BY <1>4, RowEdits, Unwritten
  <2>2. LogKept
    BY <1>4, PlainDoes
  <2>3. Steady
    BY <1>1, <2>1, <2>2, Unwritten DEF Steady
  <2> QED
    BY <1>2, <1>4, <2>3, Steadily
<1> QED
  BY <1>3, <1>4 DEF PersistConsents

LEMMA SetPasswordMoves ==
  ASSUME WfInv, NEW q \in Requests, SetPassword(q)
  PROVE  Moved(q)
<1> DEFINE c == Ctx(q)
           i == req[q].at
           w == With(Without(c, {"passwordInitial", "newPassword"}), {"passwordChanged"})
           done == [w EXCEPT !.form = Unset]
           decided == With(done, {"decided"})
<1>1. At(q, Schema, "create-password-form") /\ UNCHANGED <<codes, failures, live>>
  BY DEF SetPassword
<1>2. /\ c \in Context /\ req[q] # Idle /\ Earned(c) /\ c.flow \in Flows /\ i \in 1..Len(Schema[c.flow])
      /\ Site(c.flow, i, "create-password-form") /\ Reached(c, i) /\ i \in Nat /\ Same(c, c)
  BY <1>1, AtHere, Here
<1>3. \/ Lose(q) /\ UNCHANGED <<acct, log>>
      \/ /\ Found(c) /\ acct' = [acct EXCEPT !.pw = @ + 1, !.initial = FALSE]
         /\ Does(q, "password", c)
         /\ \/ Go(q, decided)
            \/ Ask(q)
            \/ Go(q, done) /\ Settled(c)
  BY DEF SetPassword, Settled
<1>4. CASE Lose(q) /\ UNCHANGED <<acct, log>>
  <2>1. Steady
    BY <1>1, <1>4, Unwritten DEF Steady
  <2> QED
    BY <1>2, <1>4, <2>1, Steadily
<1>5. CASE /\ Found(c) /\ acct' = [acct EXCEPT !.pw = @ + 1, !.initial = FALSE]
           /\ Does(q, "password", c)
           /\ \/ Go(q, decided)
              \/ Ask(q)
              \/ Go(q, done) /\ Settled(c)
  <2>1. Steady
    BY <1>1, <1>5, RowEdits, PlainDoes, Unwritten DEF Steady
  <2>2. acct'.pw > 0 /\ acct'.initial = FALSE
    <3>1. acct \in Account /\ acct.pw \in Nat
      BY DEF WfInv, TypeOK, Account
    <3>2. acct'.pw = acct.pw + 1 /\ acct'.initial = FALSE
      BY <1>5, <3>1 DEF Account
    <3> QED
      BY <3>1, <3>2, OneMore
  <2>3. c.sub # 0
    BY <1>5 DEF Found
  <2>4. ASSUME NEW d \in Context, d.flow = c.flow, d.sub = c.sub, d.cand = c.cand, d.pin = c.pin, d.by = c.by,
               (c.is \ {"passwordInitial", "newPassword"}) \cup {"passwordChanged"} \subseteq d.is,
               d.is \subseteq c.is \cup {"passwordChanged", "decided"}, Settled(d), Go(q, d)
        PROVE  Moved(q)
    <3>1. /\ \A f \in {"otp", "terms", "stepUp", "dispatched", "silent"} : f \in d.is <=> f \in c.is
          /\ "passwordChanged" \in d.is
          /\ "aborted" \in c.is => "aborted" \in d.is
      BY <2>4
    <3>2. Earned(d)
      <4>1. Factored(d)
        BY <1>2, <2>4, <3>1 DEF Earned, Factored, SilentFactor
      <4>2. Identified(d) /\ Mailed(d) /\ Signed(d)
        BY <1>2, <2>4, <3>1 DEF Earned, Identified, Mailed, Signed
      <4> QED
        BY <1>2, <2>4, <3>1, <4>1, <4>2 DEF Earned
    <3>3. Good(d, acct', Len(codes'))
      <4>1. Good(c, acct', Len(codes'))
        BY <1>2, <2>1, GoodGrown, SteadyGrown
      <4>2. Owned(d, acct', Len(codes'))
        BY <2>2, <2>3, <2>4, <4>1 DEF Good, Owned
      <4> QED
        BY <2>4, <3>2, <4>2 DEF Good
    <3>4. /\ c.flow = "login" => i = 12
          /\ c.flow = "invite" => i = 8
          /\ c.flow = "recovery" => i = 14
          /\ c.flow = "signup" => i = 11
          /\ c.flow \in {"login", "invite", "recovery", "signup"}
      BY <1>2 DEF Site
    <3> HIDE DEF c, i
    <3>5. Upto(d, i + 1)
      BY <1>2, <2>4, <3>1, <3>4 DEF Reached, Upto, OutOfCodes
    <3>6. Ahead(d, i + 1)
      BY <3>4, <2>4 DEF Ahead
    <3>7. Turn(q, d, Len(codes'))
      BY <2>4, <3>3, <3>5, <3>6 DEF Turn, Reached, c, i
    <3> QED
      BY <1>2, <2>1, <3>7, SteadyMoves
  <2>5. /\ w \in Context /\ w.flow = c.flow /\ w.sub = c.sub /\ w.cand = c.cand /\ w.pin = c.pin /\ w.by = c.by
        /\ w.is = (c.is \ {"passwordInitial", "newPassword"}) \cup {"passwordChanged"}
    <3> DEFINE v == Without(c, {"passwordInitial", "newPassword"})
    <3>1. /\ v \in Context /\ v.flow = c.flow /\ v.sub = c.sub /\ v.cand = c.cand /\ v.pin = c.pin /\ v.by = c.by
          /\ v.is = c.is \ {"passwordInitial", "newPassword"}
      BY <1>2, WithoutIs
    <3> HIDE DEF v
    <3>2. {"passwordChanged"} \in SUBSET Flags
      BY DEF Flags
    <3>3. LET x == With(v, {"passwordChanged"}) IN
          /\ x \in Context /\ x.flow = v.flow /\ x.sub = v.sub /\ x.cand = v.cand /\ x.pin = v.pin /\ x.by = v.by
          /\ x.is = v.is \cup {"passwordChanged"}
      BY <3>1, <3>2, WithIs
    <3> QED
      BY <3>1, <3>3 DEF v
  <2> HIDE DEF w
  <2>6. /\ done \in Context /\ done.flow = w.flow /\ done.sub = w.sub /\ done.cand = w.cand /\ done.pin = w.pin
        /\ done.by = w.by /\ done.is = w.is
    <3>1. Unset \in Int
      BY DEF Unset
    <3> QED
      BY <2>5, <3>1 DEF Context
  <2> HIDE DEF done
  <2>7. /\ decided \in Context /\ decided.flow = done.flow /\ decided.sub = done.sub /\ decided.cand = done.cand
        /\ decided.pin = done.pin /\ decided.by = done.by /\ decided.is = done.is \cup {"decided"}
    <3>1. {"decided"} \in SUBSET Flags
      BY DEF Flags
    <3> QED
      BY <2>6, <3>1, WithIs
  <2> HIDE DEF decided
  <2>8. Go(q, decided) => Moved(q)
    <3>1. Settled(decided)
      BY <2>7 DEF Settled
    <3>2. /\ (c.is \ {"passwordInitial", "newPassword"}) \cup {"passwordChanged"} \subseteq decided.is
          /\ decided.is \subseteq c.is \cup {"passwordChanged", "decided"}
      BY <2>5, <2>6, <2>7
    <3> QED
      BY <2>4, <2>5, <2>6, <2>7, <3>1, <3>2
  <2>9. Go(q, done) /\ Settled(c) => Moved(q)
    <3>1. Settled(c) => Settled(done)
      BY <2>5, <2>6 DEF Settled
    <3>2. /\ (c.is \ {"passwordInitial", "newPassword"}) \cup {"passwordChanged"} \subseteq done.is
          /\ done.is \subseteq c.is \cup {"passwordChanged", "decided"}
      BY <2>5, <2>6
    <3> QED
      BY <2>4, <2>5, <2>6, <3>1, <3>2
  <2>10. Ask(q) => Moved(q)
    BY <1>2, <2>1, Steadily
  <2> QED
    BY <1>5, <2>8, <2>9, <2>10
<1> QED
  BY <1>3, <1>4, <1>5

(* -------------------------- The e-mail channel -------------------------- *)
LEMMA AskChannelMoves ==
  ASSUME WfInv, NEW q \in Requests, AskChannel(q)
  PROVE  Moved(q)
<1> DEFINE c == Ctx(q)
           flags == {"asked"} \cup Given("decided", "terms" \in c.is)
           e == With(c, flags)
<1>1. Runs(q, "ask/email") /\ UNCHANGED <<acct, live, log>> /\ At(q, Schema, "ask/email")
  BY DEF AskChannel, Runs
<1>2. c \in Context /\ req[q] # Idle
  BY <1>1, AtHere
<1>3. \/ Ask(q) /\ UNCHANGED <<codes, failures>>
      \/ Mint("enroll", c.sub) /\ Persist(q, Pinned(e))
  <2>1. e.sub = c.sub
    BY <1>2 DEF With, Context
  <2> QED
    BY <2>1 DEF AskChannel
<1>4. Same(c, e)
  <2>1. flags \in SUBSET (Flags \ Fixed)
    BY GivenIs DEF Flags, Fixed
  <2> QED
    BY <1>1, <2>1, AtHere, SameWith
<1> HIDE DEF e
<1>5. CASE Ask(q) /\ UNCHANGED <<codes, failures>>
  BY <1>1, <1>2, <1>5, QuietAsk
<1>6. CASE Mint("enroll", c.sub) /\ Persist(q, Pinned(e))
  <2>1. c.sub \in Nat
    BY <1>2 DEF Context
  <2>2. Steady /\ Len(codes') = Len(codes) + 1
    BY <1>1, <1>6, <2>1, Minted, Unwritten DEF Steady
  <2> QED
    BY <1>2, <1>4, <1>6, <2>2, PinnedTurn
<1> QED
  BY <1>3, <1>5, <1>6

LEMMA VerifyChannelMoves ==
  ASSUME WfInv, NEW q \in Requests, VerifyChannel(q)
  PROVE  Moved(q)
<1> DEFINE c == Ctx(q)
<1>1. Runs(q, "verify/email") /\ At(q, Schema, "verify/email")
  BY DEF VerifyChannel, Runs
<1>2. c \in Context /\ req[q] # Idle /\ Same(c, c)
  BY <1>1, AtHere
<1>3. \/ SubmitPin(q, "enroll", c)
      \/ Ask(q) /\ UNCHANGED Shared
      \/ Mint("enroll", c.sub) /\ Persist(q, Pinned(c)) /\ UNCHANGED <<acct, live, log>>
  BY DEF VerifyChannel
<1>4. CASE SubmitPin(q, "enroll", c)
  BY <1>2, <1>4, SubmittedMoves DEF Targets
<1>5. CASE Ask(q) /\ UNCHANGED Shared
  BY <1>2, <1>5, QuietAsk DEF Shared
<1>6. CASE Mint("enroll", c.sub) /\ Persist(q, Pinned(c)) /\ UNCHANGED <<acct, live, log>>
  <2>1. c.sub \in Nat
    BY <1>2 DEF Context
  <2>2. Steady /\ Len(codes') = Len(codes) + 1
    BY <1>6, <2>1, Minted, Unwritten DEF Steady
  <2> QED
    BY <1>2, <1>6, <2>2, PinnedTurn
<1> QED
  BY <1>3, <1>4, <1>5, <1>6

LEMMA VerifiedChannelMoves ==
  ASSUME WfInv, NEW q \in Requests, VerifiedChannel(q)
  PROVE  Moved(q)
<1> DEFINE c == Ctx(q)
           w == With(c, {"emailConfirmed"})
           d == [w EXCEPT !.pin = 0]
<1>1. Resumes(q, "compare") /\ At(q, Schema, "verify/email")
  BY DEF VerifiedChannel
<1>2. c \in Context /\ req[q] # Idle /\ Same(c, c) /\ c.flow = "login" /\ req[q].at = 15
  BY <1>1, AtHere DEF Site
<1>3. Same(c, w) /\ w \in Context /\ w.flow = "login" /\ "emailConfirmed" \in w.is
  BY <1>2, SameFlag, WithIs DEF Flags, Fixed
<1>4. \/ WrongPin(q, "enroll")
      \/ RightPin(q, d.sub) /\ AskSpent(q)
      \/ RightPin(q, d.sub) /\ Lose(q) /\ UNCHANGED <<acct, live, log>>
      \/ /\ RightPin(q, d.sub) /\ acct' = [acct EXCEPT !.factors = @ \cup {"email"}]
         /\ Go(q, d) /\ UNCHANGED <<live, log>>
  BY DEF VerifiedChannel
<1> HIDE DEF w
<1>5. Same(c, d) /\ d.flow = "login" /\ "emailConfirmed" \in d.is
  BY <1>3, SameField DEF Context
<1> HIDE DEF d
<1>6. CASE WrongPin(q, "enroll")
  BY <1>1, <1>6, WrongMoves DEF Targets
<1>7. CASE RightPin(q, d.sub) /\ AskSpent(q)
  BY <1>1, <1>7, SpentMoves
<1>8. CASE RightPin(q, d.sub) /\ Lose(q) /\ UNCHANGED <<acct, live, log>>
  <2>1. Steady
    BY <1>1, <1>8, RightKept, Unwritten DEF Steady
  <2> QED
    BY <1>2, <1>8, <2>1, Steadily
<1>9. CASE /\ RightPin(q, d.sub) /\ acct' = [acct EXCEPT !.factors = @ \cup {"email"}]
           /\ Go(q, d) /\ UNCHANGED <<live, log>>
  <2>1. RowKept
    <3>1. acct \in Account /\ acct.factors \cup {"email"} \in SUBSET Transports
      BY DEF WfInv, TypeOK, Account, Transports
    <3>2. acct' = [acct EXCEPT !.factors = acct.factors \cup {"email"}]
      BY <1>9, <3>1 DEF Account
    <3> QED
      BY <3>1, <3>2, RowEdits
  <2>2. Steady
    BY <1>1, <1>9, <2>1, RightKept, Unwritten DEF Steady
  <2>3. Passed(d, req[q].at)
    BY <1>2, <1>5 DEF Passed, Confirmed
  <2> QED
    BY <1>2, <1>5, <1>9, <2>2, <2>3, PassedGo
<1> QED
  BY <1>4, <1>6, <1>7, <1>8, <1>9

(* ---------------------------- The pincode pair -------------------------- *)
LEMMA PincodeOf ==
  ASSUME WfInv, NEW c \in Context
  PROVE  PincodeTarget(c) \in Targets /\ Binding(c) \in Nat /\ RecoveryAccount \in {0, acct.id}
<1>1. acct.id \in Nat /\ c.sub \in Nat
  BY DEF WfInv, TypeOK, Account, Context
<1> QED
  BY <1>1 DEF PincodeTarget, Binding, RecoveryAccount, Targets

LEMMA PincodeSendMoves ==
  ASSUME WfInv, NEW q \in Requests, PincodeSend(q)
  PROVE  Moved(q)
<1> DEFINE c == Ctx(q)
<1>1. /\ At(q, Schema, "pincode-send") /\ "pincode-send" \notin Turning
      /\ Mint(PincodeTarget(c), Binding(c)) /\ Go(q, Pinned(c)) /\ UNCHANGED <<acct, live, log>>
  BY DEF PincodeSend, Turning, Runs
<1>2. c \in Context /\ req[q] # Idle /\ Same(c, c) /\ StepHere(q) \notin Turning
  BY <1>1, AtHere
<1>3. Steady /\ Len(codes') = Len(codes) + 1
  <2>1. Binding(c) \in Nat
    BY <1>2, PincodeOf
  <2> QED
    BY <1>1, <2>1, Minted, Unwritten DEF Steady
<1> QED
  BY <1>1, <1>2, <1>3, PinnedTurn

LEMMA PincodeCheckMoves ==
  ASSUME WfInv, NEW q \in Requests, PincodeCheck(q)
  PROVE  Moved(q)
<1> DEFINE c == Ctx(q)
<1>1. Runs(q, "pincode-check") /\ At(q, Schema, "pincode-check") /\ "pincode-check" \notin Turning
  BY DEF PincodeCheck, Turning, Runs
<1>2. c \in Context /\ req[q] # Idle /\ Same(c, c) /\ PincodeTarget(c) \in Targets
  BY <1>1, AtHere, PincodeOf
<1>3. \/ SubmitPin(q, PincodeTarget(c), c)
      \/ UNCHANGED Shared /\ \/ Ask(q)
                             \/ Go(q, [c EXCEPT !.pin = 0])
                             \/ Go(q, Unpicked(c))
                             \/ Lose(q)
                             \/ Go(q, Aborted(c))
  BY DEF PincodeCheck
<1>4. Same(c, [c EXCEPT !.pin = 0]) /\ Same(c, Unpicked(c)) /\ Same(c, Aborted(c))
  BY <1>2, SameField, SameFields
<1> QED
  BY <1>1, <1>2, <1>3, <1>4, SubmittedMoves, Quiet

LEMMA PincodeCheckedMoves ==
  ASSUME WfInv, NEW q \in Requests, PincodeChecked(q)
  PROVE  Moved(q)
<1> DEFINE c == Ctx(q)
           sub == IF PincodeTarget(c) = "recovery" THEN RecoveryAccount ELSE c.sub
           v == Without(Verified(c, "code"), {"riskEvaluated"})
           d == [v EXCEPT !.pin = 0, !.sub = sub]
<1>1. Resumes(q, "compare") /\ At(q, Schema, "pincode-check") /\ "pincode-check" \notin Turning
  BY DEF PincodeChecked, Turning
<1>2. /\ c \in Context /\ req[q] # Idle /\ PincodeTarget(c) \in Targets /\ Earned(c) /\ req[q].at \in Nat
      /\ Site(c.flow, req[q].at, "pincode-check") /\ Open(c, req[q].at) /\ StepHere(q) = "pincode-check"
      /\ c.flow \in Flows /\ req[q].at \in 1..Len(Schema[c.flow])
  BY <1>1, AtHere, Here, PincodeOf
<1>3. \/ WrongPin(q, PincodeTarget(c))
      \/ RightPin(q, Binding(c)) /\ AskSpent(q)
      \/ RightPin(q, Binding(c)) /\ Go(q, d) /\ UNCHANGED <<acct, live, log>>
  BY DEF PincodeChecked
<1>4. c.flow # "change" /\ (c.flow = "invite" => req[q].at > 9)
  BY <1>2 DEF Site
<1>5. c.flow = "recovery" \/ sub = c.sub
  <2>1. c.flow \in {"login", "invite", "addMfa"} => c.method = "email"
    BY <1>2 DEF Open, StepHere
  <2>2. c.method # None => PincodeTarget(c) = "mfa"
    BY DEF PincodeTarget
  <2>3. c.method = None /\ c.flow = "signup" => PincodeTarget(c) # "recovery"
    BY DEF PincodeTarget
  <2>4. "email" # None
    BY DEF None
  <2> QED
    BY <1>2, <1>4, <2>1, <2>2, <2>3, <2>4 DEF Flows
<1>6. sub \in Nat /\ sub \in {c.sub, acct.id, 0}
  <2>1. RecoveryAccount \in {0, acct.id} /\ acct.id \in Nat /\ c.sub \in Nat
    BY <1>2, PincodeOf DEF WfInv, TypeOK, Account, Context
  <2> QED
    BY <2>1
<1> HIDE DEF sub
<1>7. /\ v \in Context /\ v.flow = c.flow /\ v.cand = c.cand /\ v.by = c.by \cup {"code"} /\ "otp" \in v.is
      /\ \A f \in (Fixed \cup Rising) \ {"otp"} : f \in v.is <=> f \in c.is
  BY <1>2, VerifiedIs DEF Proofs, Answered
<1> HIDE DEF v
<1>8. /\ d \in Context /\ d.flow = v.flow /\ d.cand = v.cand /\ d.pin = 0 /\ d.sub = sub
      /\ d.by = v.by /\ d.is = v.is
  BY <1>6, <1>7 DEF Context
<1> HIDE DEF d
<1>9. Like(c, d)
  <2>1. d.pin <= c.pin
    BY <1>2, <1>8 DEF Context
  <2> QED
    BY <1>5, <1>6, <1>7, <1>8, <2>1 DEF Like
<1>10. Earned(d)
  <2>1. /\ "code" \in d.by /\ d.flow = c.flow /\ c.by \subseteq d.by
        /\ \A f \in {"terms", "dispatched", "passwordChanged", "newPassword"} : f \in d.is <=> f \in c.is
    BY <1>7, <1>8 DEF Fixed, Rising
  <2>2. Factored(d)
    BY <2>1 DEF Factored, Factor
  <2>3. Identified(d)
    BY <1>2, <1>5, <1>8, <2>1 DEF Earned, Identified
  <2>4. Mailed(d) /\ Signed(d)
    BY <1>2, <1>5, <1>8, <2>1 DEF Earned, Mailed, Signed
  <2> QED
    BY <1>4, <2>1, <2>2, <2>3, <2>4 DEF Earned
<1>11. CASE WrongPin(q, PincodeTarget(c))
  BY <1>1, <1>2, <1>11, WrongMoves
<1>12. CASE RightPin(q, Binding(c)) /\ AskSpent(q)
  BY <1>1, <1>12, SpentMoves
<1>13. CASE RightPin(q, Binding(c)) /\ Go(q, d) /\ UNCHANGED <<acct, live, log>>
  <2>1. Steady
    BY <1>1, <1>13, RightKept, Unwritten DEF Steady
  <2>2. Passed(d, req[q].at)
    <3>1. d.flow = c.flow /\ StepHere(q) \notin Turning
      BY <1>1, <1>2, <1>7, <1>8
    <3> QED
      BY <1>2, <3>1, Ordinary DEF StepHere
  <2>3. "otp" \in d.is /\ (c.flow = "invite" => req[q].at > 3)
    BY <1>2, <1>4, <1>7, <1>8
  <2>4. \E e : Turn(q, e, Len(codes'))
    BY <1>2, <1>9, <1>10, <1>13, <2>1, <2>2, <2>3, SteadyGrown, LikeGo
  <2> QED
    BY <1>2, <2>1, <2>4, SteadyMoves
<1> QED
  BY <1>3, <1>11, <1>12, <1>13

LEMMA DeviceTrustMoves ==
  ASSUME WfInv, NEW q \in Requests, DeviceTrust(q)
  PROVE  Moved(q)
<1>1. At(q, Schema, "device-trust") /\ "device-trust" \notin Turning /\ UNCHANGED <<codes, failures, live, log>>
  BY DEF DeviceTrust, Turning, Runs
<1>2. req[q] # Idle /\ StepHere(q) \notin Turning /\ Same(Ctx(q), Ctx(q))
  BY <1>1, AtHere
<1>3. \/ Lose(q) /\ UNCHANGED acct
      \/ acct' = [acct EXCEPT !.trusted = TRUE] /\ Go(q, Ctx(q))
  BY DEF DeviceTrust
<1>4. Steady
  BY <1>1, <1>3, RowEdits, Unwritten DEF Steady
<1> QED
  BY <1>2, <1>3, <1>4, Steadily

LEMMA UnlockAccountMoves ==
  ASSUME WfInv, NEW q \in Requests, UnlockAccount(q)
  PROVE  Moved(q)
<1>1. At(q, Schema, "unlock-account") /\ "unlock-account" \notin Turning /\ UNCHANGED <<codes, failures, live>>
  BY DEF UnlockAccount, Turning, Runs
<1>2. req[q] # Idle /\ StepHere(q) \notin Turning /\ Same(Ctx(q), Ctx(q))
  BY <1>1, AtHere
<1>3. \/ Lose(q) /\ UNCHANGED <<acct, log>>
      \/ acct' = [acct EXCEPT !.locked = FALSE] /\ Does(q, "unlock", Ctx(q)) /\ Go(q, Ctx(q))
  BY DEF UnlockAccount
<1>4. Steady
  <2>1. RowKept
    <3>1. UNCHANGED acct \/ acct' = [acct EXCEPT !.locked = FALSE]
      BY <1>3
    <3>2. CASE UNCHANGED acct
      BY <3>2, Unwritten
    <3>3. CASE acct' = [acct EXCEPT !.locked = FALSE]
      BY <3>3, RowEdits
    <3> QED
      BY <3>1, <3>2, <3>3
  <2>2. LogKept
    BY <1>3, PlainDoes, Unwritten
  <2> QED
    BY <1>1, <2>1, <2>2, Unwritten DEF Steady
<1> QED
  BY <1>2, <1>3, <1>4, Steadily

(* ------------------------------ Enrolment ------------------------------- *)
\* What a run of add-mfa that reached a change of factors has proved.
LEMMA ManageProved ==
  ASSUME WfInv, NEW q \in Requests, NEW step \in {"enroll-confirm", "confirm-remove-mfa"}, At(q, Schema, step),
         Ctx(q).flow = "addMfa", "stepUp" \in Ctx(q).is
  PROVE  Ctx(q).by \cap {"code", "totp", "password"} # {}
<1> DEFINE c == Ctx(q)
<1>1. Site(c.flow, req[q].at, step) /\ Reached(c, req[q].at) /\ Open(c, req[q].at) /\ Earned(c) /\ StepHere(q) = step
      /\ req[q].at \in Nat
  BY AtHere, Here
<1>2. req[q].at > 12
  BY <1>1 DEF Site
<1>3. "aborted" \notin c.is
  BY <1>1 DEF Open, StepHere
<1>4. "otp" \in c.is
  BY <1>1, <1>2, <1>3 DEF Reached, Upto, OutOfCodes
<1> QED
  BY <1>1, <1>4 DEF Earned, Factored

LEMMA ManagedEntry ==
  ASSUME WfInv, NEW q \in Requests, NEW step \in {"enroll-confirm", "confirm-remove-mfa"}, At(q, Schema, step),
         NEW what \in {"factor", "remove"}, Does(q, what, Ctx(q))
  PROVE  LogKept
<1> DEFINE c == Ctx(q)
           e == [what |-> what, flow |-> c.flow, by |-> c.by, is |-> c.is \cap Told,
                 dead |-> req[q].dead, sub |-> c.sub]
<1>1. e.what \notin {"session", "grant"} /\ e.by = c.by /\ e.flow = c.flow /\ e.is \subseteq c.is
  OBVIOUS
<1> HIDE DEF e
<1>2. e.flow = "addMfa" /\ "stepUp" \in e.is => Has(e, {"code", "totp", "password"})
  BY <1>1, ManageProved DEF Has
<1>3. Entry(e)
  BY <1>1, <1>2 DEF Entry
<1> QED
  BY <1>3, DoesKeeps DEF e

LEMMA ConfirmMoves ==
  ASSUME WfInv, NEW q \in Requests, At(q, Schema, "enroll-confirm"), CodesKept,
         ConfirmEnrolledFactor(q, Ctx(q))
  PROVE  Moved(q)
<1> DEFINE c == Ctx(q)
           d == [Verified(With(c, {"done"}), "enrolled") EXCEPT !.pin = 0]
<1>1. /\ c \in Context /\ req[q] # Idle /\ Earned(c) /\ StepHere(q) = "enroll-confirm" /\ "enroll-confirm" \notin Turning
      /\ Site(c.flow, req[q].at, "enroll-confirm") /\ Open(c, req[q].at) /\ c.flow \in Flows
      /\ req[q].at \in 1..Len(Schema[c.flow]) /\ req[q].at \in Nat
  BY AtHere, Here DEF Turning
<1>2. c.flow \in {"login", "addMfa"} \/ (c.flow = "invite" /\ req[q].at > 3)
  BY <1>1 DEF Site
<1>3. CASE Lose(q) /\ UNCHANGED <<acct, log>>
  <2>1. Steady
    BY <1>3, Unwritten DEF Steady
  <2> QED
    BY <1>1, <1>3, <2>1, Steadily
<1>4. CASE /\ acct' = [acct EXCEPT !.factors = @ \cup {c.enroll}]
           /\ Does(q, "factor", c) /\ Go(q, d)
  <2>1. c.enroll \in Transports
    BY <1>1 DEF Open, Context, StepHere
  <2>2. RowKept
    <3>1. acct \in Account /\ acct.factors \cup {c.enroll} \in SUBSET Transports
      BY <2>1 DEF WfInv, TypeOK, Account
    <3>2. acct' = [acct EXCEPT !.factors = acct.factors \cup {c.enroll}]
      BY <1>4, <3>1 DEF Account
    <3> QED
      BY <3>1, <3>2, RowEdits
  <2>3. Steady
    BY <1>4, <2>2, ManagedEntry DEF Steady
  <2>4. Answered(c, d, "enrolled")
    BY <1>1, VerifiedIs DEF Proofs
  <2>5. Go(q, d)
    BY <1>4
  <2> HIDE DEF d
  <2>6. /\ d \in Context /\ d.flow = c.flow /\ d.sub = c.sub /\ d.by = c.by \cup {"enrolled"} /\ "otp" \in d.is
        /\ \A f \in {"terms", "stepUp", "dispatched", "passwordChanged", "newPassword"} : f \in d.is <=> f \in c.is
    BY <2>4 DEF Answered, Fixed, Rising
  <2>7. Earned(d)
    <3>1. Factored(d)
      <4>1. c.flow = "addMfa" /\ "stepUp" \in c.is => c.by \cap {"code", "totp", "password"} # {}
        BY ManageProved
      <4>2. "enrolled" \in d.by /\ "enrolled" \in Factor /\ c.by \subseteq d.by
        BY <2>6 DEF Factor
      <4> QED
        BY <1>2, <2>6, <4>1, <4>2 DEF Factored
    <3> QED
      BY <1>1, <1>2, <2>6, <3>1 DEF Earned, Identified, Mailed, Signed
  <2>8. Like(c, d)
    BY <2>4 DEF Like, Answered
  <2>9. Passed(d, req[q].at)
    BY <1>1, <2>6, Ordinary DEF StepHere
  <2>10. c.flow = "invite" => req[q].at > 3
    BY <1>2
  <2>11. \E e : Turn(q, e, Len(codes'))
    BY <1>1, <2>3, <2>5, <2>6, <2>7, <2>8, <2>9, <2>10, SteadyGrown, LikeGo
  <2> QED
    BY <1>1, <2>3, <2>11, SteadyMoves
<1> QED
  BY <1>3, <1>4 DEF ConfirmEnrolledFactor

LEMMA EnrollSendMoves ==
  ASSUME WfInv, NEW q \in Requests, EnrollSend(q)
  PROVE  Moved(q)
<1> DEFINE c == Ctx(q)
<1>1. /\ At(q, Schema, "enroll-send") /\ "enroll-send" \notin Turning
      /\ Mint("enroll", c.sub) /\ Go(q, Pinned(c)) /\ UNCHANGED <<acct, live, log>>
  BY DEF EnrollSend, Turning, Runs
<1>2. c \in Context /\ req[q] # Idle /\ Same(c, c) /\ StepHere(q) \notin Turning
  BY <1>1, AtHere
<1>3. Steady /\ Len(codes') = Len(codes) + 1
  <2>1. c.sub \in Nat
    BY <1>2 DEF Context
  <2> QED
    BY <1>1, <2>1, Minted, Unwritten DEF Steady
<1> QED
  BY <1>1, <1>2, <1>3, PinnedTurn

LEMMA EnrollConfirmMoves ==
  ASSUME WfInv, NEW q \in Requests, EnrollConfirm(q)
  PROVE  Moved(q)
<1> DEFINE c == Ctx(q)
<1>1. Runs(q, "enroll-confirm") /\ At(q, Schema, "enroll-confirm") /\ "enroll-confirm" \notin Turning
  BY DEF EnrollConfirm, Turning, Runs
<1>2. c \in Context /\ req[q] # Idle /\ Same(c, c) /\ StepHere(q) \notin Turning
  BY <1>1, AtHere
<1>3. \/ Ask(q) /\ UNCHANGED Shared
      \/ (\E next \in EnrollExits(c) : Go(q, next)) /\ UNCHANGED Shared
      \/ Mint("enroll", c.sub) /\ Go(q, Pinned(c)) /\ UNCHANGED <<acct, live, log>>
      \/ SubmitPin(q, "enroll", c)
      \/ ConfirmEnrolledFactor(q, c) /\ UNCHANGED <<codes, failures>>
  BY DEF EnrollConfirm
<1>4. CASE (\E next \in EnrollExits(c) : Go(q, next)) /\ UNCHANGED Shared
  <2>1. PICK d \in EnrollExits(c) : Go(q, d)
    BY <1>4
  <2>2. d \in {Cleared(c), Aborted(Cleared(c)), Verified(With(Cleared(c), {"done"}), "skip")}
    BY DEF EnrollExits
  <2>3. d = Verified(With(Cleared(c), {"done"}), "skip") => Mode(c) = "optional" \/ d \in {Cleared(c), Aborted(Cleared(c))}
    BY <2>1 DEF EnrollExits
  <2>4. Same(c, Cleared(c)) /\ Same(c, Aborted(Cleared(c)))
    BY <1>2, SameFields
  <2>5. CASE d \in {Cleared(c), Aborted(Cleared(c))}
    BY <1>1, <1>4, <2>1, <2>4, <2>5, Quiet
  <2>6. CASE d \notin {Cleared(c), Aborted(Cleared(c))}
    BY <1>1, <1>4, <2>1, <2>2, <2>3, <2>6, ExitsMove
  <2> QED
    BY <2>5, <2>6
<1>5. CASE Mint("enroll", c.sub) /\ Go(q, Pinned(c)) /\ UNCHANGED <<acct, live, log>>
  <2>1. c.sub \in Nat
    BY <1>2 DEF Context
  <2>2. Steady /\ Len(codes') = Len(codes) + 1
    BY <1>5, <2>1, Minted, Unwritten DEF Steady
  <2> QED
    BY <1>2, <1>5, <2>2, PinnedTurn
<1>6. CASE SubmitPin(q, "enroll", c)
  BY <1>2, <1>6, SubmittedMoves DEF Targets
<1>7. CASE ConfirmEnrolledFactor(q, c) /\ UNCHANGED <<codes, failures>>
  BY <1>1, <1>7, ConfirmMoves, Unwritten
<1> QED
  BY <1>1, <1>3, <1>4, <1>5, <1>6, <1>7, Quiet

LEMMA EnrollConfirmedMoves ==
  ASSUME WfInv, NEW q \in Requests, EnrollConfirmed(q)
  PROVE  Moved(q)
<1>1. Resumes(q, "compare") /\ At(q, Schema, "enroll-confirm")
  BY DEF EnrollConfirmed
<1>2. \/ WrongPin(q, "enroll")
      \/ RightPin(q, Ctx(q).sub) /\ AskSpent(q)
      \/ RightPin(q, Ctx(q).sub) /\ ConfirmEnrolledFactor(q, Ctx(q))
  BY DEF EnrollConfirmed
<1>3. "enroll" \in Targets
  BY DEF Targets
<1> QED
  BY <1>1, <1>2, <1>3, WrongMoves, SpentMoves, RightKept, ConfirmMoves

(* -------------------------- How a run finishes -------------------------- *)
\* A run that reaches the end of its workflow has proved what it asks for.
LEMMA SignInEntry ==
  ASSUME WfInv, NEW q \in Requests, NEW step, At(q, Schema, step),
         \/ step \in {"issue", "mint-authz-code", "finalize-auto-login"} /\ Ctx(q).sub # 0
         \/ step = "finish-change-password",
         NEW what \in {"session", "grant"}, Does(q, what, Ctx(q))
  PROVE  LogKept
<1> DEFINE c == Ctx(q)
           i == req[q].at
           e == [what |-> what, flow |-> c.flow, by |-> c.by, is |-> c.is \cap Told,
                 dead |-> req[q].dead, sub |-> c.sub]
<1>1. Site(c.flow, i, step) /\ Reached(c, i) /\ Earned(c) /\ i \in Nat /\ c.flow \in Flows
  BY AtHere, Here
<1>2. /\ e.what = what /\ e.flow = c.flow /\ e.by = c.by
      /\ \A f \in {"silent", "terms", "decided", "emailConfirmed"} : f \in e.is <=> f \in c.is
  BY DEF Told
<1> HIDE DEF e
<1>3. /\ step \in {"issue", "mint-authz-code"} => c.flow = "login" /\ i > 33
      /\ step = "finish-change-password" => c.flow = "change"
      /\ step = "finalize-auto-login" => \/ c.flow = "invite" /\ i > 23
                                         \/ c.flow = "recovery" /\ i > 14
                                         \/ c.flow = "signup" /\ i > 11
  BY <1>1 DEF Site
<1> HIDE DEF c, i
<1>4. CASE c.flow = "login" /\ i > 33 /\ c.sub # 0
  <2>1. Confirmed(c) /\ Challenged(c) /\ Settled(c)
    BY <1>1, <1>4 DEF Reached, Upto
  <2>2. c.by \cap {"password", "link", "idp", "session"} # {}
    BY <1>1, <1>4 DEF Earned, Identified
  <2>3. policy.mfa = "required" => c.by \cap Factor # {} \/ SilentFactor(c)
    BY <1>1, <1>4, <2>1 DEF Challenged, Earned, Factored
  <2>4. Confirmed(e) /\ Settled(e) /\ (SilentFactor(c) => SilentFactor(e))
    BY <1>2, <2>1 DEF Confirmed, Settled, SilentFactor
  <2>5. Entry(e)
    BY <1>2, <1>4, <2>2, <2>3, <2>4 DEF Entry, Has
  <2> QED
    BY <2>5, DoesKeeps DEF e, c
<1>5. CASE c.flow = "invite" /\ i > 23 /\ c.sub # 0
  <2>1. Challenged(c) /\ Settled(c) /\ "dispatched" \in c.is
    BY <1>1, <1>5 DEF Reached, Upto
  <2>2. "inbox" \in c.by
    BY <1>1, <1>5, <2>1 DEF Earned, Mailed
  <2>3. policy.mfa = "required" => c.by \cap Factor # {} \/ SilentFactor(c)
    BY <1>1, <1>5, <2>1 DEF Challenged, Earned, Factored
  <2>4. Settled(e) /\ (SilentFactor(c) => SilentFactor(e))
    BY <1>2, <2>1 DEF Settled, SilentFactor
  <2>5. Entry(e)
    BY <1>2, <1>5, <2>2, <2>3, <2>4 DEF Entry, Has
  <2> QED
    BY <2>5, DoesKeeps DEF e, c
<1>6. CASE (c.flow = "recovery" /\ i > 14) \/ (c.flow = "signup" /\ i > 11)
  <2>1. Settled(c) /\ "otp" \in c.is
    BY <1>1, <1>6 DEF Reached, Upto
  <2>2. c.by \cap {"code", "link"} # {}
    BY <1>1, <1>6, <2>1 DEF Earned, Factored
  <2>3. Settled(e)
    BY <1>2, <2>1 DEF Settled
  <2>4. Entry(e)
    BY <1>2, <1>6, <2>2, <2>3 DEF Entry, Has
  <2> QED
    BY <2>4, DoesKeeps DEF e, c
<1>7. CASE c.flow = "change"
  <2>1. Settled(e)
    BY <1>1, <1>2, <1>7 DEF Earned, Settled
  <2>2. Entry(e)
    BY <1>2, <1>7, <2>1 DEF Entry
  <2> QED
    BY <2>2, DoesKeeps DEF e, c
<1> QED
  BY <1>3, <1>4, <1>5, <1>6, <1>7 DEF c

LEMMA FinishMoves ==
  ASSUME WfInv, NEW q \in Requests, Issue(q) \/ FinalizeAutoLogin(q) \/ FinishChangePassword(q)
  PROVE  Moved(q)
<1> DEFINE c == Ctx(q)
<1>1. PICK step \in {"issue", "finalize-auto-login", "finish-change-password"} :
        /\ At(q, Schema, step)
        /\ \/ IssueSession(q, c) /\ (c.sub # 0 \/ step = "finish-change-password")
           \/ Lose(q) /\ UNCHANGED <<live, log>>
  BY DEF Issue, FinalizeAutoLogin, FinishChangePassword, Runs, Found
<1>2. UNCHANGED <<acct, codes, failures>>
  BY DEF Issue, FinalizeAutoLogin, FinishChangePassword
<1>3. step \notin Turning
  BY DEF Turning
<1>4. req[q] # Idle /\ StepHere(q) \notin Turning /\ Same(c, c)
  BY <1>1, <1>3, AtHere
<1>5. LogKept
  <2>1. CASE Does(q, "session", c) /\ (c.sub # 0 \/ step = "finish-change-password")
    BY <1>1, <2>1, SignInEntry
  <2>2. CASE UNCHANGED log
    BY <2>2, Unwritten
  <2> QED
    BY <1>1, <2>1, <2>2 DEF IssueSession
<1>6. Steady
  BY <1>2, <1>5, Unwritten DEF Steady
<1>7. Lose(q) \/ Go(q, c)
  BY <1>1 DEF IssueSession
<1> QED
  BY <1>4, <1>6, <1>7, Steadily

LEMMA MintAuthzCodeMoves ==
  ASSUME WfInv, NEW q \in Requests, MintAuthzCode(q)
  PROVE  Moved(q)
<1> DEFINE c == Ctx(q)
<1>1. /\ At(q, Schema, "mint-authz-code") /\ "mint-authz-code" \notin Turning
      /\ UNCHANGED <<acct, codes, failures, live>>
  BY DEF MintAuthzCode, Turning, Runs
<1>2. req[q] # Idle /\ StepHere(q) \notin Turning /\ Same(c, c)
  BY <1>1, AtHere
<1>3. \/ Go(q, Aborted(c)) /\ UNCHANGED log
      \/ c.sub # 0 /\ Does(q, "grant", c) /\ Go(q, c)
  BY DEF MintAuthzCode, Found
<1>4. LogKept
  BY <1>1, <1>3, SignInEntry, Unwritten
<1>5. Steady
  BY <1>1, <1>4, Unwritten DEF Steady
<1>6. Same(c, Aborted(c))
  BY <1>2, SameFields
<1> QED
  BY <1>2, <1>3, <1>5, <1>6, Steadily

LEMMA ConfirmRemoveMfaMoves ==
  ASSUME WfInv, NEW q \in Requests, ConfirmRemoveMfa(q)
  PROVE  Moved(q)
<1> DEFINE c == Ctx(q)
<1>1. /\ At(q, Schema, "confirm-remove-mfa") /\ "confirm-remove-mfa" \notin Turning
      /\ UNCHANGED <<codes, failures, live>>
  BY DEF ConfirmRemoveMfa, Turning, Runs
<1>2. req[q] # Idle /\ StepHere(q) \notin Turning /\ Same(c, c)
  BY <1>1, AtHere
<1>3. \/ (Ask(q) \/ Go(q, Aborted(c))) /\ UNCHANGED <<acct, log>>
      \/ acct' = [acct EXCEPT !.factors = @ \ {c.enroll}] /\ Does(q, "remove", c) /\ Go(q, c)
  BY DEF ConfirmRemoveMfa
<1>4. Same(c, Aborted(c))
  BY <1>2, SameFields
<1>5. CASE (Ask(q) \/ Go(q, Aborted(c))) /\ UNCHANGED <<acct, log>>
  <2>1. Steady
    BY <1>1, <1>5, Unwritten DEF Steady
  <2> QED
    BY <1>2, <1>4, <1>5, <2>1, Steadily
<1>6. CASE acct' = [acct EXCEPT !.factors = @ \ {c.enroll}] /\ Does(q, "remove", c) /\ Go(q, c)
  <2>1. RowKept
    <3>1. acct \in Account /\ acct.factors \ {c.enroll} \in SUBSET Transports
      BY DEF WfInv, TypeOK, Account
    <3>2. acct' = [acct EXCEPT !.factors = acct.factors \ {c.enroll}]
      BY <1>6, <3>1 DEF Account
    <3> QED
      BY <3>1, <3>2, RowEdits
  <2>2. Steady
    BY <1>1, <1>6, <2>1, ManagedEntry, Unwritten DEF Steady
  <2> QED
    BY <1>2, <1>6, <2>2, Steadily
<1> QED
  BY <1>3, <1>5, <1>6

LEMMA ManagePasswordReauthMoves ==
  ASSUME WfInv, NEW q \in Requests, ManagePasswordReauth(q)
  PROVE  Moved(q)
<1> DEFINE c == Ctx(q)
<1>1. /\ Runs(q, "manage-password-reauth") /\ At(q, Schema, "manage-password-reauth")
      /\ UNCHANGED Shared
  BY DEF ManagePasswordReauth, Turning, Runs
<1>2. c \in Context /\ req[q] # Idle /\ Same(c, c) /\ c.flow = "addMfa" /\ req[q].at = 12
  BY <1>1, AtHere DEF Site
<1>3. \/ Ask(q) \/ Go(q, Aborted(c)) \/ Go(q, Verified(c, "password"))
  BY DEF ManagePasswordReauth
<1>4. Steady
  BY <1>1, StillSteady
<1>5. Same(c, Aborted(c)) /\ Aborted(c).flow = "addMfa" /\ "aborted" \in Aborted(c).is
  BY <1>2, SameFields, WithIs DEF Aborted, Flags
<1>6. Passed(Aborted(c), req[q].at)
  BY <1>2, <1>5 DEF Passed, OutOfCodes
<1> DEFINE d == Verified(c, "password")
<1>7. Answered(c, d, "password")
  BY <1>2, VerifiedIs DEF Proofs
<1> HIDE DEF d
<1>8. Passed(d, req[q].at)
  BY <1>2, <1>7 DEF Passed, OutOfCodes, Answered
<1>9. Go(q, d) => \E e : Turn(q, e, Len(codes'))
  BY <1>2, <1>4, <1>7, <1>8, SteadyGrown, AnsweredGo
<1> QED
  BY <1>2, <1>3, <1>4, <1>5, <1>6, <1>9, Steadily, PassedGo, SteadyMoves DEF d

(* -------------------------- Invite and signup --------------------------- *)
LEMMA NewAccountIs ==
  ASSUME WfInv, acct' = NewAccount
  PROVE  RowKept /\ acct'.id = acct.born + 1 /\ acct'.born = acct.born + 1 /\ acct.born + 1 \in Nat
<1>1. acct \in Account /\ acct.id <= acct.born /\ acct.id \in Nat /\ acct.born \in Nat
  BY DEF WfInv, TypeOK, Account
<1>2. acct.born + 1 \in Nat /\ acct.born <= acct.born + 1 /\ acct.born + 1 # acct.id /\ acct.born + 1 > acct.born
  BY <1>1
<1> DEFINE b == NewAccount
<1>3. b.id = acct.born + 1 /\ b.born = acct.born + 1 /\ b.active = FALSE
  BY DEF NewAccount, Absent
<1>4. b \in Account
  BY <1>2 DEF NewAccount, Absent, Account
<1> HIDE DEF b
<1>5. Grows(acct, b)
  BY <1>1, <1>2, <1>3, <1>4 DEF Grows
<1>6. acct' = b
  BY DEF b
<1> QED
  BY <1>2, <1>3, <1>5, <1>6 DEF RowKept

LEMMA CreateUserMoves ==
  ASSUME WfInv, NEW q \in Requests, CreateUser(q)
  PROVE  Moved(q)
<1> DEFINE c == Ctx(q)
           n == Len(codes')
<1>1. At(q, Schema, "create-user") /\ UNCHANGED <<codes, failures, live, log>>
  BY DEF CreateUser, Runs
<1>2. /\ c \in Context /\ req[q] # Idle /\ Earned(c) /\ c.flow = "invite" /\ req[q].at = 2 /\ Reached(c, 2)
      /\ StepHere(q) = "create-user"
  <2>1. /\ c \in Context /\ req[q] # Idle /\ Earned(c) /\ c.flow = "invite" /\ req[q].at = 2
        /\ StepHere(q) = "create-user"
    BY <1>1, AtHere DEF Site
  <2> QED
    BY <2>1, Here
<1>3. "otp" \notin c.is /\ "passwordChanged" \notin c.is
  BY <1>2 DEF Reached, Ahead
<1>4. acct.id \in Nat /\ acct.born \in Nat /\ acct.nonce + 1 \in Nat /\ acct.nonce \in Nat /\ acct.id <= acct.born
  <2>1. acct.id \in Nat /\ acct.born \in Nat /\ acct.nonce \in Nat /\ acct.id <= acct.born
    BY DEF WfInv, TypeOK, Account
  <2> QED
    BY <2>1
<1>5. ASSUME Steady, NEW d \in Context, d.flow = c.flow, d.is = c.is, d.by = c.by, d.pin = c.pin, d.cand = c.cand,
             d.sub <= acct'.born
      PROVE  Good(d, acct', n) /\ Reached(d, 2) /\ Reached(d, 3)
  <2>1. Good(c, acct', n)
    BY <1>2, <1>5, GoodGrown, SteadyGrown, SameItself
  <2>2. Earned(d)
    BY <1>2, <1>3, <1>5 DEF Earned, Factored, Identified, Mailed, Signed
  <2>3. Owned(d, acct', n)
    BY <1>2, <1>3, <1>5, <2>1 DEF Good, Owned
  <2>4. Reached(d, 2) /\ Reached(d, 3)
    BY <1>2, <1>3, <1>5 DEF Reached, Upto, Ahead
  <2> QED
    BY <1>5, <2>2, <2>3, <2>4 DEF Good
<1>6. CASE acct' = [acct EXCEPT !.nonce = @ + 1] /\ Go(q, [c EXCEPT !.sub = acct.id, !.nonce = acct.nonce + 1])
  <2> DEFINE d == [c EXCEPT !.sub = acct.id, !.nonce = acct.nonce + 1]
  <2>1. Steady
    BY <1>1, <1>6, RowEdits, Unwritten DEF Steady
  <2>2. acct'.born = acct.born
    BY <1>6 DEF WfInv, TypeOK, Account
  <2>3. /\ d.flow = c.flow /\ d.is = c.is /\ d.by = c.by /\ d.pin = c.pin /\ d.cand = c.cand
        /\ d.sub = acct.id
    BY <1>2 DEF Context
  <2>4. d \in Context
    BY <1>2, <1>4 DEF Context
  <2>5. Go(q, d)
    BY <1>6
  <2> HIDE DEF d
  <2>6. Good(d, acct', n) /\ Reached(d, 3)
    BY <1>4, <1>5, <2>1, <2>2, <2>3, <2>4
  <2>7. Turn(q, d, n)
    BY <1>2, <2>3, <2>5, <2>6 DEF Turn
  <2> QED
    BY <1>2, <2>1, <2>7, SteadyMoves
<1>7. CASE Lose(q) /\ UNCHANGED acct
  <2>1. Steady
    BY <1>1, <1>7, Unwritten DEF Steady
  <2> QED
    BY <1>2, <1>7, <2>1, Steadily
<1>8. CASE acct' = NewAccount /\ Await(q, [c EXCEPT !.sub = acct.born + 1, !.nonce = 1], "pend")
  <2> DEFINE d == [c EXCEPT !.sub = acct.born + 1, !.nonce = 1]
  <2>1. RowKept /\ acct'.born = acct.born + 1 /\ acct.born + 1 \in Nat
    BY <1>8, NewAccountIs
  <2>2. Steady
    BY <1>1, <2>1, Unwritten DEF Steady
  <2>3. /\ d.flow = c.flow /\ d.is = c.is /\ d.by = c.by /\ d.pin = c.pin /\ d.cand = c.cand
        /\ d.sub = acct.born + 1
    BY <1>2 DEF Context
  <2>4. d \in Context
    BY <1>2, <2>1 DEF Context
  <2>5. Await(q, d, "pend")
    BY <1>8
  <2> HIDE DEF d
  <2>6. Good(d, acct', n) /\ Reached(d, 2)
    <3>1. d.sub <= acct'.born
      BY <2>1, <2>3
    <3> QED
      BY <1>5, <2>2, <2>3, <2>4, <3>1
  <2>7. Schema[d.flow][2].step = "create-user"
    BY <1>2, <2>3 DEF StepHere
  <2>8. Open(d, 2)
    BY <2>7 DEF Open
  <2>9. "pend" \in Phases /\ "pend" # "compare"
    BY DEF Phases
  <2>10. Turn(q, d, n)
    BY <1>2, <2>3, <2>5, <2>6, <2>7, <2>8, <2>9 DEF Turn
  <2> QED
    BY <1>2, <2>2, <2>10, SteadyMoves
<1> QED
  BY <1>6, <1>7, <1>8 DEF CreateUser

LEMMA MarkPendingMoves ==
  ASSUME WfInv, NEW q \in Requests, MarkPending(q)
  PROVE  Moved(q)
<1> DEFINE c == Ctx(q)
<1>1. req[q] # Idle /\ req[q].phase = "pend" /\ UNCHANGED <<codes, failures, live, log>>
  BY DEF MarkPending, Resumes
<1>2. StepHere(q) = "create-user" /\ c \in Context /\ Same(c, c)
  BY <1>1, Here, SameItself DEF Running, StepHere, Ctx
<1>3. StepHere(q) \notin Turning
  BY <1>2 DEF Turning
<1>4. \/ acct' = [acct EXCEPT !.pending = TRUE, !.nonce = c.nonce] /\ Go(q, c)
      \/ Lose(q) /\ UNCHANGED acct
  BY DEF MarkPending
<1>5. c.nonce \in Nat
  BY <1>2 DEF Context
<1>6. RowKept
  BY <1>4, <1>5, RowEdits, Unwritten
<1>7. Steady
  BY <1>1, <1>6, Unwritten DEF Steady
<1> QED
  BY <1>1, <1>2, <1>3, <1>4, <1>7, Steadily

LEMMA SendInviteEmailMoves ==
  ASSUME WfInv, NEW q \in Requests, SendInviteEmail(q)
  PROVE  Moved(q)
<1> DEFINE c == Ctx(q)
           w == With(c, {"dispatched"})
           d == [w EXCEPT !.strat = "store", !.by = {"inbox"}]
<1>1. At(q, Schema, "send-email") /\ UNCHANGED Shared
  BY DEF SendInviteEmail, Runs
<1>2. /\ c \in Context /\ req[q] # Idle /\ Earned(c) /\ c.flow = "invite" /\ req[q].at = 3 /\ Reached(c, 3)
      /\ Same(c, c)
  <2>1. c \in Context /\ req[q] # Idle /\ Earned(c) /\ c.flow = "invite" /\ req[q].at = 3 /\ Same(c, c)
    BY <1>1, AtHere DEF Site
  <2> QED
    BY <2>1, Here
<1>3. "otp" \notin c.is /\ "passwordChanged" \notin c.is
  BY <1>2 DEF Reached, Ahead
<1>4. Steady /\ Grown
  BY <1>1, StillSteady, SteadyGrown
<1>5. ("dispatched" \in c.is /\ Go(q, c)) \/ Persist(q, d)
  BY DEF SendInviteEmail
<1>6. ASSUME "dispatched" \in c.is, Go(q, c)
      PROVE  Moved(q)
  <2>1. Passed(c, 3)
    BY <1>2, <1>6 DEF Passed
  <2> QED
    BY <1>2, <1>4, <1>6, <2>1, PassedGo
<1>7. /\ w \in Context /\ w.flow = c.flow /\ w.sub = c.sub /\ w.cand = c.cand /\ w.pin = c.pin
      /\ w.is = c.is \cup {"dispatched"}
  <2>1. {"dispatched"} \in SUBSET Flags
    BY DEF Flags
  <2> QED
    BY <1>2, <2>1, WithIs
<1> HIDE DEF w
<1>8. /\ d \in Context /\ d.flow = w.flow /\ d.sub = w.sub /\ d.cand = w.cand /\ d.pin = w.pin
      /\ d.by = {"inbox"} /\ d.is = w.is
  <2>1. {"inbox"} \in SUBSET Proofs
    BY DEF Proofs
  <2> QED
    BY <1>7, <2>1 DEF Context
<1> HIDE DEF d
<1>9. "otp" \notin d.is /\ "passwordChanged" \notin d.is
  BY <1>3, <1>7, <1>8
<1>10. Good(d, acct', Len(codes'))
  <2>1. Good(c, acct', Len(codes'))
    BY <1>2, <1>4, GoodGrown
  <2>2. Earned(d)
    BY <1>2, <1>7, <1>8, <1>9 DEF Earned, Factored, Identified, Mailed, Signed
  <2>3. Owned(d, acct', Len(codes'))
    BY <1>7, <1>8, <1>9, <2>1 DEF Good, Owned
  <2> QED
    BY <1>8, <2>2, <2>3 DEF Good
<1>11. Reached(d, 3)
  BY <1>2, <1>7, <1>8, <1>9 DEF Reached, Upto, Ahead
<1>12. Persist(q, d) => Turn(q, d, Len(codes'))
  BY <1>2, <1>7, <1>8, <1>10, <1>11 DEF Turn
<1> QED
  BY <1>2, <1>4, <1>5, <1>6, <1>12, SteadyMoves

LEMMA InitInviteAcceptMoves ==
  ASSUME WfInv, NEW q \in Requests, InitInviteAccept(q)
  PROVE  Moved(q)
<1> DEFINE c == Ctx(q)
           d == With(c, {"newPassword"})
<1>1. At(q, Schema, "init-invite-accept") /\ UNCHANGED Shared /\ Go(q, d)
  BY DEF InitInviteAccept, Runs
<1>2. c \in Context /\ req[q] # Idle /\ c.flow = "invite" /\ req[q].at = 4 /\ Same(c, c)
  BY <1>1, AtHere DEF Site
<1>3. Same(c, d) /\ d.flow = "invite" /\ "newPassword" \in d.is
  BY <1>2, SameFlag, WithIs DEF Flags, Fixed
<1> HIDE DEF d
<1>4. Passed(d, 4)
  BY <1>3 DEF Passed
<1> QED
  BY <1>1, <1>2, <1>3, <1>4, StillSteady, PassedGo

LEMMA UnsetPendingInvitationMoves ==
  ASSUME WfInv, NEW q \in Requests, UnsetPendingInvitation(q)
  PROVE  Moved(q)
<1> DEFINE c == Ctx(q)
<1>1. /\ At(q, Schema, "unset-pending-invitation") /\ "unset-pending-invitation" \notin Turning
      /\ UNCHANGED <<codes, failures, live>>
  BY DEF UnsetPendingInvitation, Turning, Runs
<1>2. req[q] # Idle /\ StepHere(q) \notin Turning /\ Same(c, c)
  BY <1>1, AtHere
<1>3. \/ acct' = [acct EXCEPT !.pending = FALSE] /\ Does(q, "accept", c) /\ Go(q, c)
      \/ Lose(q) /\ UNCHANGED <<acct, log>>
  BY DEF UnsetPendingInvitation
<1>4. Steady
  <2>1. RowKept
    <3>1. UNCHANGED acct \/ acct' = [acct EXCEPT !.pending = FALSE]
      BY <1>3
    <3>2. CASE UNCHANGED acct
      BY <3>2, Unwritten
    <3>3. CASE acct' = [acct EXCEPT !.pending = FALSE]
      BY <3>3, RowEdits
    <3> QED
      BY <3>1, <3>2, <3>3
  <2>2. LogKept
    BY <1>3, PlainDoes, Unwritten
  <2> QED
    BY <1>1, <2>1, <2>2, Unwritten DEF Steady
<1> QED
  BY <1>2, <1>3, <1>4, Steadily

LEMMA ActivateUserMoves ==
  ASSUME WfInv, NEW q \in Requests, ActivateUser(q)
  PROVE  Moved(q)
<1> DEFINE c == Ctx(q)
           b == [acct EXCEPT !.active = TRUE]
<1>1. At(q, Schema, "activate-user") /\ "activate-user" \notin Turning /\ UNCHANGED <<codes, failures, live>>
  BY DEF ActivateUser, Turning, Runs
<1>2. /\ req[q] # Idle /\ StepHere(q) \notin Turning /\ Same(c, c) /\ Site(c.flow, req[q].at, "activate-user")
      /\ Reached(c, req[q].at) /\ req[q].at \in Nat /\ Owned(c, acct, Len(codes))
  BY <1>1, AtHere, Here DEF Good
<1>3. c.flow \in {"invite", "signup"} /\ "passwordChanged" \in c.is
  BY <1>2 DEF Site, Reached, Upto
<1>4. \/ Found(c) /\ acct' = b /\ Does(q, "activate", c) /\ Go(q, c)
      \/ Lose(q) /\ UNCHANGED <<acct, log>>
  BY DEF ActivateUser
<1>5. CASE Lose(q) /\ UNCHANGED <<acct, log>>
  <2>1. Steady
    BY <1>1, <1>5, Unwritten DEF Steady
  <2> QED
    BY <1>2, <1>5, <2>1, Steadily
<1>6. CASE Found(c) /\ acct' = b /\ Does(q, "activate", c) /\ Go(q, c)
  <2>1. acct.pw > 0 /\ ~acct.initial
    BY <1>2, <1>3, <1>6 DEF Owned, Found
  <2>2. b \in Account /\ b.id = acct.id /\ b.born = acct.born /\ b.pw = acct.pw /\ b.initial = acct.initial
    BY DEF WfInv, TypeOK, Account
  <2>3. acct' = b
    BY <1>6
  <2> HIDE DEF b
  <2>4. RowKept
    BY <2>1, <2>2, <2>3, RowEdited
  <2>5. Steady
    BY <1>1, <1>6, <2>4, PlainDoes, Unwritten DEF Steady
  <2> QED
    BY <1>2, <1>6, <2>5, Steadily
<1> QED
  BY <1>4, <1>5, <1>6

LEMMA SignupCreateUserMoves ==
  ASSUME WfInv, NEW q \in Requests, SignupCreateUser(q)
  PROVE  Moved(q)
<1> DEFINE c == Ctx(q)
           w == With(c, {"newPassword"})
           d == [w EXCEPT !.sub = acct.born + 1]
<1>1. /\ At(q, Schema, "signup-create-user") /\ "signup-create-user" \notin Turning
      /\ UNCHANGED <<codes, failures, live, log>>
  BY DEF SignupCreateUser, Turning, Runs
<1>2. /\ c \in Context /\ req[q] # Idle /\ StepHere(q) \notin Turning /\ Same(c, c) /\ Earned(c)
      /\ c.flow = "signup" /\ req[q].at = 8 /\ Reached(c, 8) /\ c.flow \in Flows
      /\ req[q].at \in 1..Len(Schema[c.flow])
  <2>1. /\ c \in Context /\ req[q] # Idle /\ StepHere(q) \notin Turning /\ Same(c, c) /\ Earned(c)
        /\ c.flow = "signup" /\ req[q].at = 8
    BY <1>1, AtHere DEF Site
  <2> QED
    BY <2>1, Here
<1>3. "passwordChanged" \notin c.is
  BY <1>2 DEF Reached, Ahead
<1>4. (Go(q, c) /\ UNCHANGED acct) \/ (acct' = NewAccount /\ Go(q, d))
  BY DEF SignupCreateUser
<1>5. CASE Go(q, c) /\ UNCHANGED acct
  <2>1. Steady
    BY <1>1, <1>5, Unwritten DEF Steady
  <2> QED
    BY <1>2, <1>5, <2>1, Steadily
<1>6. CASE acct' = NewAccount /\ Go(q, d)
  <2>1. RowKept /\ acct'.born = acct.born + 1 /\ acct.born + 1 \in Nat /\ acct'.id = acct.born + 1
    BY <1>6, NewAccountIs
  <2>2. Steady /\ Grown
    BY <1>1, <2>1, Unwritten, SteadyGrown DEF Steady
  <2>3. /\ w \in Context /\ w.flow = c.flow /\ w.sub = c.sub /\ w.cand = c.cand /\ w.pin = c.pin
        /\ w.by = c.by /\ w.is = c.is \cup {"newPassword"}
    <3>1. {"newPassword"} \in SUBSET Flags
      BY DEF Flags
    <3> QED
      BY <1>2, <3>1, WithIs
  <2>4. Go(q, d)
    BY <1>6
  <2> HIDE DEF w
  <2>5. /\ d \in Context /\ d.flow = w.flow /\ d.sub = acct.born + 1 /\ d.cand = w.cand /\ d.pin = w.pin
        /\ d.by = w.by /\ d.is = w.is
    BY <2>1, <2>3 DEF Context
  <2> HIDE DEF d
  <2>6. Good(d, acct', Len(codes'))
    <3>1. Good(c, acct', Len(codes'))
      BY <1>2, <2>2, GoodGrown
    <3>2. Earned(d)
      BY <1>2, <2>3, <2>5 DEF Earned, Factored, Identified, Mailed, Signed
    <3>3. d.sub <= acct'.born
      BY <2>1, <2>5
    <3>4. "passwordChanged" \notin d.is
      BY <1>3, <2>3, <2>5
    <3>5. Owned(d, acct', Len(codes'))
      BY <2>3, <2>5, <3>1, <3>3, <3>4 DEF Good, Owned
    <3> QED
      BY <2>5, <3>2, <3>5 DEF Good
  <2>7. Reached(d, 9)
    <3>1. Passed(c, 8)
      BY <1>2, Ordinary DEF StepHere
    <3>2. Reached(c, 8 + 1)
      BY <1>2, <3>1, StepOver DEF Reached
    <3>3. Reached(c, 9)
      BY <3>2
    <3>4. /\ \A f : f # "newPassword" => (f \in d.is <=> f \in c.is)
          /\ d.flow = "signup" /\ c.flow = "signup"
      BY <1>2, <2>3, <2>5
    <3> QED
      BY <3>3, <3>4 DEF Reached, Upto, Ahead, OutOfCodes
  <2>8. Turn(q, d, Len(codes'))
    BY <1>2, <2>3, <2>4, <2>5, <2>6, <2>7 DEF Turn
  <2> QED
    BY <1>2, <2>2, <2>8, SteadyMoves
<1> QED
  BY <1>4, <1>5, <1>6

(* ------------------------- A signed-in user's runs ---------------------- *)
LEMMA InitChangePasswordMoves ==
  ASSUME WfInv, NEW q \in Requests, InitChangePassword(q)
  PROVE  Moved(q)
<1> DEFINE c == Ctx(q)
           d == [c EXCEPT !.sub = acct.id, !.by = {"session"}]
<1>1. At(q, Schema, "init-change-password") /\ UNCHANGED Shared /\ Go(q, d)
  BY DEF InitChangePassword, Runs
<1>2. c \in Context /\ req[q] # Idle /\ Earned(c) /\ c.flow = "change" /\ acct.id \in Nat
  BY <1>1, AtHere DEF Site, WfInv, TypeOK, Account
<1>3. /\ d.flow = "change" /\ d.sub = acct.id /\ d.cand = c.cand /\ d.pin = c.pin
      /\ d.is = c.is
  BY <1>2 DEF Context
<1>4. d \in Context
  <2>1. {"session"} \in SUBSET Proofs
    BY DEF Proofs
  <2> QED
    BY <1>2, <2>1 DEF Context
<1>5. c.pin \in Nat
  BY <1>2 DEF Context
<1> HIDE DEF d
<1>6. Earned(d)
  BY <1>2, <1>3 DEF Earned, Factored, Identified, Mailed, Signed
<1>7. Like(c, d)
  BY <1>2, <1>3, <1>4, <1>5 DEF Like
<1>8. Passed(d, req[q].at)
  BY <1>3 DEF Passed
<1>9. Steady
  BY <1>1, StillSteady
<1>10. \E e : Turn(q, e, Len(codes'))
  BY <1>1, <1>2, <1>3, <1>6, <1>7, <1>8, <1>9, SteadyGrown, LikeGo
<1> QED
  BY <1>2, <1>9, <1>10, SteadyMoves

LEMMA ChangePasswordMoves ==
  ASSUME WfInv, NEW q \in Requests, ChangePassword(q)
  PROVE  Moved(q)
<1> DEFINE c == Proved(Ctx(q), "password")
<1>1. /\ At(q, Schema, "change-password-form") /\ "change-password-form" \notin Turning
      /\ UNCHANGED <<codes, failures, live>>
  BY DEF ChangePassword, Turning
<1>2. req[q] # Idle /\ StepHere(q) \notin Turning /\ Same(Ctx(q), Ctx(q))
  BY <1>1, AtHere
<1>3. \/ /\ acct' = [acct EXCEPT !.pw = @ + 1, !.initial = FALSE]
         /\ Does(q, "password", c) /\ Go(q, [c EXCEPT !.form = Unset])
      \/ Lose(q) /\ UNCHANGED <<acct, log>>
  BY DEF ChangePassword
<1>4. Steady
  <2>1. RowKept
    <3>1. UNCHANGED acct \/ acct' = [acct EXCEPT !.pw = @ + 1, !.initial = FALSE]
      BY <1>3
    <3>2. CASE UNCHANGED acct
      BY <3>2, Unwritten
    <3>3. CASE acct' = [acct EXCEPT !.pw = @ + 1, !.initial = FALSE]
      BY <3>3, RowEdits
    <3> QED
      BY <3>1, <3>2, <3>3
  <2>2. LogKept
    BY <1>3, PlainDoes, Unwritten
  <2> QED
    BY <1>1, <2>1, <2>2, Unwritten DEF Steady
<1>5. Same(Ctx(q), c)
  <2>1. "password" \in Proofs
    BY DEF Proofs
  <2> QED
    BY <1>2, <2>1, SameProved
<1> HIDE DEF c
<1>6. Same(Ctx(q), [c EXCEPT !.form = Unset])
  <2>1. Unset \in Int
    BY DEF Unset
  <2> QED
    BY <1>5, <2>1, SameField
<1> QED
  BY <1>2, <1>3, <1>4, <1>6, Steadily

LEMMA InitAddMfaMoves ==
  ASSUME WfInv, NEW q \in Requests, InitAddMfa(q)
  PROVE  Moved(q)
<1> DEFINE c == Ctx(q)
           flags == Given("stepUp", acct.factors # {})
                    \cup Given("byFactor", acct.factors \cap policy.transports # {})
           w == With(c, flags)
           d == [w EXCEPT !.sub = acct.id, !.candidates = policy.transports \ acct.factors,
                          !.by = {"session"}]
<1>1. At(q, Schema, "init-add-mfa") /\ UNCHANGED Shared /\ Go(q, d)
  BY DEF InitAddMfa, Runs
<1>2. /\ c \in Context /\ req[q] # Idle /\ Earned(c) /\ c.flow = "addMfa" /\ req[q].at = 1 /\ Reached(c, 1)
      /\ Good(c, acct, Len(codes))
  <2>1. c \in Context /\ req[q] # Idle /\ Earned(c) /\ c.flow = "addMfa" /\ req[q].at = 1
    BY <1>1, AtHere DEF Site
  <2> QED
    BY <2>1, Here
<1>3. "otp" \notin c.is
  BY <1>2 DEF Reached, Ahead
<1>4. /\ acct.id \in Nat /\ acct.born \in Nat /\ acct.id <= acct.born
      /\ policy.transports \ acct.factors \in SUBSET Transports
  BY DEF WfInv, TypeOK, Account, Deployment
<1>5. flags \in SUBSET Flags /\ flags \subseteq {"stepUp", "byFactor"}
  BY DEF Given, Flags
<1> HIDE DEF flags
<1>6. /\ w \in Context /\ w.flow = c.flow /\ w.sub = c.sub /\ w.cand = c.cand /\ w.pin = c.pin
      /\ w.by = c.by /\ w.is = c.is \cup flags
  BY <1>2, <1>5, WithIs
<1> HIDE DEF w
<1>7. /\ d.flow = w.flow /\ d.sub = acct.id /\ d.cand = w.cand /\ d.pin = w.pin
      /\ d.is = w.is
  BY <1>6 DEF Context
<1>8. d \in Context
  <2>1. {"session"} \in SUBSET Proofs
    BY DEF Proofs
  <2> QED
    BY <1>4, <1>6, <2>1 DEF Context
<1> HIDE DEF d
<1>9. Steady /\ Grown
  BY <1>1, StillSteady, SteadyGrown
<1>10. "otp" \notin d.is
  BY <1>3, <1>5, <1>6, <1>7
<1>11. Good(d, acct', Len(codes'))
  <2>1. Earned(d)
    BY <1>2, <1>6, <1>7, <1>10 DEF Earned, Factored, Identified, Mailed, Signed
  <2>2. Owned(d, acct, Len(codes))
    BY <1>2, <1>4, <1>6, <1>7 DEF Good, Owned
  <2>3. acct' = acct /\ Len(codes') = Len(codes)
    BY <1>1, StillSteady
  <2> QED
    BY <1>8, <2>1, <2>2, <2>3 DEF Good
<1>12. Reached(d, 2)
  BY <1>2, <1>6, <1>7 DEF Reached, Upto, Ahead
<1>13. Turn(q, d, Len(codes'))
  BY <1>1, <1>2, <1>6, <1>7, <1>11, <1>12 DEF Turn
<1> QED
  BY <1>2, <1>9, <1>13, SteadyMoves

LEMMA FailMoves ==
  ASSUME WfInv, NEW q \in Requests, Fail(q)
  PROVE  Moved(q)
BY StillSteady, Steadily DEF Fail

(* ---------------------- The rest of the world's steps ------------------- *)
\* A step that leaves the deployment, writes nothing it has no right to and keeps what
\* every paused state and request may count on.
LEMMA AllKept ==
  ASSUME WfInv, policy' = policy, Steady, req' \in [Requests -> Run \cup {Idle}],
         \A p \in paused' : Kept(p, acct', Len(codes')),
         \A r \in Requests : req'[r] # Idle => Running(req'[r], acct', Len(codes'))
  PROVE  WfInv'
<1>1. TypeOK'
  BY DEF Steady, CodesKept, RowKept, Grows, WfInv, TypeOK
<1>2. PICK a, m : a = acct' /\ m = Len(codes')
  OBVIOUS
<1>3. ASSUME NEW p \in paused'
      PROVE  Kept(p, acct, Len(codes))'
  <2>1. Kept(p, a, m)
    BY <1>2, <1>3
  <2> QED
    BY <1>2, <2>1, PolicyStays
<1>4. ASSUME NEW r \in Requests, req'[r] # Idle
      PROVE  Running(req[r], acct, Len(codes))'
  <2>1. PICK x : x = req'[r]
    OBVIOUS
  <2>2. Running(x, a, m)
    BY <1>2, <1>4, <2>1
  <2>3. Running(x, a, m)'
    BY <2>2, PolicyStays
  <2> QED
    BY <1>2, <2>1, <2>3
<1>5. Sound'
  BY <1>3, <1>4 DEF Sound
<1>6. \A e \in log' : Entry(e)'
  BY DEF Steady, LogKept, Entry, Has, Confirmed, Settled, SilentFactor
<1>7. ActiveMeansPassword'
  BY DEF Steady, RowKept, ActiveMeansPassword
<1> QED
  BY <1>1, <1>5, <1>6, <1>7 DEF WfInv

\* No flow begins with a step that counts on anything.
LEMMA FirstSteps ==
  ASSUME NEW f \in Flows
  PROVE  1 \in 1..Len(Schema[f])
         /\ Schema[f][1].step \notin {"pincode-check", "confirm-remove-mfa", "enroll-confirm", "create-user"}
<1>1. CASE f = "login"
  <2>1. Schema[f] = LoginFlow /\ Len(Schema[f]) = 45
    BY <1>1, Sizes DEF Sized
  <2>2. LoginFlow[1].step = "init-login"
    BY LoginSteps
  <2> QED
    BY <2>1, <2>2
<1>2. CASE f = "invite"
  <2>1. Schema[f] = InviteFlow /\ Len(Schema[f]) = 28
    BY <1>2, Sizes DEF Sized
  <2>2. InviteFlow[1].step = "admin-form"
    BY InviteSteps
  <2> QED
    BY <2>1, <2>2
<1>3. CASE f = "recovery"
  <2>1. Schema[f] = RecoveryFlow /\ Len(Schema[f]) = 22
    BY <1>3, Sizes DEF Sized
  <2>2. RecoveryFlow[1].step = "request"
    BY RecoverySteps
  <2> QED
    BY <2>1, <2>2
<1>4. CASE f = "change"
  <2>1. Schema[f] = ChangePasswordFlow /\ Len(Schema[f]) = 3
    BY <1>4, Sizes DEF Sized
  <2>2. ChangePasswordFlow[1].step = "init-change-password"
    BY ChangePasswordSteps
  <2> QED
    BY <2>1, <2>2
<1>5. CASE f = "addMfa"
  <2>1. Schema[f] = AddMfaFlow /\ Len(Schema[f]) = 20
    BY <1>5, Sizes DEF Sized
  <2>2. AddMfaFlow[1].step = "init-add-mfa"
    BY AddMfaSteps
  <2> QED
    BY <2>1, <2>2
<1>6. CASE f = "signup"
  <2>1. Schema[f] = SignupFlow /\ Len(Schema[f]) = 16
    BY <1>6, Sizes DEF Sized
  <2>2. SignupFlow[1].step = "signup-form"
    BY SignupSteps
  <2> QED
    BY <2>1, <2>2
<1> QED
  BY <1>1, <1>2, <1>3, <1>4, <1>5, <1>6 DEF Flows

LEMMA FreshGood ==
  ASSUME WfInv, NEW f \in Flows, NEW flags \in SUBSET {"authz", "idpInbound", "autoLogin"}
  PROVE  LET c == Fresh(f, flags)
         IN  c.flow = f /\ Good(c, acct, Len(codes)) /\ Reached(c, 1) /\ Open(c, 1)
<1> DEFINE c == Fresh(f, flags)
<1>1. /\ c.flow = f /\ c.sub = 0 /\ c.pin = 0 /\ c.cand = 0 /\ c.is = flags /\ c.by = {}
  BY DEF Fresh
<1>2. c \in Context
  <2>1. flags \in SUBSET Flags /\ {} \in SUBSET Transports /\ {} \in SUBSET Proofs
    BY DEF Flags
  <2>2. Unset \in Int
    BY DEF Unset
  <2> QED
    BY <2>1, <2>2 DEF Fresh, Context
<1> SUFFICES c.flow = f /\ Good(c, acct, Len(codes)) /\ Reached(c, 1) /\ Open(c, 1)
  OBVIOUS
<1> HIDE DEF c
<1>3. \A x \in Fixed : x \notin c.is
  BY <1>1 DEF Fixed
<1>4. /\ "otp" \notin c.is /\ "terms" \notin c.is /\ "stepUp" \notin c.is /\ "dispatched" \notin c.is
      /\ "passwordChanged" \notin c.is
  BY <1>3 DEF Fixed
<1>5. Earned(c)
  BY <1>1, <1>4 DEF Earned, Factored, Identified, Mailed, Signed
<1>6. Owned(c, acct, Len(codes))
  BY <1>1, <1>4 DEF Owned, WfInv, TypeOK, Account
<1>7. Reached(c, 1)
  BY <1>1, <1>4 DEF Reached, Upto, Ahead
<1>8. Open(c, 1)
  BY <1>1, FirstSteps DEF Open
<1> QED
  BY <1>1, <1>2, <1>5, <1>6, <1>7, <1>8 DEF Good

LEMMA StartKeeps ==
  ASSUME WfInv, NEW q \in Requests, Start(q)
  PROVE  WfInv'
<1>1. PICK s \in policy.starts : Begin(q, Fresh(s[1], s[2]), 1) /\ UNCHANGED Shared
  BY DEF Start
<1>2. s[1] \in Flows /\ s[2] \in SUBSET {"authz", "idpInbound", "autoLogin"}
  BY DEF WfInv, TypeOK, Deployment
<1> DEFINE c == Fresh(s[1], s[2])
           r == [at |-> 1, c |-> c, input |-> FALSE, phase |-> "enter", from |-> {}, dead |-> {}]
<1>3. c.flow = s[1] /\ Good(c, acct, Len(codes)) /\ Reached(c, 1) /\ Open(c, 1)
  BY <1>2, FreshGood
<1>4. policy' = policy /\ paused' = paused /\ req' = [req EXCEPT ![q] = r]
  BY <1>1 DEF Begin
<1>5. Steady /\ acct' = acct /\ codes' = codes
  BY <1>1, StillSteady
<1> HIDE DEF c
<1>6. r \in Run
  <2>1. 1 \in Nat \ {0} /\ c \in Context /\ "enter" \in Phases /\ {} \in SUBSET State /\ {} \in SUBSET Ends
    BY <1>3 DEF Good, Phases
  <2> QED
    BY <2>1 DEF Run
<1>7. Running(r, acct, Len(codes))
  <2>1. r.at = 1 /\ r.c = c /\ r.phase = "enter" /\ r.from = {}
    OBVIOUS
  <2>2. 1 \in 1..Len(Schema[c.flow])
    BY <1>2, <1>3, FirstSteps
  <2> HIDE DEF r
  <2> QED
    BY <1>3, <2>1, <2>2 DEF Running
<1> HIDE DEF r
<1>8. req' \in [Requests -> Run \cup {Idle}]
  BY <1>4, <1>6 DEF WfInv, TypeOK
<1>9. \A p \in paused' : Kept(p, acct', Len(codes'))
  BY <1>4, <1>5 DEF WfInv, Sound
<1>10. \A x \in Requests : req'[x] # Idle => Running(req'[x], acct', Len(codes'))
  BY <1>4, <1>5, <1>7 DEF WfInv, Sound, TypeOK
<1> QED
  BY <1>4, <1>5, <1>8, <1>9, <1>10, AllKept

LEMMA ResumeKeeps ==
  ASSUME WfInv, NEW q \in Requests, Resume(q)
  PROVE  WfInv'
<1>0. PICK p \in paused : \E j \in Follow(p.c, p.at) :
        Reopen(q, p, p.c, j, Overtaken(p.c)) /\ UNCHANGED Shared
  BY DEF Resume
<1>1. PICK j \in Follow(p.c, p.at) : Reopen(q, p, p.c, j, Overtaken(p.c)) /\ UNCHANGED Shared
  BY <1>0
<1> DEFINE c == p.c
           r == [at |-> j, c |-> c, input |-> TRUE, phase |-> "enter", from |-> {p}, dead |-> Overtaken(c)]
<1>2. policy' = policy /\ paused' \subseteq paused /\ req' = [req EXCEPT ![q] = r] /\ j # 0
  BY <1>1 DEF Reopen
<1>3. Steady /\ acct' = acct /\ codes' = codes
  BY <1>1, StillSteady
<1>4. Kept(p, acct, Len(codes))
  BY DEF WfInv, Sound
<1>5. /\ p \in State /\ p.at \in 1..Len(Schema[c.flow]) /\ Good(c, acct, Len(codes)) /\ Reached(c, p.at)
      /\ c \in Context /\ Signed(c)
  BY <1>4 DEF Kept, Good, Earned
<1>6. policy.has \subseteq Settings
  BY DEF WfInv, TypeOK, Deployment
<1>7. Overtaken(c) \in SUBSET Ends
  BY DEF Overtaken, Given, Ends
<1> HIDE DEF c
<1>8. j \in 1..Len(Schema[c.flow]) /\ Reached(c, j) /\ Open(c, j)
  <2>1. c.flow \in Flows
    BY <1>5 DEF Context
  <2>2. Len(Schema[c.flow]) \in Nat
    BY <2>1, Sizes DEF Sized, Flows
  <2>3. p.at \in 1..(Len(Schema[c.flow]) + 1)
    BY <1>5, <2>2
  <2>4. j \in Follow(c, p.at)
    BY <1>1 DEF c
  <2> QED
    BY <1>2, <1>5, <1>6, <2>3, <2>4, WalkOn
<1>9. r \in Run
  <2>1. j \in Nat \ {0} /\ "enter" \in Phases /\ {p} \in SUBSET State
    BY <1>2, <1>5, <1>8 DEF Phases
  <2> QED
    BY <1>5, <1>7, <2>1 DEF Run
<1>10. Running(r, acct, Len(codes))
  <2>1. r.at = j /\ r.c = c /\ r.phase = "enter" /\ r.from = {p}
    OBVIOUS
  <2> HIDE DEF r
  <2> QED
    BY <1>4, <1>5, <1>8, <2>1 DEF Running
<1> HIDE DEF r
<1>11. req' \in [Requests -> Run \cup {Idle}]
  BY <1>2, <1>9 DEF WfInv, TypeOK
<1>12. \A s \in paused' : Kept(s, acct', Len(codes'))
  BY <1>2, <1>3 DEF WfInv, Sound
<1>13. \A x \in Requests : req'[x] # Idle => Running(req'[x], acct', Len(codes'))
  BY <1>2, <1>3, <1>10 DEF WfInv, Sound, TypeOK
<1> QED
  BY <1>2, <1>3, <1>11, <1>12, <1>13, AllKept

\* The account row changed and nothing else that the requests hold.
LEMMA EditKeeps ==
  ASSUME WfInv, Edit
  PROVE  WfInv'
<1>1. UNCHANGED <<paused, req, policy, codes, failures, log>> /\ acct.id # 0
  BY DEF Edit
<1>2. RowKept
  <2>1. CASE acct' = [Absent EXCEPT !.born = acct.born]
    <3> DEFINE b == [Absent EXCEPT !.born = acct.born]
    <3>1. acct \in Account /\ acct.born \in Nat
      BY DEF WfInv, TypeOK, Account
    <3>2. b.id = 0 /\ b.born = acct.born /\ b.active = FALSE
      BY DEF Absent
    <3>3. b \in Account
      BY <3>1 DEF Absent, Account
    <3>4. acct' = b
      BY <2>1
    <3> HIDE DEF b
    <3>5. Grows(acct, b)
      BY <1>1, <3>1, <3>2, <3>3 DEF Grows
    <3> QED
      BY <3>2, <3>4, <3>5 DEF RowKept
  <2>2. \/ acct' = [acct EXCEPT !.pw = @ + 1, !.initial = FALSE]
        \/ acct' = [acct EXCEPT !.locked = TRUE]
        \/ acct' = [acct EXCEPT !.active = FALSE]
        \/ acct' = [acct EXCEPT !.nonce = @ + 1]
        \/ acct' = [Absent EXCEPT !.born = acct.born]
    BY DEF Edit
  <2> QED
    BY <2>1, <2>2, RowEdits
<1>3. Steady
  BY <1>1, <1>2, Unwritten DEF Steady
<1>4. /\ acct \in Account /\ Grows(acct, acct') /\ Len(codes) \in Nat /\ Len(codes') = Len(codes)
  BY <1>1, <1>2 DEF WfInv, TypeOK, RowKept
<1>5. \A p \in paused' : Kept(p, acct', Len(codes'))
  BY <1>1, <1>4, GrowsKept DEF WfInv, Sound
<1>6. \A r \in Requests : req'[r] # Idle => Running(req'[r], acct', Len(codes'))
  BY <1>1, <1>4, GrowsRunning DEF WfInv, Sound
<1> QED
  BY <1>1, <1>3, <1>5, <1>6, AllKept DEF WfInv, TypeOK

LEMMA StillKeeps ==
  ASSUME WfInv, UNCHANGED vars
  PROVE  WfInv'
<1>1. UNCHANGED <<paused, req, policy, acct, codes, failures, log>>
  BY DEF vars
<1>2. Steady
  BY <1>1, Unwritten DEF Steady
<1> QED
  BY <1>1, <1>2, AllKept DEF WfInv, TypeOK, Sound

LEMMA StartsSound ==
  ASSUME Init
  PROVE  WfInv
<1>1. PICK p \in Policies, durable \in BOOLEAN : policy = [p EXCEPT !.durable = durable]
  BY DEF Init
<1>2. p \in Deployment /\ p.start.id <= p.start.born
  BY PoliciesAssumption
<1>3. policy \in Deployment /\ policy.start = p.start
  BY <1>1, <1>2 DEF Deployment
<1>4. acct \in Account /\ acct = policy.start /\ acct.id <= acct.born
  BY <1>2, <1>3 DEF Init, Deployment
<1>5. TypeOK
  <2>1. codes = <<>> /\ failures = [target \in Targets |-> 0] /\ req = [q \in Requests |-> Idle]
    BY DEF Init
  <2>2. codes \in Seq(Code) /\ failures \in [Targets -> Nat] /\ req \in [Requests -> Run \cup {Idle}]
    BY <2>1
  <2> QED
    BY <1>3, <1>4, <2>2 DEF TypeOK
<1>6. Sound
  BY DEF Init, Sound
<1>7. ActiveMeansPassword
  BY <1>4 DEF ActiveMeansPassword
<1>8. \A e \in log : Entry(e)
  BY DEF Init
<1> QED
  BY <1>5, <1>6, <1>7, <1>8 DEF WfInv

(* ------------------------------- The steps ------------------------------ *)
LEMMA SignInMoves ==
  ASSUME WfInv, NEW q \in Requests, SignInStep(q)
  PROVE  Moved(q)
<1>1. InitLogin(q) => Moved(q)
  BY InitLoginMoves
<1>2. Credentials(q) => Moved(q)
  BY CredentialsMoves
<1>3. MagicLinkRequest(q) \/ MagicLinkSend(q) \/ MagicLinkConfirm(q) => Moved(q)
  BY MagicLinkRequestMoves, MagicLinkSendMoves, MagicLinkConfirmMoves
<1>4. MagicLinkVerified(q) \/ SsoCallback(q) => Moved(q)
  BY MagicLinkVerifiedMoves, SsoCallbackMoves
<1>5. ProveControl(q) \/ ProvedControl(q) => Moved(q)
  BY ProveControlMoves, ProvedControlMoves
<1>6. AskChannel(q) \/ VerifyChannel(q) \/ VerifiedChannel(q) => Moved(q)
  BY AskChannelMoves, VerifyChannelMoves, VerifiedChannelMoves
<1>7. CheckTrustedDevice(q) \/ DeviceTrust(q) \/ TermsBumpPrompt(q) => Moved(q)
  BY CheckTrustedDeviceMoves, DeviceTrustMoves, TermsBumpPromptMoves
<1>8. LoadActiveSessions(q) \/ ConcurrencyLimit(q) \/ CheckPasswordUnchanged(q) \/ CheckCanSignIn(q) => Moved(q)
  BY LoadActiveSessionsMoves, ConcurrencyLimitMoves, CheckPasswordUnchangedMoves, CheckCanSignInMoves
<1>9. Issue(q) \/ AuthzConsent(q) \/ MintAuthzCode(q) => Moved(q)
  BY FinishMoves, AuthzConsentMoves, MintAuthzCodeMoves
<1> QED
  BY <1>1, <1>2, <1>3, <1>4, <1>5, <1>6, <1>7, <1>8, <1>9 DEF SignInStep

LEMMA FactorMoves ==
  ASSUME WfInv, NEW q \in Requests, FactorStep(q)
  PROVE  Moved(q)
<1>1. LoadEnrolledMfaMethods(q) \/ SelectMfaMethod(q) \/ Select2fa(q) => Moved(q)
  BY LoadEnrolledMfaMethodsMoves, SelectMfaMethodMoves, Select2faMoves
<1>2. ManageStepUpConfirm(q) \/ ManageStepUpDone(q) => Moved(q)
  BY ManageStepUpConfirmMoves, ManageStepUpDoneMoves
<1>3. PincodeSend(q) \/ PincodeCheck(q) \/ PincodeChecked(q) => Moved(q)
  BY PincodeSendMoves, PincodeCheckMoves, PincodeCheckedMoves
<1>4. TotpCheck(q) \/ RiskStepUp(q) \/ EnrollPickMethod(q) => Moved(q)
  BY TotpCheckMoves, RiskStepUpMoves, EnrollPickMethodMoves
<1>5. EnrollAddress(q) \/ EnrollTotpQr(q) \/ EnrollSend(q) => Moved(q)
  BY EnrollAddressMoves, EnrollSendMoves
<1>6. EnrollConfirm(q) \/ EnrollConfirmed(q) => Moved(q)
  BY EnrollConfirmMoves, EnrollConfirmedMoves
<1>7. InitAddMfa(q) \/ ManagePasswordReauth(q) => Moved(q)
  BY InitAddMfaMoves, ManagePasswordReauthMoves
<1>8. ManageMenu(q) \/ ConfirmRemoveMfa(q) => Moved(q)
  BY ManageMenuMoves, ConfirmRemoveMfaMoves
<1> QED
  BY <1>1, <1>2, <1>3, <1>4, <1>5, <1>6, <1>7, <1>8 DEF FactorStep

LEMMA AccountMoves ==
  ASSUME WfInv, NEW q \in Requests, AccountStep(q)
  PROVE  Moved(q)
<1>1. PrepareConsents(q) \/ PrepareSemanticFlags(q) \/ InitInviteAccept(q) => Moved(q)
  BY PrepareConsentsMoves, PrepareSemanticFlagsMoves, InitInviteAcceptMoves
<1>2. CreatePasswordForm(q) \/ SetPassword(q) \/ PersistConsents(q) => Moved(q)
  BY CreatePasswordFormMoves, SetPasswordMoves, PersistConsentsMoves
<1>3. RevokeSessions(q) \/ UnlockAccount(q) \/ AutoLoginCheck(q) => Moved(q)
  BY RevokeSessionsMoves, UnlockAccountMoves, AutoLoginCheckMoves
<1>4. FinalizeAutoLogin(q) \/ FinishChangePassword(q) => Moved(q)
  BY FinishMoves
<1>5. AdminForm(q) \/ CreateUser(q) \/ MarkPending(q) \/ SendInviteEmail(q) => Moved(q)
  BY AdminFormMoves, CreateUserMoves, MarkPendingMoves, SendInviteEmailMoves
<1>6. CheckPendingInvitation(q) \/ UnsetPendingInvitation(q) \/ ActivateUser(q) => Moved(q)
  BY CheckPendingInvitationMoves, UnsetPendingInvitationMoves, ActivateUserMoves
<1>7. Request(q) \/ SelectRecoveryMode(q) \/ RecoveryLinkVerified(q) \/ RecoveryLockCheck(q) => Moved(q)
  BY RequestMoves, SelectRecoveryModeMoves, RecoveryLinkVerifiedMoves, RecoveryLockCheckMoves
<1>8. InitChangePassword(q) \/ ChangePasswordForm(q) \/ ChangePassword(q) => Moved(q)
  BY InitChangePasswordMoves, ChangePasswordFormMoves, ChangePasswordMoves
<1>9. SignupForm(q) \/ SignupCreateUser(q) => Moved(q)
  BY SignupFormMoves, SignupCreateUserMoves
<1> QED
  BY <1>1, <1>2, <1>3, <1>4, <1>5, <1>6, <1>7, <1>8, <1>9 DEF AccountStep

LEMMA StepKeeps == WfInv /\ [Next]_vars => WfInv'
<1> SUFFICES ASSUME WfInv, [Next]_vars
             PROVE  WfInv'
  OBVIOUS
<1>1. ASSUME NEW q \in Requests, SignInStep(q) \/ FactorStep(q) \/ AccountStep(q) \/ Fail(q)
      PROVE  WfInv'
  BY <1>1, SignInMoves, FactorMoves, AccountMoves, FailMoves, MovedKeeps
<1>2. ASSUME NEW q \in Requests, Start(q)
      PROVE  WfInv'
  BY <1>2, StartKeeps
<1>3. ASSUME NEW q \in Requests, Resume(q)
      PROVE  WfInv'
  BY <1>3, ResumeKeeps
<1>4. CASE Edit
  BY <1>4, EditKeeps
<1>5. CASE UNCHANGED vars
  BY <1>5, StillKeeps
<1> QED
  BY <1>1, <1>2, <1>3, <1>4, <1>5 DEF Next

\* Whatever the deployment, the requests and the states they resume, every run and every
\* paused state holds only what the step it stands at has earned: the inductive invariant.
THEOREM WfInvCorrect == Spec => []WfInv
<1>1. Init => WfInv
  BY StartsSound
<1>2. WfInv /\ [Next]_vars => WfInv'
  BY StepKeeps
<1> QED
  BY <1>1, <1>2, PTL DEF Spec

\* No session and no authorization code is issued before its workflow's proofs
\* (the login, invite, recovery and signup schemas of auth-workflow.ts), however sealed
\* states are replayed and whatever the deployment asks for.
THEOREM SignInsAreProved == Spec => []SessionsAreProved
<1>1. WfInv => SessionsAreProved
  BY LogProved
<1> QED
  BY <1>1, WfInvCorrect, PTL

\* An invited or signed-up account is active only with a password its owner chose.
THEOREM ActiveAccountsChose == Spec => []ActiveMeansPassword
<1>1. WfInv => ActiveMeansPassword
  BY DEF WfInv
<1> QED
  BY <1>1, WfInvCorrect, PTL

\* With a factor to challenge, add-mfa changes the factors only in a run that
\* proved one of them or the password.
THEOREM FactorsAreChallenged == Spec => []ManageNeedsChallenge
<1>1. WfInv => ManageNeedsChallenge
  BY LogProved
<1> QED
  BY <1>1, WfInvCorrect, PTL

(* ---------------------------- Bounded guesses --------------------------- *)
\* A request between its counted attempt and the comparison.
Comparing(r) == r # Idle /\ r.phase = "compare"
TargetOf(r) ==
    LET step == Schema[r.c.flow][r.at].step
    IN  IF step = "prove-control" THEN "link" ELSE IF step = "pincode-check" THEN PincodeTarget(r.c) ELSE "enroll"
\* The requests about to compare the code n, or a guess at the target t.
Comparers(n) == {r \in Requests : Comparing(req[r]) /\ req[r].c.pin = n}
Guessers(t) == {r \in Requests : Comparing(req[r]) /\ TargetOf(req[r]) = t}

\* What was compared and what is about to be stays within the attempts counted.
CodeCounts(n) ==
    /\ codes[n].wrong + codes[n].wins + Cardinality(Comparers(n)) <= codes[n].tries
    /\ codes[n].wrong + codes[n].wins + Cardinality(Comparers(n)) <= MaxTries
\* A target of guesses fails at most as often as its budget says, and once more
\* for each other request already past the check.
TargetCounts(t) == failures[t] + Cardinality(Guessers(t)) < MaxFailures + Cardinality(Requests)
GuessInv == WfInv /\ (\A n \in DOMAIN codes : CodeCounts(n)) /\ (\A t \in Targets : TargetCounts(t))

\* How a step of the request q leaves the counters.
Put(q, x) == req' = [req EXCEPT ![q] = x]
Shut(q) == \E x : Put(q, x) /\ ~Comparing(x)
\* What the step does to the counters: nothing, a new code, a counted attempt, or
\* its comparison, right or wrong.
Counts(q) ==
    \/ Shut(q) /\ UNCHANGED <<codes, failures>>
    \/ Shut(q) /\ \E target, for : Mint(target, for)
    \/ /\ ~Comparing(req[q]) /\ UNCHANGED failures
       /\ \E n \in 1..Len(codes) :
             /\ codes' = [codes EXCEPT ![n].tries = @ + 1]
             /\ \/ Shut(q)
                \/ /\ codes[n].tries < MaxTries
                   /\ \E x : Put(q, x) /\ x.c.pin = n /\ BudgetLeft(TargetOf(x))
    \/ /\ Comparing(req[q]) /\ Ctx(q).pin \in 1..Len(codes) /\ Shut(q)
       /\ \/ /\ codes' = [codes EXCEPT ![Ctx(q).pin].wrong = @ + 1]
             /\ failures' = [failures EXCEPT ![TargetOf(req[q])] = @ + 1]
          \/ codes' = [codes EXCEPT ![Ctx(q).pin].wins = @ + 1] /\ UNCHANGED failures

LEMMA Shuts ==
  ASSUME WfInv, NEW q \in Requests, req[q] # Idle
  PROVE  /\ \A d : Go(q, d) \/ Persist(q, d) => Shut(q)
         /\ Lose(q) \/ Ask(q) => Shut(q)
         /\ \A d : Await(q, d, "write") \/ Await(q, d, "pend") => Shut(q)
<1>1. req \in [Requests -> Run \cup {Idle}] /\ req[q] \in Run
  BY Here DEF WfInv, TypeOK
<1>2. ASSUME NEW d, Go(q, d)
      PROVE  Shut(q)
  <2>1. PICK j : Advance(q, d, j)
    BY <1>2 DEF Go
  <2> DEFINE x == IF j = 0 THEN Idle
                  ELSE [req[q] EXCEPT !.at = j, !.c = d, !.input = FALSE, !.phase = "enter"]
  <2>2. Put(q, x)
    BY <2>1 DEF Advance, Put
  <2>3. ~Comparing(x)
    BY <1>1 DEF Comparing, Run
  <2> QED
    BY <2>2, <2>3 DEF Shut
<1>3. ASSUME NEW d, Persist(q, d)
      PROVE  Shut(q)
  BY <1>3 DEF Persist, Shut, Put, Comparing
<1>4. ASSUME NEW d, NEW phase \in {"write", "pend"}, Await(q, d, phase)
      PROVE  Shut(q)
  <2> DEFINE x == [req[q] EXCEPT !.c = d, !.phase = phase]
  <2>1. Put(q, x)
    BY <1>1, <1>4 DEF Await, Put
  <2>2. ~Comparing(x)
    BY <1>1 DEF Comparing, Run
  <2> QED
    BY <2>1, <2>2 DEF Shut
<1> QED
  BY <1>2, <1>3, <1>4 DEF Lose, Ask, Shut, Put, Comparing

Quieted(q) == Shut(q) /\ UNCHANGED <<codes, failures>>

LEMMA SignInQuiet ==
  ASSUME WfInv, NEW q \in Requests
  PROVE  InitLogin(q) \/ Credentials(q) \/ MagicLinkRequest(q) \/ MagicLinkSend(q)
         \/ MagicLinkConfirm(q) \/ MagicLinkVerified(q) \/ SsoCallback(q) \/ CheckTrustedDevice(q)
         \/ DeviceTrust(q) \/ TermsBumpPrompt(q) \/ LoadActiveSessions(q) \/ ConcurrencyLimit(q)
         \/ CheckPasswordUnchanged(q) \/ CheckCanSignIn(q) \/ Issue(q) \/ AuthzConsent(q)
         \/ MintAuthzCode(q)
         => Quieted(q)
<1>0. req[q] # Idle =>
        /\ \A d : (Go(q, d) \/ Persist(q, d)) => Shut(q)
        /\ (Lose(q) \/ Ask(q)) => Shut(q)
        /\ \A d : (Await(q, d, "write") \/ Await(q, d, "pend")) => Shut(q)
  BY Shuts
<1>1. InitLogin(q) => Quieted(q)
  BY <1>0 DEF InitLogin, Runs, At, Quieted, Shared
<1>2. Credentials(q) => Quieted(q)
  BY <1>0 DEF Credentials, Runs, At, Quieted, Shared
<1>3. MagicLinkRequest(q) => Quieted(q)
  BY <1>0 DEF MagicLinkRequest, Runs, At, Quieted, Shared
<1>4. MagicLinkSend(q) => Quieted(q)
  BY <1>0 DEF MagicLinkSend, Runs, At, Quieted, Shared
<1>5. MagicLinkConfirm(q) => Quieted(q)
  BY <1>0 DEF MagicLinkConfirm, Runs, At, Quieted, Shared
<1>6. MagicLinkVerified(q) => Quieted(q)
  BY <1>0 DEF MagicLinkVerified, Runs, At, Quieted, Shared
<1>7. SsoCallback(q) => Quieted(q)
  BY <1>0 DEF SsoCallback, Runs, At, Quieted, Shared
<1>8. CheckTrustedDevice(q) => Quieted(q)
  BY <1>0 DEF CheckTrustedDevice, Runs, At, Quieted, Shared
<1>9. DeviceTrust(q) => Quieted(q)
  BY <1>0 DEF DeviceTrust, Runs, At, Quieted, Shared
<1>10. TermsBumpPrompt(q) => Quieted(q)
  BY <1>0 DEF TermsBumpPrompt, Runs, At, Quieted, Shared
<1>11. LoadActiveSessions(q) => Quieted(q)
  BY <1>0 DEF LoadActiveSessions, Runs, At, Quieted, Shared
<1>12. ConcurrencyLimit(q) => Quieted(q)
  BY <1>0 DEF ConcurrencyLimit, Runs, At, Quieted, Shared
<1>13. CheckPasswordUnchanged(q) => Quieted(q)
  BY <1>0 DEF CheckPasswordUnchanged, Runs, At, Quieted, Shared
<1>14. CheckCanSignIn(q) => Quieted(q)
  BY <1>0 DEF CheckCanSignIn, Runs, At, Quieted, Shared
<1>15. Issue(q) => Quieted(q)
  BY <1>0 DEF Issue, IssueSession, Runs, At, Quieted, Shared
<1>16. AuthzConsent(q) => Quieted(q)
  BY <1>0 DEF AuthzConsent, Runs, At, Quieted, Shared
<1>17. MintAuthzCode(q) => Quieted(q)
  BY <1>0 DEF MintAuthzCode, Runs, At, Quieted, Shared
<1> QED
  BY <1>1, <1>2, <1>3, <1>4, <1>5, <1>6, <1>7, <1>8, <1>9, <1>10, <1>11, <1>12, <1>13, <1>14,
     <1>15, <1>16, <1>17

LEMMA FactorQuiet ==
  ASSUME WfInv, NEW q \in Requests
  PROVE  LoadEnrolledMfaMethods(q) \/ SelectMfaMethod(q) \/ Select2fa(q) \/ ManageStepUpConfirm(q)
         \/ ManageStepUpDone(q) \/ TotpCheck(q) \/ RiskStepUp(q) \/ EnrollPickMethod(q)
         \/ EnrollAddress(q) \/ EnrollTotpQr(q) \/ InitAddMfa(q) \/ ManagePasswordReauth(q)
         \/ ManageMenu(q) \/ ConfirmRemoveMfa(q) \/ Fail(q)
         => Quieted(q)
<1>0. req[q] # Idle =>
        /\ \A d : (Go(q, d) \/ Persist(q, d)) => Shut(q)
        /\ (Lose(q) \/ Ask(q)) => Shut(q)
        /\ \A d : (Await(q, d, "write") \/ Await(q, d, "pend")) => Shut(q)
  BY Shuts
<1>1. LoadEnrolledMfaMethods(q) => Quieted(q)
  BY <1>0 DEF LoadEnrolledMfaMethods, Runs, At, Quieted, Shared
<1>2. SelectMfaMethod(q) => Quieted(q)
  BY <1>0 DEF SelectMfaMethod, Runs, At, Quieted, Shared
<1>3. Select2fa(q) => Quieted(q)
  BY <1>0 DEF Select2fa, Runs, At, Quieted, Shared
<1>4. ManageStepUpConfirm(q) => Quieted(q)
  BY <1>0 DEF ManageStepUpConfirm, Runs, At, Quieted, Shared
<1>5. ManageStepUpDone(q) => Quieted(q)
  BY <1>0 DEF ManageStepUpDone, Runs, At, Quieted, Shared
<1>6. TotpCheck(q) => Quieted(q)
  BY <1>0 DEF TotpCheck, Runs, At, Quieted, Shared
<1>7. RiskStepUp(q) => Quieted(q)
  BY <1>0 DEF RiskStepUp, Runs, At, Quieted, Shared
<1>8. EnrollPickMethod(q) => Quieted(q)
  BY <1>0 DEF EnrollPickMethod, Runs, At, Quieted, Shared
<1>9. EnrollAddress(q) => Quieted(q)
  BY <1>0 DEF EnrollAddress, Runs, At, Quieted, Shared
<1>10. EnrollTotpQr(q) => Quieted(q)
  BY <1>0 DEF EnrollTotpQr, Runs, At, Quieted, Shared
<1>11. InitAddMfa(q) => Quieted(q)
  BY <1>0 DEF InitAddMfa, Runs, At, Quieted, Shared
<1>12. ManagePasswordReauth(q) => Quieted(q)
  BY <1>0, SMTT(30) DEF ManagePasswordReauth, Runs, At, Quieted, Shared
<1>13. ManageMenu(q) => Quieted(q)
  BY <1>0 DEF ManageMenu, Runs, At, Quieted, Shared
<1>14. ConfirmRemoveMfa(q) => Quieted(q)
  BY <1>0 DEF ConfirmRemoveMfa, Runs, At, Quieted, Shared
<1>15. Fail(q) => Quieted(q)
  BY <1>0 DEF Fail, Quieted, Shared
<1> QED
  BY <1>1, <1>2, <1>3, <1>4, <1>5, <1>6, <1>7, <1>8, <1>9, <1>10, <1>11, <1>12, <1>13, <1>14, <1>15

LEMMA AccountQuiet ==
  ASSUME WfInv, NEW q \in Requests
  PROVE  PrepareConsents(q) \/ PrepareSemanticFlags(q) \/ InitInviteAccept(q)
         \/ CreatePasswordForm(q) \/ SetPassword(q) \/ PersistConsents(q) \/ RevokeSessions(q)
         \/ UnlockAccount(q) \/ AutoLoginCheck(q) \/ FinalizeAutoLogin(q) \/ AdminForm(q)
         \/ CreateUser(q) \/ MarkPending(q) \/ SendInviteEmail(q) \/ CheckPendingInvitation(q)
         \/ UnsetPendingInvitation(q) \/ ActivateUser(q) \/ Request(q) \/ SelectRecoveryMode(q)
         \/ RecoveryLinkVerified(q) \/ RecoveryLockCheck(q) \/ InitChangePassword(q)
         \/ ChangePasswordForm(q) \/ ChangePassword(q) \/ FinishChangePassword(q) \/ SignupForm(q)
         \/ SignupCreateUser(q)
         => Quieted(q)
<1>0. req[q] # Idle =>
        /\ \A d : (Go(q, d) \/ Persist(q, d)) => Shut(q)
        /\ (Lose(q) \/ Ask(q)) => Shut(q)
        /\ \A d : (Await(q, d, "write") \/ Await(q, d, "pend")) => Shut(q)
  BY Shuts
<1>1. PrepareConsents(q) => Quieted(q)
  BY <1>0 DEF PrepareConsents, Runs, At, Quieted, Shared
<1>2. PrepareSemanticFlags(q) => Quieted(q)
  BY <1>0 DEF PrepareSemanticFlags, Runs, At, Quieted, Shared
<1>3. InitInviteAccept(q) => Quieted(q)
  BY <1>0 DEF InitInviteAccept, Runs, At, Quieted, Shared
<1>4. CreatePasswordForm(q) => Quieted(q)
  BY <1>0 DEF CreatePasswordForm, Runs, At, Quieted, Shared
<1>5. SetPassword(q) => Quieted(q)
  BY <1>0 DEF SetPassword, Resumes, Quieted, Shared
<1>6. PersistConsents(q) => Quieted(q)
  BY <1>0 DEF PersistConsents, Runs, At, Quieted, Shared
<1>7. RevokeSessions(q) => Quieted(q)
  BY <1>0 DEF RevokeSessions, Runs, At, Quieted, Shared
<1>8. UnlockAccount(q) => Quieted(q)
  BY <1>0 DEF UnlockAccount, Runs, At, Quieted, Shared
<1>9. AutoLoginCheck(q) => Quieted(q)
  BY <1>0 DEF AutoLoginCheck, Runs, At, Quieted, Shared
<1>10. FinalizeAutoLogin(q) => Quieted(q)
  BY <1>0 DEF FinalizeAutoLogin, IssueSession, Runs, At, Quieted, Shared
<1>11. AdminForm(q) => Quieted(q)
  BY <1>0 DEF AdminForm, Runs, At, Quieted, Shared
<1>12. CreateUser(q) => Quieted(q)
  BY <1>0 DEF CreateUser, Runs, At, Quieted, Shared
<1>13. MarkPending(q) => Quieted(q)
  BY <1>0 DEF MarkPending, Resumes, Quieted, Shared
<1>14. SendInviteEmail(q) => Quieted(q)
  BY <1>0 DEF SendInviteEmail, Runs, At, Quieted, Shared
<1>15. CheckPendingInvitation(q) => Quieted(q)
  BY <1>0 DEF CheckPendingInvitation, Runs, At, Quieted, Shared
<1>16. UnsetPendingInvitation(q) => Quieted(q)
  BY <1>0 DEF UnsetPendingInvitation, Runs, At, Quieted, Shared
<1>17. ActivateUser(q) => Quieted(q)
  BY <1>0 DEF ActivateUser, Runs, At, Quieted, Shared
<1>18. Request(q) => Quieted(q)
  BY <1>0 DEF Request, Runs, At, Quieted, Shared
<1>19. SelectRecoveryMode(q) => Quieted(q)
  BY <1>0 DEF SelectRecoveryMode, Runs, At, Quieted, Shared
<1>20. RecoveryLinkVerified(q) => Quieted(q)
  BY <1>0 DEF RecoveryLinkVerified, Runs, At, Quieted, Shared
<1>21. RecoveryLockCheck(q) => Quieted(q)
  BY <1>0 DEF RecoveryLockCheck, Runs, At, Quieted, Shared
<1>22. InitChangePassword(q) => Quieted(q)
  BY <1>0 DEF InitChangePassword, Runs, At, Quieted, Shared
<1>23. ChangePasswordForm(q) => Quieted(q)
  BY <1>0 DEF ChangePasswordForm, Runs, At, Quieted, Shared
<1>24. ChangePassword(q) => Quieted(q)
  BY <1>0 DEF ChangePassword, Resumes, Quieted, Shared
<1>25. FinishChangePassword(q) => Quieted(q)
  BY <1>0 DEF FinishChangePassword, IssueSession, Runs, At, Quieted, Shared
<1>26. SignupForm(q) => Quieted(q)
  BY <1>0 DEF SignupForm, Runs, At, Quieted, Shared
<1>27. SignupCreateUser(q) => Quieted(q)
  BY <1>0 DEF SignupCreateUser, Runs, At, Quieted, Shared
<1> QED
  BY <1>1, <1>2, <1>3, <1>4, <1>5, <1>6, <1>7, <1>8, <1>9, <1>10, <1>11, <1>12, <1>13, <1>14,
     <1>15, <1>16, <1>17, <1>18, <1>19, <1>20, <1>21, <1>22, <1>23, <1>24, <1>25, <1>26, <1>27

\* The ways a step of a request leaves the counters.
LEMMA QuietCounts ==
  ASSUME NEW q
  PROVE  Quieted(q) \/ (Shut(q) /\ \E target, for : Mint(target, for)) => Counts(q)
BY DEF Quieted, Counts

LEMMA TryCounts ==
  ASSUME WfInv, NEW q \in Requests, req[q] # Idle, req[q].phase = "enter", NEW target, NEW e,
         e.pin = Ctx(q).pin, e.method = Ctx(q).method, e.flow = Ctx(q).flow,
         SubmitPin(q, target, e), TargetOf(req[q]) = target
  PROVE  Counts(q)
<1>1. req \in [Requests -> Run \cup {Idle}] /\ req[q] \in Run /\ Ctx(q) \in Context
  BY Here DEF WfInv, TypeOK
<1>2. UNCHANGED failures /\ BudgetLeft(target) /\ ~Comparing(req[q])
  BY DEF SubmitPin, Comparing
<1>3. CASE Ask(q) /\ UNCHANGED codes
  BY <1>2, <1>3, Shuts DEF Counts
<1>4. CASE /\ e.pin # 0 /\ codes' = [codes EXCEPT ![e.pin].tries = @ + 1]
           /\ Ask(q) \/ (codes[e.pin].tries < MaxTries /\ Await(q, e, "compare"))
  <2>1. e.pin \in 1..Len(codes)
    BY <1>1, <1>4, SameItself, PinSent
  <2>2. CASE Ask(q)
    BY <1>2, <1>4, <2>1, <2>2, Shuts DEF Counts
  <2>3. CASE codes[e.pin].tries < MaxTries /\ Await(q, e, "compare")
    <3> DEFINE x == [req[q] EXCEPT !.c = e, !.phase = "compare"]
    <3>1. Put(q, x)
      BY <1>1, <2>3 DEF Await, Put
    <3>2. x.c = e /\ x.at = req[q].at
      BY <1>1 DEF Run
    <3> HIDE DEF x
    <3>3. TargetOf(x) = target
      BY <3>2 DEF TargetOf, PincodeTarget, Ctx
    <3> QED
      BY <1>2, <1>4, <2>1, <2>3, <3>1, <3>2, <3>3 DEF Counts
  <2> QED
    BY <1>4, <2>2, <2>3
<1> QED
  BY <1>3, <1>4 DEF SubmitPin

LEMMA WrongCounts ==
  ASSUME WfInv, NEW q \in Requests, Resumes(q, "compare"), NEW target, WrongPin(q, target),
         TargetOf(req[q]) = target
  PROVE  Counts(q)
<1>1. req[q] # Idle /\ Ctx(q).pin \in 1..Len(codes) /\ Comparing(req[q])
  BY ComparesHere DEF Comparing, Resumes
<1>2. Shut(q)
  BY <1>1, Shuts DEF WrongPin
<1> QED
  BY <1>1, <1>2 DEF WrongPin, Counts

LEMMA RightCounts ==
  ASSUME WfInv, NEW q \in Requests, Resumes(q, "compare"), NEW for, RightPin(q, for), Shut(q)
  PROVE  Counts(q)
<1>1. Ctx(q).pin \in 1..Len(codes) /\ Comparing(req[q])
  BY ComparesHere DEF Comparing, Resumes
<1> QED
  BY <1>1 DEF RightPin, Counts

\* The target a step counts its guesses against is the one of its place.
LEMMA TargetHere ==
  ASSUME WfInv, NEW q \in Requests, NEW step, At(q, Schema, step)
  PROVE  TargetOf(req[q]) = IF step = "prove-control" THEN "link"
                            ELSE IF step = "pincode-check" THEN PincodeTarget(Ctx(q)) ELSE "enroll"
BY DEF At, TargetOf, Ctx

LEMMA LinkCounts ==
  ASSUME WfInv, NEW q \in Requests
  PROVE  ProveControl(q) \/ ProvedControl(q) => Counts(q)
<1>1. ASSUME ProveControl(q)
      PROVE  Counts(q)
  <2> DEFINE c == Without(Ctx(q), {"blocked"})
             e == With(c, Given("blocked", ~CanSignIn))
  <2>1. /\ req[q] # Idle /\ req[q].phase = "enter" /\ At(q, Schema, "prove-control")
        /\ Ctx(q) \in Context
    BY <1>1, AtHere DEF ProveControl, Runs
  <2>2. /\ \A d : (Go(q, d) \/ Persist(q, d)) => Shut(q)
        /\ Ask(q) => Shut(q)
    BY <2>1, Shuts
  <2>3. \/ Shut(q) /\ (UNCHANGED <<codes, failures>> \/ \E target, for : Mint(target, for))
        \/ SubmitPin(q, "link", e)
    BY <1>1, <2>2 DEF ProveControl, Shared
  <2>4. e.pin = Ctx(q).pin /\ e.method = Ctx(q).method /\ e.flow = Ctx(q).flow
    BY <2>1 DEF With, Without, Context
  <2>5. TargetOf(req[q]) = "link"
    BY <2>1, TargetHere
  <2> HIDE DEF e
  <2>6. SubmitPin(q, "link", e) => Counts(q)
    BY <2>1, <2>4, <2>5, TryCounts
  <2> QED
    BY <2>3, <2>6, QuietCounts DEF Quieted
<1>2. ASSUME ProvedControl(q)
      PROVE  Counts(q)
  <2>1. Resumes(q, "compare") /\ At(q, Schema, "prove-control") /\ req[q] # Idle
    BY <1>2 DEF ProvedControl, Resumes
  <2>2. /\ \A d : (Go(q, d) \/ Persist(q, d)) => Shut(q)
        /\ Lose(q) => Shut(q)
    BY <2>1, Shuts
  <2>3. WrongPin(q, "link") \/ (RightPin(q, Ctx(q).cand) /\ Shut(q))
    BY <1>2, <2>2 DEF ProvedControl, AskSpent
  <2> QED
    BY <2>1, <2>3, TargetHere, WrongCounts, RightCounts
<1> QED
  BY <1>1, <1>2

LEMMA ChannelCounts ==
  ASSUME WfInv, NEW q \in Requests
  PROVE  AskChannel(q) \/ VerifyChannel(q) \/ VerifiedChannel(q) => Counts(q)
<1>1. ASSUME AskChannel(q)
      PROVE  Counts(q)
  <2>1. req[q] # Idle
    BY <1>1 DEF AskChannel, Runs, At
  <2>2. (\A d : Persist(q, d) => Shut(q)) /\ (Ask(q) => Shut(q))
    BY <2>1, Shuts
  <2>3. Shut(q) /\ (UNCHANGED <<codes, failures>> \/ \E target, for : Mint(target, for))
    BY <1>1, <2>2 DEF AskChannel
  <2> QED
    BY <2>3, QuietCounts DEF Quieted
<1>2. ASSUME VerifyChannel(q)
      PROVE  Counts(q)
  <2>1. req[q] # Idle /\ req[q].phase = "enter" /\ At(q, Schema, "verify/email")
    BY <1>2, AtHere DEF VerifyChannel, Runs
  <2>2. (\A d : Persist(q, d) => Shut(q)) /\ (Ask(q) => Shut(q))
    BY <2>1, Shuts
  <2>3. \/ Shut(q) /\ (UNCHANGED <<codes, failures>> \/ \E target, for : Mint(target, for))
        \/ SubmitPin(q, "enroll", Ctx(q))
    BY <1>2, <2>2 DEF VerifyChannel, Shared
  <2>4. TargetOf(req[q]) = "enroll"
    BY <2>1, TargetHere
  <2> QED
    BY <2>1, <2>3, <2>4, TryCounts, QuietCounts DEF Quieted
<1>3. ASSUME VerifiedChannel(q)
      PROVE  Counts(q)
  <2>1. Resumes(q, "compare") /\ At(q, Schema, "verify/email") /\ req[q] # Idle
    BY <1>3 DEF VerifiedChannel, Resumes
  <2>2. /\ \A d : (Go(q, d) \/ Persist(q, d)) => Shut(q)
        /\ Lose(q) => Shut(q)
    BY <2>1, Shuts
  <2>3. WrongPin(q, "enroll") \/ (\E for : RightPin(q, for) /\ Shut(q))
    BY <1>3, <2>2 DEF VerifiedChannel, AskSpent
  <2> QED
    BY <2>1, <2>3, TargetHere, WrongCounts, RightCounts
<1> QED
  BY <1>1, <1>2, <1>3

LEMMA PincodeCounts ==
  ASSUME WfInv, NEW q \in Requests
  PROVE  PincodeSend(q) \/ PincodeCheck(q) \/ PincodeChecked(q) => Counts(q)
<1>1. ASSUME PincodeSend(q)
      PROVE  Counts(q)
  <2>1. req[q] # Idle
    BY <1>1 DEF PincodeSend, Runs, At
  <2>2. Shut(q) /\ \E target, for : Mint(target, for)
    BY <1>1, <2>1, Shuts DEF PincodeSend
  <2> QED
    BY <2>2, QuietCounts
<1>2. ASSUME PincodeCheck(q)
      PROVE  Counts(q)
  <2>1. req[q] # Idle /\ req[q].phase = "enter" /\ At(q, Schema, "pincode-check")
    BY <1>2, AtHere DEF PincodeCheck, Runs
  <2>2. /\ \A d : (Go(q, d) \/ Persist(q, d)) => Shut(q)
        /\ (Lose(q) \/ Ask(q)) => Shut(q)
    BY <2>1, Shuts
  <2>3. \/ Shut(q) /\ UNCHANGED <<codes, failures>>
        \/ SubmitPin(q, PincodeTarget(Ctx(q)), Ctx(q))
    BY <1>2, <2>2 DEF PincodeCheck, Shared
  <2>4. TargetOf(req[q]) = PincodeTarget(Ctx(q))
    BY <2>1, TargetHere
  <2> QED
    BY <2>1, <2>3, <2>4, TryCounts, QuietCounts DEF Quieted
<1>3. ASSUME PincodeChecked(q)
      PROVE  Counts(q)
  <2>1. Resumes(q, "compare") /\ At(q, Schema, "pincode-check") /\ req[q] # Idle
    BY <1>3 DEF PincodeChecked, Resumes
  <2>2. \A d : (Go(q, d) \/ Persist(q, d)) => Shut(q)
    BY <2>1, Shuts
  <2>3. WrongPin(q, PincodeTarget(Ctx(q))) \/ (\E for : RightPin(q, for) /\ Shut(q))
    BY <1>3, <2>2 DEF PincodeChecked, AskSpent
  <2> QED
    BY <2>1, <2>3, TargetHere, WrongCounts, RightCounts
<1> QED
  BY <1>1, <1>2, <1>3

LEMMA EnrollCounts ==
  ASSUME WfInv, NEW q \in Requests
  PROVE  EnrollSend(q) \/ EnrollConfirm(q) \/ EnrollConfirmed(q) => Counts(q)
<1>1. ASSUME EnrollSend(q)
      PROVE  Counts(q)
  <2>1. req[q] # Idle
    BY <1>1 DEF EnrollSend, Runs, At
  <2>2. Shut(q) /\ \E target, for : Mint(target, for)
    BY <1>1, <2>1, Shuts DEF EnrollSend
  <2> QED
    BY <2>2, QuietCounts
<1>2. ASSUME EnrollConfirm(q)
      PROVE  Counts(q)
  <2>1. req[q] # Idle /\ req[q].phase = "enter" /\ At(q, Schema, "enroll-confirm")
    BY <1>2, AtHere DEF EnrollConfirm, Runs
  <2>2. /\ \A d : (Go(q, d) \/ Persist(q, d)) => Shut(q)
        /\ (Lose(q) \/ Ask(q)) => Shut(q)
    BY <2>1, Shuts
  <2>3. ConfirmEnrolledFactor(q, Ctx(q)) => Shut(q)
    BY <2>2 DEF ConfirmEnrolledFactor
  <2>4. \/ Shut(q) /\ (UNCHANGED <<codes, failures>> \/ \E target, for : Mint(target, for))
        \/ SubmitPin(q, "enroll", Ctx(q))
    BY <1>2, <2>2, <2>3 DEF EnrollConfirm, Shared
  <2>5. TargetOf(req[q]) = "enroll"
    BY <2>1, TargetHere
  <2> QED
    BY <2>1, <2>4, <2>5, TryCounts, QuietCounts DEF Quieted
<1>3. ASSUME EnrollConfirmed(q)
      PROVE  Counts(q)
  <2>1. Resumes(q, "compare") /\ At(q, Schema, "enroll-confirm") /\ req[q] # Idle
    BY <1>3 DEF EnrollConfirmed, Resumes
  <2>2. /\ \A d : (Go(q, d) \/ Persist(q, d)) => Shut(q)
        /\ Lose(q) => Shut(q)
    BY <2>1, Shuts
  <2>3. WrongPin(q, "enroll") \/ (\E for : RightPin(q, for) /\ Shut(q))
    BY <1>3, <2>2 DEF EnrollConfirmed, AskSpent, ConfirmEnrolledFactor
  <2> QED
    BY <2>1, <2>3, TargetHere, WrongCounts, RightCounts
<1> QED
  BY <1>1, <1>2, <1>3

LEMMA StepCounts ==
  ASSUME WfInv, NEW q \in Requests, SignInStep(q) \/ FactorStep(q) \/ AccountStep(q) \/ Fail(q)
  PROVE  Counts(q)
<1>1. SignInStep(q) => Counts(q)
  BY SignInQuiet, QuietCounts, LinkCounts, ChannelCounts DEF SignInStep
<1>2. FactorStep(q) \/ Fail(q) => Counts(q)
  BY FactorQuiet, QuietCounts, PincodeCounts, EnrollCounts DEF FactorStep
<1>3. AccountStep(q) => Counts(q)
  BY AccountQuiet, QuietCounts DEF AccountStep
<1> QED
  BY <1>1, <1>2, <1>3

\* Sets of requests, and what one request adds to them.
LEMMA Few ==
  ASSUME NEW T \in SUBSET Requests
  PROVE  /\ Cardinality(T) \in Nat /\ Cardinality(T) <= Cardinality(Requests) /\ Cardinality(Requests) \in Nat
         /\ \A q : /\ Cardinality(T \ {q}) \in Nat /\ Cardinality(T \ {q}) <= Cardinality(T)
                   /\ q \in T => Cardinality(T \ {q}) + 1 = Cardinality(T)
                   /\ Cardinality(T \cup {q}) \in Nat /\ Cardinality(T \cup {q}) <= Cardinality(T) + 1
<1>1. IsFiniteSet(Requests) /\ IsFiniteSet(T)
  BY RequestsAssumption, FS_Subset
<1>2. Cardinality(T) \in Nat /\ Cardinality(T) <= Cardinality(Requests) /\ Cardinality(Requests) \in Nat
  BY <1>1, FS_CardinalityType, FS_Subset
<1>3. ASSUME NEW q
      PROVE  /\ Cardinality(T \ {q}) \in Nat /\ Cardinality(T \ {q}) <= Cardinality(T)
             /\ q \in T => Cardinality(T \ {q}) + 1 = Cardinality(T)
  <2> DEFINE m == Cardinality(T \ {q})
  <2>1. m = IF q \in T THEN Cardinality(T) - 1 ELSE Cardinality(T)
    BY <1>1, FS_RemoveElement
  <2>2. m \in Nat
    BY <1>1, FS_RemoveElement, FS_CardinalityType
  <2> HIDE DEF m
  <2>3. m \in Nat /\ m <= Cardinality(T) /\ (q \in T => m + 1 = Cardinality(T))
    BY <1>2, <2>1, <2>2
  <2> QED
    BY <2>3 DEF m
<1>4. ASSUME NEW q
      PROVE  Cardinality(T \cup {q}) \in Nat /\ Cardinality(T \cup {q}) <= Cardinality(T) + 1
  <2> DEFINE m == Cardinality(T \cup {q})
  <2>1. m = IF q \in T THEN Cardinality(T) ELSE Cardinality(T) + 1
    BY <1>1, FS_AddElement
  <2>2. m \in Nat
    BY <1>1, FS_AddElement, FS_CardinalityType
  <2> HIDE DEF m
  <2>3. m \in Nat /\ m <= Cardinality(T) + 1
    BY <1>2, <2>1, <2>2
  <2> QED
    BY <2>3 DEF m
<1> QED
  BY <1>2, <1>3, <1>4

LEMMA NoneAreFew == Cardinality({}) = 0
BY FS_EmptySet

LEMMA PutComparers ==
  ASSUME WfInv, NEW q \in Requests, NEW x, Put(q, x), NEW n, NEW t
  PROVE  /\ (Comparing(x) /\ x.c.pin = n) \/ Comparers(n)' = Comparers(n) \ {q}
         /\ (Comparing(x) /\ TargetOf(x) = t) \/ Guessers(t)' = Guessers(t) \ {q}
<1>1. /\ req'[q] = x
      /\ \A r \in Requests : r # q => req'[r] = req[r]
  BY DEF Put, WfInv, TypeOK
<1>2. /\ Comparers(n)' = {r \in Requests : Comparing(req'[r]) /\ req'[r].c.pin = n}
      /\ Guessers(t)' = {r \in Requests : Comparing(req'[r]) /\ TargetOf(req'[r]) = t}
  BY DEF Comparers, Guessers, Comparing, TargetOf, PincodeTarget
<1>4. ASSUME ~(Comparing(x) /\ x.c.pin = n)
      PROVE  Comparers(n)' = Comparers(n) \ {q}
  BY <1>1, <1>2, <1>4 DEF Comparers
<1>5. ASSUME ~(Comparing(x) /\ TargetOf(x) = t)
      PROVE  Guessers(t)' = Guessers(t) \ {q}
  BY <1>1, <1>2, <1>5 DEF Guessers
<1> QED
  BY <1>4, <1>5

LEMMA PutsOne ==
  ASSUME WfInv, NEW q \in Requests, NEW x, Put(q, x), NEW n
  PROVE  Comparers(n)' = Comparers(n) \ {q} \/ Comparers(n)' = Comparers(n) \cup {q}
<1>1. /\ req'[q] = x
      /\ \A r \in Requests : r # q => req'[r] = req[r]
  BY DEF Put, WfInv, TypeOK
<1>2. Comparers(n)' = {r \in Requests : Comparing(req'[r]) /\ req'[r].c.pin = n}
  BY DEF Comparers, Comparing
<1>3. CASE Comparing(x) /\ x.c.pin = n
  BY <1>1, <1>2, <1>3 DEF Comparers
<1>4. CASE ~(Comparing(x) /\ x.c.pin = n)
  BY <1>1, <1>2, <1>4 DEF Comparers
<1> QED
  BY <1>3, <1>4

LEMMA ShutComparers ==
  ASSUME WfInv, NEW q \in Requests, Shut(q), NEW n, NEW t
  PROVE  Comparers(n)' = Comparers(n) \ {q} /\ Guessers(t)' = Guessers(t) \ {q}
BY PutComparers DEF Shut

LEMMA AreRequests == \A n, t : Comparers(n) \in SUBSET Requests /\ Guessers(t) \in SUBSET Requests
BY DEF Comparers, Guessers

LEMMA NotSentYet ==
  ASSUME WfInv, NEW n, n = Len(codes) + 1
  PROVE  Comparers(n) = {}
<1>1. Len(codes) \in Nat
  BY DEF WfInv, TypeOK
<1>2. ASSUME NEW r \in Requests, req[r] # Idle
      PROVE  req[r].c.pin # n
  BY <1>1, <1>2, Here DEF Good, Owned, Ctx, Context
<1> QED
  BY <1>2 DEF Comparers, Comparing

\* The counters of one code, before and after, against those about to compare it.
LEMMA CodeArithmetic ==
  ASSUME NEW a \in Code, NEW b \in Code, NEW k \in Nat, NEW m \in Nat, NEW lim \in Nat,
         a.wrong + a.wins + k <= a.tries, a.wrong + a.wins + k <= lim,
         \/ b = a /\ m <= k
         \/ b = [a EXCEPT !.tries = @ + 1] /\ (m <= k \/ (a.tries < lim /\ m <= k + 1))
         \/ b \in {[a EXCEPT !.wrong = @ + 1], [a EXCEPT !.wins = @ + 1]} /\ m + 1 = k
  PROVE  b.wrong + b.wins + m <= b.tries /\ b.wrong + b.wins + m <= lim
<1>1. a.wrong \in Nat /\ a.wins \in Nat /\ a.tries \in Nat
  BY DEF Code
<1>2. CASE b = a /\ m <= k
  BY <1>1, <1>2
<1>3. CASE b = [a EXCEPT !.tries = @ + 1] /\ (m <= k \/ (a.tries < lim /\ m <= k + 1))
  <2>1. b.wrong = a.wrong /\ b.wins = a.wins /\ b.tries = a.tries + 1
    BY <1>3 DEF Code
  <2> QED
    BY <1>1, <1>3, <2>1
<1>4. CASE b = [a EXCEPT !.wrong = @ + 1] /\ m + 1 = k
  <2>1. b.wrong = a.wrong + 1 /\ b.wins = a.wins /\ b.tries = a.tries
    BY <1>4 DEF Code
  <2> QED
    BY <1>1, <1>4, <2>1
<1>5. CASE b = [a EXCEPT !.wins = @ + 1] /\ m + 1 = k
  <2>1. b.wrong = a.wrong /\ b.wins = a.wins + 1 /\ b.tries = a.tries
    BY <1>5 DEF Code
  <2> QED
    BY <1>1, <1>5, <2>1
<1> QED
  BY <1>2, <1>3, <1>4, <1>5

\* A step leaves a code's counters right when they and their requests changed so.
CodeMoves(n) ==
    LET k == Cardinality(Comparers(n))
        m == Cardinality(Comparers(n)')
    IN  \/ codes'[n] = codes[n] /\ m <= k
        \/ codes'[n] = [codes[n] EXCEPT !.tries = @ + 1] /\ (m <= k \/ (codes[n].tries < MaxTries /\ m <= k + 1))
        \/ codes'[n] \in {[codes[n] EXCEPT !.wrong = @ + 1], [codes[n] EXCEPT !.wins = @ + 1]} /\ m + 1 = k

LEMMA CodeKept ==
  ASSUME GuessInv, WfInv', NEW n \in 1..Len(codes), n <= Len(codes'), CodeMoves(n)
  PROVE  CodeCounts(n)'
<1>1. codes \in Seq(Code) /\ codes' \in Seq(Code)
  BY DEF GuessInv, WfInv, TypeOK
<1>2. n \in 1..Len(codes') /\ n \in DOMAIN codes
  BY <1>1
<1>3. codes[n] \in Code /\ codes'[n] \in Code
  BY <1>1, <1>2
<1> DEFINE k == Cardinality(Comparers(n))
           m == Cardinality(Comparers(n)')
<1>4. k \in Nat /\ m \in Nat
  <2>1. Comparers(n)' \subseteq Requests
    BY DEF Comparers
  <2> QED
    BY <2>1, AreRequests, Few
<1>5. MaxTries \in Nat
  BY LimitsAssumption
<1>6. codes[n].wrong + codes[n].wins + k <= codes[n].tries /\ codes[n].wrong + codes[n].wins + k <= MaxTries
  BY <1>2 DEF GuessInv, CodeCounts
<1>7. \/ codes'[n] = codes[n] /\ m <= k
      \/ codes'[n] = [codes[n] EXCEPT !.tries = @ + 1] /\ (m <= k \/ (codes[n].tries < MaxTries /\ m <= k + 1))
      \/ codes'[n] \in {[codes[n] EXCEPT !.wrong = @ + 1], [codes[n] EXCEPT !.wins = @ + 1]} /\ m + 1 = k
  BY DEF CodeMoves
<1> HIDE DEF k, m
<1>8. codes'[n].wrong + codes'[n].wins + m <= codes'[n].tries /\ codes'[n].wrong + codes'[n].wins + m <= MaxTries
  BY <1>3, <1>4, <1>5, <1>6, <1>7, CodeArithmetic
<1> QED
  BY <1>8 DEF CodeCounts, m

LEMMA CodesStayCounted ==
  ASSUME GuessInv, WfInv', NEW q \in Requests, Counts(q), NEW n \in DOMAIN codes'
  PROVE  CodeCounts(n)'
<1>1. WfInv /\ codes \in Seq(Code) /\ codes' \in Seq(Code)
  BY DEF GuessInv, WfInv, TypeOK
<1>2. n \in 1..Len(codes') /\ Len(codes) \in Nat
  BY <1>1
<1> DEFINE T == Comparers(n)
           k == Cardinality(T)
           m == Cardinality(T')
<1>3. /\ k \in Nat /\ Cardinality(T \ {q}) \in Nat /\ Cardinality(T \ {q}) <= k
      /\ q \in T => Cardinality(T \ {q}) + 1 = k
      /\ Cardinality(T \cup {q}) <= k + 1
  BY AreRequests, Few
<1>4. Shut(q) => T' = T \ {q}
  BY <1>1, ShutComparers
<1>5. Shut(q) => m <= k /\ (q \in T => m + 1 = k)
  BY <1>3, <1>4
<1>6. CASE Shut(q) /\ UNCHANGED <<codes, failures>>
  <2>1. CodeMoves(n)
    BY <1>5, <1>6 DEF CodeMoves
  <2> QED
    BY <1>2, <1>6, <2>1, CodeKept
<1>7. CASE Shut(q) /\ \E target, for : Mint(target, for)
  <2>1. PICK for : codes' = Append(codes, [for |-> for, tries |-> 0, wrong |-> 0, wins |-> 0])
    BY <1>7 DEF Mint
  <2>2. CASE n \in 1..Len(codes)
    <3>1. codes'[n] = codes[n]
      BY <1>1, <2>1, <2>2
    <3>2. CodeMoves(n)
      BY <1>5, <1>7, <3>1 DEF CodeMoves
    <3> QED
      BY <1>2, <2>2, <3>2, CodeKept
  <2>3. CASE n = Len(codes) + 1
    <3>1. codes'[n] = [for |-> for, tries |-> 0, wrong |-> 0, wins |-> 0]
      BY <1>1, <2>1, <2>3
    <3>2. T' = {}
      BY <1>1, <1>4, <1>7, <2>3, NotSentYet
    <3>3. codes'[n].tries = 0 /\ codes'[n].wrong = 0 /\ codes'[n].wins = 0 /\ m = 0 /\ MaxTries \in Nat
      BY <3>1, <3>2, NoneAreFew, LimitsAssumption
    <3> QED
      BY <3>3 DEF CodeCounts
  <2>4. Len(codes') = Len(codes) + 1
    BY <1>1, <2>1
  <2> QED
    BY <1>2, <2>2, <2>3, <2>4
<1>8. ASSUME ~Comparing(req[q]), NEW e \in 1..Len(codes), codes' = [codes EXCEPT ![e].tries = @ + 1],
             \/ Shut(q)
             \/ codes[e].tries < MaxTries /\ \E x : Put(q, x) /\ x.c.pin = e
      PROVE  CodeCounts(n)'
  <2>1. n \in 1..Len(codes) /\ codes'[n] = IF n = e THEN [codes[n] EXCEPT !.tries = @ + 1] ELSE codes[n]
    BY <1>1, <1>2, <1>8
  <2>2. CASE Shut(q)
    <3>1. CodeMoves(n)
      BY <1>5, <2>1, <2>2 DEF CodeMoves
    <3> QED
      BY <1>2, <2>1, <3>1, CodeKept
  <2>3. ASSUME codes[e].tries < MaxTries, NEW x, Put(q, x), x.c.pin = e
        PROVE  CodeCounts(n)'
    <3>1. CASE n = e
      <4>2. T' = T \cup {q} \/ T' = T \ {q}
        BY <1>1, <2>3, PutsOne
      <4>3. m <= k + 1
        <5>1. m = Cardinality(T \cup {q}) \/ m = Cardinality(T \ {q})
          BY <4>2
        <5>2. Cardinality(T \ {q}) <= k + 1
          BY <1>3
        <5> QED
          BY <1>3, <5>1, <5>2
      <4>4. CodeMoves(n)
        BY <2>1, <2>3, <3>1, <4>3 DEF CodeMoves
      <4> QED
        BY <1>2, <2>1, <4>4, CodeKept
    <3>2. CASE n # e
      <4>1. T' = T \ {q}
        BY <1>1, <2>3, <3>2, PutComparers
      <4>2. CodeMoves(n)
        BY <1>3, <2>1, <3>2, <4>1 DEF CodeMoves
      <4> QED
        BY <1>2, <2>1, <4>2, CodeKept
    <3> QED
      BY <3>1, <3>2
  <2> QED
    BY <1>8, <2>2, <2>3
<1>9. ASSUME Comparing(req[q]), Ctx(q).pin \in 1..Len(codes), Shut(q),
             \/ codes' = [codes EXCEPT ![Ctx(q).pin].wrong = @ + 1]
             \/ codes' = [codes EXCEPT ![Ctx(q).pin].wins = @ + 1]
      PROVE  CodeCounts(n)'
  <2>1. n \in 1..Len(codes)
    BY <1>1, <1>2, <1>9
  <2>2. n = Ctx(q).pin => q \in T
    BY <1>9 DEF Comparers, Ctx
  <2>3. CASE n # Ctx(q).pin
    <3>1. codes'[n] = codes[n]
      BY <1>1, <1>9, <2>1, <2>3
    <3>2. CodeMoves(n)
      BY <1>5, <1>9, <3>1 DEF CodeMoves
    <3> QED
      BY <1>2, <2>1, <3>2, CodeKept
  <2>4. CASE n = Ctx(q).pin
    <3>1. codes'[n] \in {[codes[n] EXCEPT !.wrong = @ + 1], [codes[n] EXCEPT !.wins = @ + 1]}
      BY <1>1, <1>9, <2>1, <2>4
    <3>2. CodeMoves(n)
      BY <1>5, <1>9, <2>2, <2>4, <3>1 DEF CodeMoves
    <3> QED
      BY <1>2, <2>1, <3>2, CodeKept
  <2> QED
    BY <2>3, <2>4
<1> QED
  BY <1>6, <1>7, <1>8, <1>9 DEF Counts

LEMMA TargetsStayCounted ==
  ASSUME GuessInv, NEW q \in Requests, Counts(q), NEW t \in Targets
  PROVE  TargetCounts(t)'
<1>1. WfInv /\ failures \in [Targets -> Nat] /\ MaxFailures \in Nat
  BY LimitsAssumption DEF GuessInv, WfInv, TypeOK
<1> DEFINE T == Guessers(t)
           k == Cardinality(T)
           m == Cardinality(T')
           r == Cardinality(Requests)
<1>2. /\ k \in Nat /\ r \in Nat /\ Cardinality(T \ {q}) \in Nat /\ Cardinality(T \ {q}) <= k
      /\ q \in T => Cardinality(T \ {q}) + 1 = k
  BY AreRequests, Few
<1>3. m \in Nat /\ m <= r
  <2>1. T' \subseteq Requests
    BY DEF Guessers
  <2> QED
    BY <2>1, Few
<1>4. failures[t] + k < MaxFailures + r /\ failures[t] \in Nat
  BY <1>1 DEF GuessInv, TargetCounts
<1>5. \A x : Put(q, x) => (Comparing(x) /\ TargetOf(x) = t) \/ T' = T \ {q}
  BY <1>1, PutComparers
<1>6. Shut(q) => T' = T \ {q}
  BY <1>1, ShutComparers
<1>7. T' = T \ {q} => m <= k /\ (q \in T => m + 1 = k)
  BY <1>2
<1> SUFFICES failures'[t] + m < MaxFailures + r
  BY DEF TargetCounts
<1>8. Comparing(req[q]) /\ TargetOf(req[q]) = t => q \in T
  BY DEF Guessers
<1> HIDE DEF T, k, m, r
<1>9. ASSUME UNCHANGED failures, T' = T \ {q}
      PROVE  failures'[t] + m < MaxFailures + r
  BY <1>1, <1>2, <1>3, <1>4, <1>7, <1>9
<1>10. CASE Shut(q) /\ UNCHANGED <<codes, failures>>
  BY <1>6, <1>9, <1>10
<1>11. CASE Shut(q) /\ \E target, for : Mint(target, for)
  BY <1>6, <1>9, <1>11 DEF Mint
<1>12. ASSUME UNCHANGED failures, NEW x, Put(q, x), BudgetLeft(TargetOf(x))
       PROVE  failures'[t] + m < MaxFailures + r
  <2>1. CASE TargetOf(x) = t
    <3>1. failures[t] < MaxFailures /\ failures'[t] = failures[t]
      BY <1>12, <2>1 DEF BudgetLeft
    <3> QED
      BY <1>1, <1>2, <1>3, <1>4, <3>1
  <2>2. CASE TargetOf(x) # t
    BY <1>5, <1>9, <1>12, <2>2
  <2> QED
    BY <2>1, <2>2
<1>13. ASSUME Comparing(req[q]), Shut(q), failures' = [failures EXCEPT ![TargetOf(req[q])] = @ + 1]
       PROVE  failures'[t] + m < MaxFailures + r
  <2>1. CASE TargetOf(req[q]) = t
    <3>1. failures'[t] = failures[t] + 1
      BY <1>1, <1>13, <2>1
    <3>2. m + 1 = k
      BY <1>6, <1>7, <1>8, <1>13, <2>1
    <3> QED
      BY <1>1, <1>2, <1>3, <1>4, <3>1, <3>2
  <2>2. CASE TargetOf(req[q]) # t
    <3>1. failures'[t] = failures[t]
      BY <1>1, <1>13, <2>2
    <3>2. m <= k
      BY <1>6, <1>7, <1>13
    <3> QED
      BY <1>1, <1>2, <1>3, <1>4, <3>1, <3>2
  <2> QED
    BY <2>1, <2>2
<1>14. CASE UNCHANGED failures /\ (Shut(q) \/ \E x : Put(q, x) /\ BudgetLeft(TargetOf(x)))
  BY <1>6, <1>9, <1>12, <1>14
<1> QED
  BY <1>10, <1>11, <1>13, <1>14 DEF Counts

\* A start, a resume and what happens elsewhere compare nothing.
LEMMA WorldCounts ==
  ASSUME GuessInv, NEW q \in Requests, Start(q) \/ Resume(q)
  PROVE  Counts(q)
<1>1. PICK p, c, j, dead : Begin(q, c, j) \/ Reopen(q, p, c, j, dead)
  BY DEF Start, Resume
<1>2. \E x : Put(q, x) /\ ~Comparing(x)
  BY <1>1 DEF Begin, Reopen, Put, Comparing
<1>3. UNCHANGED <<codes, failures>>
  BY DEF Start, Resume, Shared
<1> QED
  BY <1>2, <1>3 DEF Shut, Counts

LEMMA StillCounts ==
  ASSUME GuessInv, UNCHANGED <<req, codes, failures>>
  PROVE  (\A n \in DOMAIN codes' : CodeCounts(n)') /\ (\A t \in Targets : TargetCounts(t)')
<1>1. \A n, t : Comparers(n)' = Comparers(n) /\ Guessers(t)' = Guessers(t)
  BY DEF Comparers, Guessers, Comparing, TargetOf, PincodeTarget
<1> QED
  BY <1>1 DEF GuessInv, CodeCounts, TargetCounts

LEMMA GuessKeeps == GuessInv /\ [Next]_vars => GuessInv'
<1> SUFFICES ASSUME GuessInv, [Next]_vars
             PROVE  GuessInv'
  OBVIOUS
<1>1. WfInv /\ WfInv'
  BY StepKeeps DEF GuessInv
<1>2. CASE \E q \in Requests : Counts(q)
  BY <1>1, <1>2, CodesStayCounted, TargetsStayCounted DEF GuessInv
<1>3. CASE UNCHANGED <<req, codes, failures>>
  BY <1>1, <1>3, StillCounts DEF GuessInv
<1>4. Edit \/ UNCHANGED vars => UNCHANGED <<req, codes, failures>>
  BY DEF Edit, vars
<1>5. Next /\ ~Edit => \E q \in Requests : Counts(q)
  BY <1>1, StepCounts, WorldCounts DEF Next
<1> QED
  BY <1>2, <1>3, <1>4, <1>5

LEMMA StartsCounted ==
  ASSUME Init
  PROVE  GuessInv
<1>1. WfInv
  BY StartsSound
<1>2. codes = <<>> /\ DOMAIN codes = {}
  BY DEF Init
<1>3. ASSUME NEW t \in Targets
      PROVE  TargetCounts(t)
  <2>1. Guessers(t) = {}
    BY DEF Init, Guessers, Comparing
  <2>2. Cardinality(Guessers(t)) = 0
    BY <2>1, NoneAreFew
  <2>3. Cardinality(Requests) \in Nat /\ Cardinality(Requests) # 0
    BY RequestsAssumption, FS_EmptySet, FS_CardinalityType
  <2>4. failures[t] = 0 /\ MaxFailures \in Nat
    BY LimitsAssumption DEF Init
  <2> QED
    BY <2>2, <2>3, <2>4 DEF TargetCounts
<1> QED
  BY <1>1, <1>2, <1>3 DEF GuessInv

\* The counters of a code count every request that may still compare it, and those of a
\* target every request that may still fail against it: the second inductive invariant.
THEOREM GuessInvCorrect == Spec => []GuessInv
<1>1. Init => GuessInv
  BY StartsCounted
<1>2. GuessInv /\ [Next]_vars => GuessInv'
  BY GuessKeeps
<1> QED
  BY <1>1, <1>2, PTL DEF Spec

LEMMA GuessBounds ==
  ASSUME GuessInv
  PROVE  GuessesAreBounded
<1>1. codes \in Seq(Code) /\ failures \in [Targets -> Nat] /\ MaxTries \in Nat /\ MaxFailures \in Nat
  BY LimitsAssumption DEF GuessInv, WfInv, TypeOK
<1>2. ASSUME NEW n \in DOMAIN codes
      PROVE  codes[n].wrong + codes[n].wins <= MaxTries
  <2>1. codes[n].wrong \in Nat /\ codes[n].wins \in Nat
    <3>1. codes[n] \in Code
      BY <1>1
    <3> QED
      BY <3>1 DEF Code
  <2>2. Cardinality(Comparers(n)) \in Nat
    BY AreRequests, Few
  <2>3. codes[n].wrong + codes[n].wins + Cardinality(Comparers(n)) <= MaxTries
    BY DEF GuessInv, CodeCounts
  <2> QED
    BY <1>1, <2>1, <2>2, <2>3
<1>3. ASSUME NEW t \in Targets
      PROVE  failures[t] < MaxFailures + Cardinality(Requests)
  <2>1. failures[t] \in Nat /\ Cardinality(Guessers(t)) \in Nat /\ Cardinality(Requests) \in Nat
    BY <1>1, AreRequests, Few
  <2>2. failures[t] + Cardinality(Guessers(t)) < MaxFailures + Cardinality(Requests)
    BY DEF GuessInv, TargetCounts
  <2> QED
    BY <1>1, <2>1, <2>2
<1> QED
  BY <1>2, <1>3 DEF GuessesAreBounded

\* However many copies of a sealed state are submitted at once (verifyPin counts the
\* attempt in the shadow store before it compares), a code is compared at most MaxTries
\* times and the wrong guesses against a target pass its limit by fewer than the requests.
THEOREM GuessesStayBounded == Spec => []GuessesAreBounded
<1>1. GuessInv => GuessesAreBounded
  BY GuessBounds
<1> QED
  BY <1>1, GuessInvCorrect, PTL
================================================================================
