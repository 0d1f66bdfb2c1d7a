---------------------------- MODULE BinderProofs ----------------------------
(***************************************************************************)
(* The bind handshake for every revision, every set of generations and     *)
(* challenges and every retry cap: type correctness, the safety properties *)
(* of Binder, and that it implements BindContract.                         *)
(***************************************************************************)
EXTENDS BindTable, TLAPS

-----------------------------------------------------------------------------
\* The inductive invariant.  Only the first conjunct of PortalInv is about the
\* client: every mint expects the frozen revision.  With it Portal can commit
\* for this sandbox only while its revision is still Expected.

PortalInv ==
    /\ \A req \in mintReqs : req.expected = Expected
    /\ portalRev >= Expected
    /\ DOMAIN receipts # {} => portalRev > Expected
    /\ \A k \in DOMAIN receipts : receipts[k] = Expected + 1
    /\ OneAuthorization

\* A receipt on its way to the client is the one Portal keeps for the boot the
\* client asked for (or a stale one, which the client refuses).
ReplyInv ==
    mintReply.kind = "receipt" /\ mintReply.rev > Expected =>
        pub \in DOMAIN receipts /\ receipts[pub] = mintReply.rev

\* What the client holds agrees with what it did.
EnvInv ==
    /\ env = NoEnv => bindReqs = {}
    /\ env = NoEnv /\ pc # "done" => auths = 0 /\ recorded = Expected
    /\ env # NoEnv => /\ env.ct # 0 /\ env.boot \in Boots
                      /\ env.boot \in DOMAIN receipts
                      /\ recorded = receipts[env.boot]
                      /\ auths = 1
    /\ recorded # Expected => recorded = Expected + 1 /\ DOMAIN receipts # {}
    /\ pc \in {"pubkey", "mint"} => env = NoEnv
    /\ pc = "post" => env # NoEnv
    /\ \A q \in bindReqs : q.ct = env.ct /\ q.boot = env.boot

CoordInv == bound # 0 => bindReqs # {} /\ env.boot = boot

\* The answers given so far: full transactions, then the rounds of this one.
RestoreInv ==
    /\ pc # "done" => restoreRounds <= MaxRestoreRounds
    /\ answers <= (restoreAttempts - 1) * MaxRestoreRounds + restoreRounds
    /\ answers <= MaxBindAttempts * MaxRestoreRounds

SafetyInv == TypeOK /\ PortalInv /\ ReplyInv /\ EnvInv /\ CoordInv /\ RestoreInv

-----------------------------------------------------------------------------
\* The class of a coordinator answer is one of the two.
LEMMA ClassifyType ==
    ASSUME NEW o \in Outcomes
    PROVE  Classify(o).class \in Classes
BY DEF Classify, Outcomes, Classes, Readiness, Terminal, StatusFallback,
       RestoreFailed, ReadinessTypes, StructuralTypes, IdentityTypes,
       UnusableTypes, Statuses, ProblemTypes

-----------------------------------------------------------------------------
\* The decision table.

\* The classification of an answer the server gave, one line per kind of answer.
LEMMA ClassifyCases ==
    ASSUME NEW x \in Outcomes, ~x.fault
    PROVE  /\ x.ptype = "none" =>
                Classify(x) = IF x.status \in {404, 503} THEN Readiness
                                                         ELSE StatusFallback(x.status)
           /\ x.ptype \in ReadinessTypes => Classify(x) = Readiness
           /\ x.ptype = "bind-restore-failed" => Classify(x) = RestoreFailed(x)
           /\ x.ptype = "bind-rejected" => Classify(x) = Terminal("BindAuthError")
           /\ x.ptype \in StructuralTypes \cup IdentityTypes =>
                Classify(x) = Terminal("BindError")
           /\ x.ptype \in UnusableTypes => Classify(x) = Terminal("SandboxUnusableError")
           /\ x.ptype \in {"bind-restore-contended", "bind-restore-no-challenge", "unmapped"} =>
                Classify(x) = StatusFallback(x.status)
BY DEF Classify, Outcomes, ReadinessTypes, StructuralTypes, IdentityTypes, UnusableTypes

\* A row of the table that matches an answer gives the verdict of Classify: rows
\* never disagree with the code, whatever order they are tried in.
LEMMA TypedRow ==
    ASSUME NEW x \in Emitted, ~x.fault, NEW row \in Table, Matches(x, row)
    PROVE  row.verdict = Classify(x)
<1> x \in Outcomes /\ (x.ptype = "bind-restore-contended" => x.status = 409)
  BY DEF Emitted
<1>1. CASE row = Row({"none"}, {404, 503}, BOOLEAN, "readiness", "nil")
  BY <1>1, ClassifyCases DEF Matches, Row, Readiness
<1>2. CASE row = Row({"sandbox-not-found", "sandbox-not-ready", "bind-in-progress",
                      "egress-activation-failed"}, Statuses, BOOLEAN, "readiness", "nil")
  BY <1>2, ClassifyCases DEF ReadinessTypes, Matches, Row, Readiness
<1>3. CASE row = Row({"bind-restore-failed"}, {500, 502, 503}, {FALSE}, "readiness", "nil")
  <2>1. x.ptype = "bind-restore-failed" /\ x.status \in {500, 502, 503}
        /\ row.verdict = Readiness
    BY <1>3 DEF Matches, Row, Readiness
  <2>2. x.epoch \in row.epochs /\ row.epochs = {FALSE}
    BY <1>3, Zenon DEF Matches, Row
  <2>3. ~x.epoch
    BY <2>2, Zenon
  <2>4. RestoreFailed(x) = Readiness
    BY <2>1, <2>3 DEF RestoreFailed
  <2> QED
    BY <2>1, <2>4, ClassifyCases
<1>4. CASE row = Row({"bind-restore-failed"}, Statuses, {TRUE}, "terminal",
                     "ComputerAlreadyAttachedError")
  BY <1>4, ClassifyCases DEF RestoreFailed, Matches, Row, Terminal
<1>5. CASE row = Row({"bind-restore-failed"}, {400, 401, 403, 404, 409, 499}, {FALSE},
                     "terminal", "SavedStateUnavailableError")
  <2>1. x.ptype = "bind-restore-failed" /\ x.status \in {400, 401, 403, 404, 409, 499}
        /\ row.verdict = Terminal("SavedStateUnavailableError")
    BY <1>5 DEF Matches, Row, Terminal
  <2>2. x.epoch \in row.epochs /\ row.epochs = {FALSE}
    BY <1>5, Zenon DEF Matches, Row
  <2>3. ~x.epoch
    BY <2>2, Zenon
  <2>4. RestoreFailed(x) = Terminal("SavedStateUnavailableError")
    BY <2>1, <2>3 DEF RestoreFailed
  <2> QED
    BY <2>1, <2>4, ClassifyCases
<1>6. CASE row = TypeRow({"stale-coord-boot-id", "wrong-pod-uid", "ephem-pub-mismatch",
                          "bind-not-configured", "bind-lease-unenforceable",
                          "bind-restore-contended"}, "BindError")
  BY <1>6, ClassifyCases DEF StructuralTypes, IdentityTypes, StatusFallback, Matches, Row, TypeRow, Terminal
<1>7. CASE row = TypeRow({"bind-rejected"}, "BindAuthError")
  BY <1>7, ClassifyCases DEF Matches, Row, TypeRow, Terminal
<1>8. CASE row = TypeRow({"already-bound-different-cid", "pod-tainted"},
                         "SandboxUnusableError")
  BY <1>8, ClassifyCases DEF UnusableTypes, Matches, Row, TypeRow, Terminal
<1>9. QED
  BY <1>1, <1>2, <1>3, <1>4, <1>5, <1>6, <1>7, <1>8 DEF Table

\* An answer no typed row matches has one matching fallback row at least, and each
\* of those gives the verdict of Classify.
LEMMA FallbackRow ==
    ASSUME NEW x \in Emitted, ~x.fault, \A row \in Table : ~Matches(x, row)
    PROVE  /\ \A row \in Fallback : Matches(x, row) => row.verdict = Classify(x)
           /\ \E row \in Fallback : Matches(x, row)
<1> x \in Outcomes
  BY DEF Emitted
<1>1. /\ x.ptype \in {"none", "bind-restore-no-challenge", "unmapped"}
      /\ x.ptype = "none" => x.status \notin {404, 503}
  <2>1. x.ptype = "none" => x.status \notin {404, 503}
    BY DEF Table, Matches, Outcomes, Row
  <2>2. x.ptype \notin {"sandbox-not-found", "sandbox-not-ready", "bind-in-progress",
                        "egress-activation-failed"}
    BY DEF Table, Matches, Outcomes, Row
  <2>3. x.ptype # "bind-restore-failed"
    <3> DEFINE held == Row({"bind-restore-failed"}, Statuses, {TRUE}, "terminal",
                           "ComputerAlreadyAttachedError")
               down == Row({"bind-restore-failed"}, {500, 502, 503}, {FALSE},
                           "readiness", "nil")
               lost == Row({"bind-restore-failed"}, {400, 401, 403, 404, 409, 499},
                           {FALSE}, "terminal", "SavedStateUnavailableError")
    <3>1. held \in Table /\ down \in Table /\ lost \in Table
      BY DEF Table
    <3>2. x.status \in Statuses /\ x.epoch \in BOOLEAN
          /\ (x.status \in {500, 502, 503} \/ x.status \in {400, 401, 403, 404, 409, 499})
      BY DEF Outcomes, Statuses
    <3>3. ~Matches(x, held) /\ ~Matches(x, down) /\ ~Matches(x, lost)
      BY <3>1 DEF Matches
    <3> SUFFICES ASSUME x.ptype = "bind-restore-failed" PROVE FALSE
      OBVIOUS
    <3>4. x.ptype \in {"bind-restore-failed"}
      OBVIOUS
    <3>5. x.status \in Statuses /\ x.epoch \in {TRUE} => Matches(x, held)
      BY <3>4, Zenon DEF Matches, Row
    <3>6. x.status \in {500, 502, 503} /\ x.epoch \in {FALSE} => Matches(x, down)
      BY <3>4, Zenon DEF Matches, Row
    <3>7. x.status \in {400, 401, 403, 404, 409, 499} /\ x.epoch \in {FALSE} =>
            Matches(x, lost)
      BY <3>4, Zenon DEF Matches, Row
    <3> HIDE DEF held, down, lost
    <3> QED
      BY <3>2, <3>3, <3>5, <3>6, <3>7, Zenon
  <2>4. x.ptype \notin {"stale-coord-boot-id", "wrong-pod-uid", "ephem-pub-mismatch",
                          "bind-not-configured", "bind-lease-unenforceable",
                          "bind-restore-contended", "bind-rejected",
                          "already-bound-different-cid", "pod-tainted"}
    BY DEF Table, TypeRow, Matches, Outcomes, Row
  <2> QED
    BY <2>1, <2>2, <2>3, <2>4 DEF Outcomes, ProblemTypes
<1>2. Classify(x) = StatusFallback(x.status)
  BY <1>1, ClassifyCases DEF Matches, Row, Readiness
<1>3. \A row \in Fallback : Matches(x, row) => row.verdict = Classify(x)
  BY <1>2 DEF Fallback, Matches, StatusFallback, Terminal, Row
<1>4. \E row \in Fallback : Matches(x, row)
  BY DEF Fallback, Matches, Outcomes, Statuses, Row
<1> QED
  BY <1>3, <1>4

\* Classify is the shared decision table, on every outcome a server can emit.
THEOREM ClassifyIsTheTable == ClassifiesAsTable
<1> SUFFICES ASSUME NEW x \in Emitted
             PROVE  IF x.fault THEN Classify(x) = Readiness
                               ELSE Verdicts(x) = {Classify(x)}
  BY DEF ClassifiesAsTable
<1>1. CASE x.fault
  BY <1>1 DEF Classify, Emitted
<1>2. CASE ~x.fault
  <2> DEFINE typed == { row \in Table : Matches(x, row) }
  <2>1. CASE typed # {}
    <3>1. { row.verdict : row \in typed } = {Classify(x)}
      BY <1>2, <2>1, TypedRow, Zenon
    <3> QED
      BY <1>2, <2>1, <3>1 DEF Verdicts
  <2>2. CASE typed = {}
    <3>0. \A row \in Table : ~Matches(x, row)
      BY <2>2
    <3>1. { row.verdict : row \in { row \in Fallback : Matches(x, row) } } = {Classify(x)}
      BY <1>2, <3>0, FallbackRow, Zenon
    <3> QED
      BY <1>2, <2>2, <3>1 DEF Verdicts
  <2> QED
    BY <2>1, <2>2
<1> QED
  BY <1>1, <1>2

\* AgreesWithTable for every revision and every set of answers: the verdict the loop
\* acts on is the one the SDKs share.
THEOREM TableAgreement == Spec => []AgreesWithTable
<1>1. AgreesWithTable
  BY ClassifyIsTheTable DEF AgreesWithTable
<1> QED
  BY <1>1, PTL

-----------------------------------------------------------------------------
\* The arithmetic of RestoreInv, out of the way of the records.
LEMMA Transactions ==
    ASSUME NEW a \in Nat \ {0}, NEW m \in Nat, NEW b \in Nat, a <= b,
           NEW n \in Nat, NEW r \in Nat, n <= (a - 1) * m + r
    PROVE  /\ r <= m => n <= ((a + 1) - 1) * m + 0
           /\ r + 1 <= m => n + 1 <= b * m
<1>1. ((a + 1) - 1) * m = (a - 1) * m + m
  OBVIOUS
<1>2. a * m = (a - 1) * m + m
  OBVIOUS
<1>3. (b - a) * m >= 0 /\ b * m = a * m + (b - a) * m
  OBVIOUS
<1>4. (a - 1) * m \in Int /\ a * m \in Int /\ b * m \in Int
  OBVIOUS
<1>5. QED
  BY <1>1, <1>2, <1>3, <1>4

-----------------------------------------------------------------------------
\* Bind begins with nothing minted, sealed or recorded.
LEMMA InitInv == Init => SafetyInv
<1> SUFFICES ASSUME Init PROVE SafetyInv
  OBVIOUS
<1> USE BinderAssumption DEF Init
<1>1. TypeOK
  <2>1. env \in Env
    BY DEF NoEnv, Env
  <2>2. mintReply \in MintReplies /\ bindReply \in BindReplies
    BY DEF NoReply, MintReplies, BindReplies
  <2>3. DOMAIN receipts = {}
    OBVIOUS
  <2>4. pub \in 0 .. MaxBoots /\ boot \in Boots /\ restoreAttempts \in 1 .. MaxBindAttempts
        /\ restoreRounds \in 0 .. MaxRestoreRounds + 1
    BY DEF Boots
  <2>5. cancelled \in BOOLEAN /\ late \in BOOLEAN
    BY Zenon
  <2>6. result \in Results /\ (result = "running" <=> pc # "done")
    BY DEF Results
  <2>7. mintReqs \subseteq MintReqs /\ bindReqs \subseteq BindReqs
    OBVIOUS
  <2>8. portalRev \in Nat /\ bound \in Nat /\ challenge \in Challenges \cup {0}
        /\ recorded \in Nat /\ auths \in Nat /\ seals \in Nat /\ answers \in Nat
    OBVIOUS
  <2>9. pc \in {"top", "pubkey", "mint", "post", "done"}
    OBVIOUS
  <2> QED
    BY <2>1, <2>2, <2>3, <2>4, <2>5, <2>6, <2>7, <2>8, <2>9 DEF TypeOK
<1>2. PortalInv /\ ReplyInv
  BY DEF PortalInv, OneAuthorization, ReplyInv, NoReply
<1>3. EnvInv /\ CoordInv
  BY DEF EnvInv, CoordInv, NoEnv
<1>4. RestoreInv
  BY DEF RestoreInv
<1>5. QED
  BY <1>1, <1>2, <1>3, <1>4 DEF SafetyInv

-----------------------------------------------------------------------------
\* Steps of the Bind loop.

\* A step that only moves the loop on, or returns, preserves the invariant.
\* Most of the loop's error paths are such steps.
LEMMA MoveInv ==
    ASSUME SafetyInv, pc # "done",
           \/ pc' = "top" /\ result' = result
           \/ pc' = "done" /\ result' \in Results \ {"running"},
           UNCHANGED <<pub, env, restoreAttempts, restoreRounds, recorded, auths,
                       seals, answers, wires, ambient, portal, coord>>
    PROVE  SafetyInv'
<1> USE DEF SafetyInv, wires, ambient, portal, coord
<1>1. TypeOK'
  BY DEF TypeOK, Results
<1>2. PortalInv' /\ ReplyInv' /\ CoordInv' /\ RestoreInv'
  BY DEF PortalInv, OneAuthorization, ReplyInv, CoordInv, RestoreInv
<1>3. EnvInv'
  BY DEF EnvInv
<1>4. QED
  BY <1>1, <1>2, <1>3

\* A failed attempt goes back to the top of the loop or ends Bind with an error.
LEMMA FailMoves ==
    ASSUME NEW class, Fail(class), TypeOK, pc # "done"
    PROVE  \/ pc' = "top" /\ result' = result
           \/ pc' = "done" /\ result' \in Results \ {"running"}
BY DEF Fail, Again, Return, Results

\* Steps of Bind that mint, seal and answer nothing.
LEMMA QuietInv ==
    SafetyInv /\ (Abandon \/ MintFault \/ MintRefused \/ PostFault \/ PostError \/ PostOk)
        => SafetyInv'
<1> SUFFICES ASSUME SafetyInv,
                    Abandon \/ MintFault \/ MintRefused \/ PostFault \/ PostError \/ PostOk
             PROVE  SafetyInv'
  OBVIOUS
<1> USE DEF SafetyInv
<1>1. CASE Abandon \/ PostOk
  BY <1>1, MoveInv DEF Abandon, PostOk, Return, Results
<1>2. CASE MintFault \/ MintRefused \/ PostFault
  BY <1>2, MoveInv, FailMoves DEF MintFault, MintRefused, PostFault
<1>3. CASE PostError
  BY <1>3, MoveInv, FailMoves DEF PostError
<1>4. QED
  BY <1>1, <1>2, <1>3

\* The top of the loop: mint first, or post the envelope kept from before.
LEMMA TopInv == SafetyInv /\ Top => SafetyInv'
<1> SUFFICES ASSUME SafetyInv, Top PROVE SafetyInv'
  OBVIOUS
<1> USE BinderAssumption DEF Top, SafetyInv, client, ambient, wires, portal, coord
<1>1. TypeOK'
  BY DEF TypeOK, NoReply, BindReplies, Results, Env, BindReq, BindReqs, Return
<1>2. PortalInv' /\ ReplyInv'
  BY DEF PortalInv, OneAuthorization, ReplyInv
<1>3. EnvInv' /\ CoordInv' /\ RestoreInv'
  BY DEF EnvInv, CoordInv, RestoreInv, BindReq, Return
<1>4. QED
  BY <1>1, <1>2, <1>3

\* The coordinator's key is read before the mint that names its boot.
LEMMA FetchPubkeyInv == SafetyInv /\ FetchPubkey => SafetyInv'
<1> SUFFICES ASSUME SafetyInv, FetchPubkey PROVE SafetyInv'
  OBVIOUS
<1> USE BinderAssumption DEF FetchPubkey, SafetyInv, client, ambient, wires, portal, coord
<1>1. CASE UNCHANGED <<pub, mintReqs>>
  <2>1. pc # "done" /\ (\/ pc' = "top" /\ result' = result
                        \/ pc' = "done" /\ result' \in Results \ {"running"}
                        \/ pc' = "mint" /\ result' = result /\ pub' = boot)
    BY FailMoves
  <2>2. TypeOK'
    BY <2>1, <1>1 DEF TypeOK, NoReply, MintReplies, Results
  <2>3. PortalInv' /\ ReplyInv' /\ CoordInv'
    BY <1>1 DEF PortalInv, OneAuthorization, ReplyInv, CoordInv, NoReply
  <2>4. EnvInv' /\ RestoreInv'
    BY <2>1 DEF EnvInv, RestoreInv
  <2>5. QED
    BY <2>2, <2>3, <2>4
<1>2. CASE /\ pub' = boot /\ pc' = "mint" /\ UNCHANGED result
           /\ mintReqs' = mintReqs \cup {[boot |-> boot, expected |-> MintExpected]}
  <2>1. TypeOK'
    BY <1>2 DEF TypeOK, NoReply, MintReplies, Boots, MintReqs, MintExpected
  <2>2. PortalInv' /\ ReplyInv' /\ CoordInv'
    BY <1>2 DEF PortalInv, OneAuthorization, ReplyInv, CoordInv, NoReply, MintExpected
  <2>3. EnvInv' /\ RestoreInv'
    BY <1>2 DEF EnvInv, RestoreInv
  <2>4. QED
    BY <2>1, <2>2, <2>3
<1>3. QED
  BY <1>1, <1>2

\* A receipt is recorded, then the envelope is sealed for its boot.
LEMMA MintReceiptInv == SafetyInv /\ MintReceipt => SafetyInv'
<1> SUFFICES ASSUME SafetyInv, MintReceipt PROVE SafetyInv'
  OBVIOUS
<1> USE BinderAssumption DEF MintReceipt, SafetyInv, client, ambient, wires, portal, coord
<1>1. mintReply.rev \in Nat
  BY DEF TypeOK, MintReplies, NoReply
<1>2. CASE mintReply.rev <= Expected
  BY <1>2, MoveInv, FailMoves
<1>3. CASE mintReply.rev > Expected
  <2>1. /\ recorded' = mintReply.rev /\ auths' = 1
        /\ recorded' = receipts[pub] /\ pub \in DOMAIN receipts
        /\ env = NoEnv /\ bindReqs = {}
    BY <1>1, <1>3 DEF TypeOK, ReplyInv, EnvInv
  <2>2. CASE /\ seals' = seals + 1 /\ Again
             /\ env' = [boot |-> pub, rev |-> mintReply.rev,
                        ct |-> seals + 1, secrets |-> 0]
    <3>1. TypeOK'
      BY <1>1, <2>1, <2>2 DEF TypeOK, Env, Again
    <3>2. PortalInv' /\ ReplyInv'
      BY DEF PortalInv, OneAuthorization, ReplyInv
    <3>3. EnvInv' /\ CoordInv' /\ RestoreInv'
      BY <2>1, <2>2 DEF TypeOK, EnvInv, RestoreInv, CoordInv, PortalInv, NoEnv, Again, Boots
    <3>4. QED
      BY <3>1, <3>2, <3>3
  <2>3. CASE Fail("terminal") /\ UNCHANGED <<env, seals>>
    <3>1. pc' = "done" /\ result' = "terminal"
      BY <2>3 DEF Fail, Return
    <3>2. TypeOK'
      BY <1>1, <2>1, <2>3, <3>1 DEF TypeOK, Results
    <3>3. PortalInv' /\ ReplyInv'
      BY DEF PortalInv, OneAuthorization, ReplyInv
    <3>4. EnvInv' /\ CoordInv' /\ RestoreInv'
      BY <2>1, <2>3, <3>1 DEF EnvInv, RestoreInv, CoordInv, PortalInv
    <3>5. QED
      BY <3>2, <3>3, <3>4
  <2>4. QED
    BY <1>1, <1>3, <2>2, <2>3
<1>4. QED
  BY <1>1, <1>2, <1>3

\* An expired challenge starts the restore over, within the cap.
LEMMA PostExpiredInv == SafetyInv /\ PostExpired => SafetyInv'
<1> SUFFICES ASSUME SafetyInv, PostExpired PROVE SafetyInv'
  OBVIOUS
<1> USE BinderAssumption DEF PostExpired, SafetyInv, client, ambient, wires, portal, coord
<1>1. TypeOK'
  BY DEF TypeOK, Env, Results, Again, Return
<1>2. PortalInv' /\ ReplyInv'
  BY DEF PortalInv, OneAuthorization, ReplyInv
<1>3. EnvInv' /\ CoordInv'
  BY DEF TypeOK, EnvInv, CoordInv, Env, NoEnv, Again, Return
<1>4. RestoreInv'
  <2>1. answers <= ((restoreAttempts + 1) - 1) * MaxRestoreRounds + 0
    BY Transactions DEF TypeOK, RestoreInv
  <2>2. QED
    BY <2>1 DEF TypeOK, RestoreInv, Again, Return
<1>5. QED
  BY <1>1, <1>2, <1>3, <1>4

\* A challenge is answered, within the rounds of its transaction.
LEMMA PostChallengeInv == SafetyInv /\ PostChallenge => SafetyInv'
<1> SUFFICES ASSUME SafetyInv, PostChallenge PROVE SafetyInv'
  OBVIOUS
<1> USE BinderAssumption DEF PostChallenge, SafetyInv, client, ambient, wires, portal, coord
<1>1. TypeOK'
  <2>1. bindReply.id \in Challenges
    BY DEF TypeOK, BindReplies, ChallengeReply, NoReply
  <2>2. restoreRounds' \in 0 .. MaxRestoreRounds + 1
    BY DEF TypeOK, RestoreInv
  <2>3. QED
    BY <2>1, <2>2 DEF TypeOK, Env, Results, Again, Return
<1>2. PortalInv' /\ ReplyInv'
  BY DEF PortalInv, OneAuthorization, ReplyInv
<1>3. EnvInv' /\ CoordInv'
  BY DEF TypeOK, EnvInv, CoordInv, Env, NoEnv, Again, Return
<1>4. RestoreInv'
  <2>1. /\ restoreAttempts \in Nat \ {0} /\ restoreAttempts <= MaxBindAttempts
        /\ restoreRounds \in Nat /\ answers \in Nat
        /\ answers <= (restoreAttempts - 1) * MaxRestoreRounds + restoreRounds
    BY DEF TypeOK, RestoreInv
  <2>2. restoreRounds + 1 <= MaxRestoreRounds =>
            answers + 1 <= MaxBindAttempts * MaxRestoreRounds
    BY <2>1, Transactions
  <2>3. QED
    BY <2>2 DEF TypeOK, RestoreInv, Again, Return
<1>5. QED
  BY <1>1, <1>2, <1>3, <1>4

-----------------------------------------------------------------------------
\* Steps of the environment.

\* Time, the caller, rivals and the expiry of challenges.
LEMMA AmbientInv ==
    SafetyInv /\ (Cancel \/ DeadlinePasses \/ RivalAuthorizes \/ ChallengeExpires)
        => SafetyInv'
<1> SUFFICES ASSUME SafetyInv,
                    Cancel \/ DeadlinePasses \/ RivalAuthorizes \/ ChallengeExpires
             PROVE  SafetyInv'
  OBVIOUS
<1> USE BinderAssumption DEF SafetyInv, client, ambient, wires, portal, coord
<1>1. CASE Cancel \/ DeadlinePasses
  <2>1. cancelled' \in BOOLEAN /\ late' \in BOOLEAN
    BY <1>1, Zenon DEF TypeOK, Cancel, DeadlinePasses
  <2>2. UNCHANGED <<client, wires, portal, coord>>
    BY <1>1 DEF Cancel, DeadlinePasses
  <2>3. TypeOK'
    BY <2>1, <2>2 DEF TypeOK
  <2>4. QED
    BY <2>2, <2>3 DEF PortalInv, OneAuthorization, ReplyInv, EnvInv, CoordInv, RestoreInv
<1>2. CASE RivalAuthorizes
  BY <1>2 DEF RivalAuthorizes, TypeOK, PortalInv, OneAuthorization, ReplyInv,
              EnvInv, CoordInv, RestoreInv
<1>3. CASE ChallengeExpires
  BY <1>3 DEF ChallengeExpires, TypeOK, PortalInv, OneAuthorization, ReplyInv,
              EnvInv, CoordInv, RestoreInv
<1>4. QED
  BY <1>1, <1>2, <1>3

\* A coordinator that reboots is unbound and has another key.
LEMMA CoordRebootsInv == SafetyInv /\ CoordReboots => SafetyInv'
<1> SUFFICES ASSUME SafetyInv, CoordReboots PROVE SafetyInv'
  OBVIOUS
<1> USE BinderAssumption DEF CoordReboots, SafetyInv, client, ambient, wires, portal, coord
<1>1. TypeOK'
  BY DEF TypeOK, Boots
<1>2. QED
  BY <1>1 DEF PortalInv, OneAuthorization, ReplyInv, EnvInv, CoordInv, RestoreInv

\* Portal commits, repeats or refuses a mint, also a late one.
LEMMA PortalInvStep ==
    ASSUME SafetyInv, NEW req \in mintReqs, PortalMint(req) \/ PortalFails(req)
    PROVE  SafetyInv'
<1> USE BinderAssumption DEF SafetyInv, client, ambient, wires, portal, coord
<1>1. UNCHANGED <<client, ambient, mintReqs, bindReqs, bindReply, coord>>
  BY DEF PortalMint, PortalFails
<1>2. req \in MintReqs /\ req.boot \in Boots /\ req.expected = Expected
  BY DEF TypeOK, MintReqs, PortalInv
<1>3. \/ UNCHANGED portal
      \/ /\ DOMAIN receipts = {} /\ portalRev = Expected /\ portalRev' = Expected + 1
         /\ receipts' = [k \in {req.boot} |-> Expected + 1]
  <2>1. CASE /\ req.boot \notin DOMAIN receipts /\ req.expected = portalRev
             /\ portalRev' = portalRev + 1
             /\ receipts' = [k \in DOMAIN receipts \cup {req.boot} |->
                                IF k = req.boot THEN portalRev + 1 ELSE receipts[k]]
    <3>1. portalRev = Expected /\ ~(portalRev > Expected)
      BY <1>2, <2>1
    <3>2. DOMAIN receipts = {}
      BY <3>1 DEF PortalInv
    <3>3. QED
      BY <2>1, <3>1, <3>2
  <2>2. QED
    BY <2>1 DEF PortalMint, PortalFails
<1>4. \/ mintReply' = mintReply
      \/ mintReply' = [kind |-> "refused"]
      \/ \E d \in Defects : mintReply' = [kind |-> "receipt", rev |-> Expected, defect |-> d]
      \/ /\ pub = req.boot /\ req.boot \in DOMAIN receipts'
         /\ \E d \in Defects : mintReply' = [kind |-> "receipt", rev |-> receipts'[req.boot],
                                             defect |-> d]
  <2>1. CASE PortalFails(req)
    BY <2>1 DEF PortalFails, AnswerMint, Defects
  <2>2. CASE PortalMint(req)
    BY <1>2, <1>3, <2>2 DEF PortalMint, AnswerMint, TypeOK, PortalInv
  <2>3. QED
    BY <2>1, <2>2
<1>5. DOMAIN receipts' \subseteq Boots /\ \A k \in DOMAIN receipts' : receipts'[k] \in Nat
  BY <1>2, <1>3 DEF TypeOK
<1>6. mintReply' \in MintReplies
  BY <1>2, <1>4, <1>5 DEF TypeOK, MintReplies
<1>7. TypeOK'
  BY <1>1, <1>3, <1>5, <1>6 DEF TypeOK
<1>8. PortalInv'
  BY <1>1, <1>3 DEF PortalInv, OneAuthorization
<1>9. ReplyInv'
  <2>1. \A k \in DOMAIN receipts : k \in DOMAIN receipts' /\ receipts'[k] = receipts[k]
    BY <1>3
  <2>2. QED
    BY <1>1, <1>4, <2>1 DEF ReplyInv
<1>10. EnvInv'
  BY <1>1, <1>3 DEF EnvInv
<1>11. CoordInv' /\ RestoreInv'
  BY <1>1 DEF CoordInv, RestoreInv
<1>12. QED
  BY <1>7, <1>8, <1>9, <1>10, <1>11

\* The coordinator handles a post, also a late one.
LEMMA CoordBindInv ==
    ASSUME SafetyInv, NEW req \in bindReqs, CoordBind(req)
    PROVE  SafetyInv'
<1> USE BinderAssumption DEF SafetyInv, client, ambient, wires, portal, coord
<1>1. UNCHANGED <<client, ambient, mintReqs, mintReply, bindReqs, portal, boot>>
  BY DEF CoordBind
<1>2. req.ct \in Nat /\ req.ct = env.ct /\ req.boot = env.boot
  BY DEF TypeOK, BindReqs, EnvInv
<1>3. bound' = bound \/ (bound' = req.ct /\ req.boot = boot)
  BY DEF CoordBind, CoordError, Issue, Settle
<1>4. challenge' \in Challenges \cup {0}
  BY DEF TypeOK, CoordBind, CoordError, Issue, Settle
<1>5. bindReply' \in BindReplies
  <2>1. ASSUME NEW r \in BindReplies, AnswerBind(req, r) PROVE bindReply' \in BindReplies
    BY <2>1 DEF AnswerBind, TypeOK
  <2>2. ASSUME NEW o \in Outcomes PROVE [kind |-> "error", o |-> o] \in BindReplies
    BY DEF BindReplies
  <2>3. [kind |-> "ok"] \in BindReplies
    BY DEF BindReplies
  <2>4. ASSUME NEW c \in Challenges, NEW comps \in SUBSET Generations, NEW good \in BOOLEAN
        PROVE  [kind |-> "challenge", id |-> c, comps |-> comps, good |-> good] \in BindReplies
    BY DEF BindReplies, ChallengeReply
  <2>5. ASSUME NEW t, CoordError(req, t) PROVE bindReply' \in BindReplies
    BY <2>1, <2>2, <2>5 DEF CoordError
  <2>6. ASSUME Issue(req) PROVE bindReply' \in BindReplies
    BY <2>1, <2>4, <2>6 DEF Issue
  <2>7. ASSUME Settle(req) PROVE bindReply' \in BindReplies
    BY <2>1, <2>3, <2>7 DEF Settle
  <2>8. QED
    BY <2>1, <2>2, <2>3, <2>5, <2>6, <2>7 DEF CoordBind
<1>6. TypeOK'
  BY <1>1, <1>2, <1>3, <1>4, <1>5 DEF TypeOK
<1>7. PortalInv' /\ ReplyInv' /\ EnvInv' /\ RestoreInv'
  BY <1>1 DEF PortalInv, OneAuthorization, ReplyInv, EnvInv, RestoreInv
<1>8. CoordInv'
  BY <1>1, <1>2, <1>3 DEF CoordInv
<1>9. QED
  BY <1>6, <1>7, <1>8

-----------------------------------------------------------------------------
\* The invariant is inductive.
LEMMA NextInv == SafetyInv /\ [Next]_vars => SafetyInv'
<1> SUFFICES ASSUME SafetyInv, [Next]_vars PROVE SafetyInv'
  OBVIOUS
<1>1. CASE Bind
  BY <1>1, TopInv, QuietInv, FetchPubkeyInv, MintReceiptInv, PostExpiredInv,
     PostChallengeInv DEF Bind
<1>2. CASE Environment
  BY <1>2, AmbientInv, CoordRebootsInv, PortalInvStep, CoordBindInv DEF Environment
<1>3. CASE UNCHANGED vars
  BY <1>3 DEF vars, client, ambient, wires, portal, coord, SafetyInv, TypeOK,
     PortalInv, OneAuthorization, ReplyInv, EnvInv, CoordInv, RestoreInv
<1>4. QED
  BY <1>1, <1>2, <1>3 DEF Next

\* The inductive invariant holds throughout.
LEMMA SafetyInvariant == Spec => []SafetyInv
BY InitInv, NextInv, PTL DEF Spec

\* Every variable of the handshake keeps its type, in particular the restore
\* counters stay within the caps of Config.
THEOREM TypeCorrect == Spec => []TypeOK
BY SafetyInvariant, PTL DEF SafetyInv

\* Portal commits at most one receipt for the sandbox of one Bind, for every
\* number of boots, rivals and repeated mints.
THEOREM OneAuthorizationHolds == Spec => []OneAuthorization
<1>1. SafetyInv => OneAuthorization
  BY DEF SafetyInv, PortalInv
<1>2. QED
  BY <1>1, SafetyInvariant, PTL

\* Only one envelope ever reaches the wire.
THEOREM SameEnvelopeHolds == Spec => []SameEnvelope
<1>1. SafetyInv => SameEnvelope
  BY DEF SafetyInv, EnvInv, SameEnvelope
<1>2. QED
  BY <1>1, SafetyInvariant, PTL

\* A bound pod is an authorized and recorded one; what is recorded is what
\* Portal committed.
THEOREM AuthorizedFirstHolds == Spec => []AuthorizedFirst
<1>1. SafetyInv => BoundIsAuthorized
  BY DEF SafetyInv, TypeOK, CoordInv, EnvInv, BoundIsAuthorized
<1>2. SafetyInv => RecordedIsCommitted
  BY BinderAssumption DEF SafetyInv, TypeOK, EnvInv, PortalInv, RecordedIsCommitted
<1>3. SafetyInv => AuthorizedFirst
  BY <1>1, <1>2 DEF AuthorizedFirst
<1>4. QED
  BY <1>3, SafetyInvariant, PTL

\* The restore loop answers a bounded number of challenges, for every cap.
THEOREM RestoreBoundedHolds == Spec => []RestoreBounded
<1>1. SafetyInv => RestoreBounded
  BY DEF SafetyInv, RestoreInv, RestoreBounded
<1>2. QED
  BY <1>1, SafetyInvariant, PTL

\* After the authorization is recorded no step mints again.
THEOREM NoRemintHolds == Spec => NoRemint
<1>1. SafetyInv /\ [Next]_vars => [auths > 0 => mintReqs' = mintReqs /\ auths' = auths]_vars
  <2> SUFFICES ASSUME SafetyInv, Next, auths > 0
               PROVE  mintReqs' = mintReqs /\ auths' = auths
    OBVIOUS
  <2>1. pc \notin {"pubkey", "mint"}
    BY DEF SafetyInv, TypeOK, EnvInv
  <2>2. CASE Bind
    BY <2>1, <2>2 DEF Bind, Top, Abandon, FetchPubkey, MintFault, MintRefused,
       MintReceipt, PostFault, PostError, PostExpired, PostChallenge, PostOk, wires
  <2>3. CASE Environment
    BY <2>3 DEF Environment, Cancel, DeadlinePasses, RivalAuthorizes, CoordReboots,
       ChallengeExpires, PortalMint, PortalFails, CoordBind, client, wires
  <2>4. QED
    BY <2>2, <2>3 DEF Next
<1>2. QED
  BY <1>1, SafetyInvariant, PTL DEF NoRemint, Spec

-----------------------------------------------------------------------------
\* Binder implements BindContract.

\* The handshake's initial states are the contract's.
LEMMA ContractInit == Init => Contract!Init
BY DEF Init, Contract!Init, NoEnv

\* A step that leaves the recorded revision and the envelope's seal alone is a
\* stutter of the contract, or its end without success.
LEMMA ContractQuiet ==
    ASSUME recorded' = recorded, env'.boot = env.boot, env'.ct = env.ct,
           \/ result' = result
           \/ result = "running" /\ result' \in {"timeout", "cancelled", "restore", "terminal"}
    PROVE  [Contract!Next]_(Contract!vars)
BY DEF Contract!Next, Contract!GiveUp, Contract!vars

\* Recording a receipt and sealing the envelope is the contract's authorization.
LEMMA ContractReceipt ==
    ASSUME SafetyInv, MintReceipt
    PROVE  [Contract!Next]_(Contract!vars)
<1> USE BinderAssumption DEF MintReceipt
<1>1. mintReply.rev \in Nat /\ env = NoEnv /\ recorded = Expected /\ result = "running"
  BY DEF SafetyInv, TypeOK, MintReplies, NoReply, EnvInv
<1>2. CASE mintReply.rev <= Expected
  BY <1>1, <1>2, ContractQuiet DEF Fail, Return
<1>3. CASE mintReply.rev > Expected
  <2>1. recorded' \in Nat /\ recorded' > Expected
    BY <1>1, <1>3
  <2>2. <<env.boot, env.ct>> = <<0, 0>>
    BY <1>1 DEF NoEnv
  <2>3. CASE seals' = seals + 1 /\ Again /\ env'.ct = seals + 1
    <3>1. <<env'.boot, env'.ct>> # <<0, 0>> /\ result' = "running"
      BY <1>1, <2>3 DEF SafetyInv, TypeOK, Again
    <3>2. QED
      BY <1>1, <2>1, <2>2, <3>1 DEF Contract!Next, Contract!Authorize, Contract!vars
  <2>4. CASE Fail("terminal") /\ UNCHANGED <<env, seals>>
    BY <1>1, <2>1, <2>2, <2>4
       DEF Fail, Return, Contract!Next, Contract!Authorize, Contract!vars
  <2>5. QED
    BY <1>1, <1>3, <2>3, <2>4
<1>4. QED
  BY <1>1, <1>2, <1>3

\* Success is the contract's success.
LEMMA ContractOk ==
    ASSUME SafetyInv, PostOk
    PROVE  [Contract!Next]_(Contract!vars)
<1>1. env.ct # 0 /\ result = "running" /\ result' = "ok" /\ UNCHANGED <<recorded, env>>
  BY DEF SafetyInv, TypeOK, EnvInv, PostOk, Return
<1>2. QED
  BY <1>1 DEF Contract!Next, Contract!Succeed, Contract!vars

\* The handshake as the attach sees it: one authorization recorded at once and
\* never replaced, one envelope sealed under it, success only with it.
THEOREM Refinement == Spec => ImplementsContract
<1>1. SafetyInv /\ [Next]_vars => [Contract!Next]_(Contract!vars)
  <2> SUFFICES ASSUME SafetyInv, [Next]_vars PROVE [Contract!Next]_(Contract!vars)
    OBVIOUS
  <2>1. CASE MintReceipt
    BY <2>1, ContractReceipt
  <2>2. CASE PostOk
    BY <2>2, ContractOk
  <2>3. CASE MintFault \/ MintRefused \/ PostFault \/ PostError \/ FetchPubkey
    <3>1. UNCHANGED <<recorded, env>> /\ pc # "done"
      BY <2>3 DEF MintFault, MintRefused, PostFault, PostError, FetchPubkey
    <3>2. result' = result \/ result' \in {"timeout", "terminal"}
      BY <2>3 DEF MintFault, MintRefused, PostFault, PostError, FetchPubkey,
                  Fail, Again, Return
    <3>3. QED
      BY <3>1, <3>2, ContractQuiet DEF SafetyInv, TypeOK
  <2>4. CASE Top \/ Abandon
    <3>1. UNCHANGED <<recorded, env>> /\ pc # "done"
      BY <2>4 DEF Top, Abandon
    <3>2. result' = result \/ result' = "cancelled"
      BY <2>4 DEF Top, Abandon, Return
    <3>3. QED
      BY <3>1, <3>2, ContractQuiet DEF SafetyInv, TypeOK
  <2>5. CASE PostExpired \/ PostChallenge
    <3>1. /\ recorded' = recorded /\ pc # "done"
          /\ env'.boot = env.boot /\ env'.ct = env.ct
      BY <2>5 DEF PostExpired, PostChallenge, SafetyInv, TypeOK, Env
    <3>2. result' = result \/ result' = "restore"
      BY <2>5 DEF PostExpired, PostChallenge, Again, Return
    <3>3. QED
      BY <3>1, <3>2, ContractQuiet DEF SafetyInv, TypeOK
  <2>6. CASE Environment
    <3>1. UNCHANGED client
      BY <2>6 DEF Environment, Cancel, DeadlinePasses, RivalAuthorizes, CoordReboots,
         ChallengeExpires, PortalMint, PortalFails, CoordBind
    <3>2. QED
      BY <3>1, ContractQuiet DEF client
  <2>7. CASE UNCHANGED vars
    BY <2>7, ContractQuiet DEF vars, client
  <2>8. QED
    BY <2>1, <2>2, <2>3, <2>4, <2>5, <2>6, <2>7 DEF Next, Bind
<1>2. QED
  BY <1>1, ContractInit, SafetyInvariant, PTL DEF Spec, ImplementsContract, Contract!Spec
-----------------------------------------------------------------------------
\* How far the loop is from its end.  The restore can go round a bounded number of
\* times; within one round the loop passes the stages in order.  Liveness itself is
\* out of the prover's reach, and this is the part of it that can be wrong: a retry
\* that puts the loop back.

Stage ==
    CASE pc = "post"                   -> 1
      [] pc = "top" /\ env # NoEnv     -> 2
      [] pc = "mint"                   -> 3
      [] pc = "pubkey"                 -> 4
      [] pc = "top" /\ env = NoEnv     -> 5
      [] pc = "done"                   -> 0

RestoresLeft == (MaxBindAttempts - restoreAttempts) * (MaxRestoreRounds + 1)
                + (MaxRestoreRounds - restoreRounds)

StepsLeft == IF pc = "done" THEN 0 ELSE 6 * RestoresLeft + Stage

MaxSteps == 6 * (MaxBindAttempts * (MaxRestoreRounds + 1)) + 5

\* The deadline ends the loop: from the moment it has passed every step of Bind
\* takes it nearer to its return, whatever the coordinator and Portal answer, and
\* no step of theirs puts it back.
DeadlineEnds ==
    [][late => /\ Bind => StepsLeft' < StepsLeft
               /\ StepsLeft' <= StepsLeft]_vars

\* The restores left are a number, fewer after a restart of the restore and after
\* an answered round.
LEMMA RestoresCount ==
    ASSUME NEW b \in Nat, NEW a \in Nat \ {0}, a <= b, NEW m \in Nat, NEW r \in Nat, r <= m
    PROVE  /\ (b - a) * (m + 1) + (m - r) \in Nat
           /\ (b - a) * (m + 1) + (m - r) <= b * (m + 1)
           /\ (b - (a + 1)) * (m + 1) + (m - 0) < (b - a) * (m + 1) + (m - r)
           /\ (b - a) * (m + 1) + (m - (r + 1)) < (b - a) * (m + 1) + (m - r)
<1>1. (b - a) * (m + 1) \in Nat
  OBVIOUS
<1>2. (b - (a + 1)) * (m + 1) = (b - a) * (m + 1) - (m + 1)
  OBVIOUS
<1>3. b * (m + 1) = (b - a) * (m + 1) + a * (m + 1)
  OBVIOUS
<1>4. a * (m + 1) = (a - 1) * (m + 1) + (m + 1) /\ (a - 1) * (m + 1) >= 0
  OBVIOUS
<1>5. a * (m + 1) \in Int /\ (a - 1) * (m + 1) \in Int /\ b * (m + 1) \in Int
      /\ (b - (a + 1)) * (m + 1) \in Int
  OBVIOUS
<1>6. QED
  BY <1>1, <1>2, <1>3, <1>4, <1>5

\* The stage of a loop that still runs.
LEMMA StageType == TypeOK /\ pc # "done" => Stage \in 1 .. 5
BY DEF TypeOK, Stage

\* In every state of the handshake the distance is a number under a fixed bound.
LEMMA StepsCount == SafetyInv => StepsLeft \in 0 .. MaxSteps
<1> SUFFICES ASSUME SafetyInv, pc # "done" PROVE StepsLeft \in 0 .. MaxSteps
  <2>1. MaxSteps \in Nat
    BY BinderAssumption DEF MaxSteps
  <2> QED
    BY <2>1 DEF StepsLeft
<1>1. /\ restoreAttempts \in Nat \ {0} /\ restoreAttempts <= MaxBindAttempts
      /\ restoreRounds \in Nat /\ restoreRounds <= MaxRestoreRounds
  BY BinderAssumption DEF SafetyInv, TypeOK, RestoreInv
<1>2. RestoresLeft \in Nat /\ RestoresLeft <= MaxBindAttempts * (MaxRestoreRounds + 1)
  BY <1>1, RestoresCount, BinderAssumption DEF RestoresLeft
<1>3. Stage \in 1 .. 5
  BY StageType DEF SafetyInv
<1>4. MaxBindAttempts * (MaxRestoreRounds + 1) \in Nat
  BY BinderAssumption
<1> HIDE DEF RestoresLeft, Stage
<1> QED
  BY <1>2, <1>3, <1>4 DEF StepsLeft, MaxSteps

\* A step that stays within one restore round and reaches a lower stage, or returns.
LEMMA StageStep ==
    ASSUME SafetyInv, pc # "done",
           \/ pc' = "done"
           \/ UNCHANGED <<restoreAttempts, restoreRounds>> /\ Stage' \in 1 .. Stage - 1
    PROVE  StepsLeft' < StepsLeft
<1>1. Stage \in 1 .. 5
  BY StageType DEF SafetyInv
<1>2. RestoresLeft \in Nat
  BY RestoresCount, BinderAssumption DEF SafetyInv, TypeOK, RestoreInv, RestoresLeft
<1>3. CASE pc' = "done"
  BY <1>1, <1>2, <1>3 DEF StepsLeft
<1>4. CASE UNCHANGED <<restoreAttempts, restoreRounds>> /\ Stage' \in 1 .. Stage - 1
  <2>1. RestoresLeft' = RestoresLeft
    BY <1>4 DEF RestoresLeft
  <2>2. StepsLeft = 6 * RestoresLeft + Stage
    BY DEF StepsLeft
  <2>3. StepsLeft' = 0 \/ StepsLeft' = 6 * RestoresLeft + Stage'
    BY <2>1 DEF StepsLeft
  <2>4. Stage' \in Nat /\ Stage' < Stage
    BY <1>1, <1>4
  <2> QED
    BY <1>1, <1>2, <2>2, <2>3, <2>4
<1> QED
  BY <1>3, <1>4

\* A step that uses up a restore round or a restart goes back to posting the
\* envelope, and is nearer to the end all the same.
LEMMA RestoreStep ==
    ASSUME SafetyInv, pc = "post", PostExpired \/ PostChallenge
    PROVE  StepsLeft' < StepsLeft
<1>1. /\ restoreAttempts \in Nat \ {0} /\ restoreAttempts <= MaxBindAttempts
      /\ restoreRounds \in Nat /\ restoreRounds <= MaxRestoreRounds
  BY BinderAssumption DEF SafetyInv, TypeOK, RestoreInv
<1>2. SafetyInv'
  BY NextInv DEF Next, Bind
<1>3. CASE pc' = "done"
  BY <1>3, StageStep
<1>4. CASE pc' # "done"
  <2>1. pc' = "top"
    BY <1>4 DEF PostExpired, PostChallenge, Again, Return
  <2>2. Stage' \in 1 .. 5 /\ Stage \in 1 .. 5
    BY <1>2, <1>4, StageType DEF SafetyInv, TypeOK, Stage
  <2>3. \/ restoreAttempts' = restoreAttempts + 1 /\ restoreRounds' = 0
        \/ restoreAttempts' = restoreAttempts /\ restoreRounds' = restoreRounds + 1
    BY <1>4 DEF PostExpired, PostChallenge, Return
  <2>4. RestoresLeft' < RestoresLeft /\ RestoresLeft \in Nat
    BY <1>1, <2>3, RestoresCount, BinderAssumption DEF RestoresLeft
  <2>5. RestoresLeft' \in Int /\ RestoresLeft \in Int
    BY <1>1, <2>3, BinderAssumption DEF RestoresLeft
  <2>6. StepsLeft = 6 * RestoresLeft + Stage /\ StepsLeft' = 6 * RestoresLeft' + Stage'
    BY <1>4 DEF StepsLeft
  <2>7. \A r, q \in Int, s, t \in 1 .. 5 : q < r => 6 * q + t < 6 * r + s
    OBVIOUS
  <2> QED
    BY <2>2, <2>4, <2>5, <2>6, <2>7, Zenon
<1> QED
  BY <1>3, <1>4

\* After the deadline Bind returns within MaxSteps steps of its own: the mint and
\* bind retries stop at it, and the restore's restarts are counted.
THEOREM DeadlineEndsHolds == Spec => DeadlineEnds /\ [](StepsLeft \in 0 .. MaxSteps)
<1>1. ASSUME SafetyInv, Bind, late PROVE StepsLeft' < StepsLeft
  <2>1. SafetyInv' /\ pc # "done"
    BY <1>1, NextInv DEF Next, Bind, Top, Abandon, FetchPubkey, MintFault, MintRefused,
       MintReceipt, PostFault, PostError, PostExpired, PostChallenge, PostOk
  <2>2. CASE Top
    <3>1. UNCHANGED <<restoreAttempts, restoreRounds, env>>
      BY <2>2 DEF Top
    <3>2. \/ pc' = "done"
          \/ env = NoEnv /\ pc' = "pubkey" /\ Stage = 5 /\ Stage' = 4
          \/ env # NoEnv /\ pc' = "post" /\ Stage = 2 /\ Stage' = 1
      BY <2>2, <3>1 DEF Top, Return, Stage
    <3> QED
      BY <1>1, <2>1, <3>1, <3>2, StageStep
  <2>3. CASE Abandon \/ MintFault \/ MintRefused \/ PostFault \/ PostError \/ PostOk
    <3>1. pc' = "done"
      BY <1>1, <2>3 DEF Abandon, MintFault, MintRefused, PostFault, PostError, PostOk,
         Fail, Return
    <3> QED
      BY <1>1, <2>1, <3>1, StageStep
  <2>4. CASE FetchPubkey
    BY <1>1, <2>1, <2>4, StageStep DEF FetchPubkey, Fail, Return, Stage
  <2>5. CASE MintReceipt
    <3>1. pc' = "done" \/ (pc' = "top" /\ env' # NoEnv)
      BY <1>1, <2>5 DEF MintReceipt, Fail, Return, Again, NoEnv, SafetyInv, TypeOK
    <3> QED
      BY <1>1, <2>1, <2>5, <3>1, StageStep DEF MintReceipt, Stage
  <2>6. CASE PostExpired \/ PostChallenge
    BY <1>1, <2>6, RestoreStep DEF PostExpired, PostChallenge
  <2> QED
    BY <1>1, <2>2, <2>3, <2>4, <2>5, <2>6 DEF Bind
<1>2. ASSUME SafetyInv, Environment \/ UNCHANGED vars PROVE StepsLeft' = StepsLeft
  <2>1. UNCHANGED client
    BY <1>2 DEF Environment, Cancel, DeadlinePasses, RivalAuthorizes, CoordReboots,
       ChallengeExpires, PortalMint, PortalFails, CoordBind, vars
  <2> QED
    BY <2>1 DEF client, StepsLeft, RestoresLeft, Stage
<1>3. ASSUME SafetyInv, [Next]_vars
      PROVE  [late => /\ Bind => StepsLeft' < StepsLeft
                      /\ StepsLeft' <= StepsLeft]_vars
  <2> SUFFICES ASSUME Next, late
               PROVE  (Bind => StepsLeft' < StepsLeft) /\ StepsLeft' <= StepsLeft
    BY <1>3
  <2>1. StepsLeft \in Nat /\ StepsLeft' \in Nat
    <3>1. SafetyInv'
      BY <1>3, NextInv
    <3>2. MaxSteps \in Nat /\ MaxSteps' = MaxSteps
      BY BinderAssumption DEF MaxSteps
    <3>3. StepsLeft \in 0 .. MaxSteps
      BY <1>3, StepsCount
    <3>4. (StepsLeft \in 0 .. MaxSteps)'
      BY <3>1, StepsCount, PTL
    <3> QED
      BY <3>2, <3>3, <3>4
  <2>2. Bind => StepsLeft' < StepsLeft
    BY <1>1, <1>3
  <2> QED
    BY <1>2, <1>3, <2>1, <2>2 DEF Next
<1> QED
  BY <1>3, StepsCount, SafetyInvariant, PTL DEF Spec, DeadlineEnds
=============================================================================
