------------------------------- MODULE Binder -------------------------------
(***************************************************************************)
(* One run of the bind handshake (internal/binder, Bind) for one sandbox:  *)
(* fetch the pod's bind identity, have Portal mint the attach credentials, *)
(* seal the envelope, and post it to the coordinator until it binds.       *)
(*                                                                         *)
(* Around the handshake, as the code's comments and retry rules describe   *)
(* them: Portal (a compare-and-swap on the Computer's binding revision,    *)
(* with receipts replayed by idempotency key), the coordinator of the pod  *)
(* (bind idempotent on the ciphertext, the two-round restore challenge,    *)
(* reboots), rival attaches of the same Computer, and a network that       *)
(* loses, delays and repeats requests.                                     *)
(***************************************************************************)
EXTENDS Integers, BindClassify

CONSTANTS
    Expected,         \* cfg.BindingRevision, frozen when the attach began
    MaxBindAttempts,  \* restore transactions one Bind may start
    MaxRestoreRounds, \* maxRestoreRounds, challenges answered per transaction
    Ephemeral,        \* cfg.Ephemeral: an access lease without key material
    Keypairs,         \* generations of the registered capture keypairs
    Generations,      \* generations saved state may be sealed to
    Challenges,       \* restore challenge ids
    CoordOutcomes,    \* the error answers the coordinator and its gateway give
    MaxBoots,         \* bound: coordinator boots of this pod
    MaxRevision       \* bound: the highest binding revision Portal reaches

ASSUME BinderAssumption ==
    /\ Expected \in Nat /\ MaxRevision \in Nat /\ Expected < MaxRevision
    /\ MaxBindAttempts \in Nat \ {0}
    /\ MaxRestoreRounds \in Nat \ {0}
    /\ MaxBoots \in Nat \ {0}
    /\ Ephemeral \in BOOLEAN
    /\ 0 \notin Challenges
    /\ CoordOutcomes \subseteq Outcomes

VARIABLES
    pc,              \* where the loop stands
    pub,             \* coord_boot_id mintEnvelope read from BindPubkey
    env,             \* the held envelope, or NoEnv
    restoreAttempts, restoreRounds,
    result,          \* how Bind returned, "running" before
    recorded,        \* the revision OnAuthorized last stored, Expected before
    auths,           \* how often OnAuthorized was called
    seals,           \* ciphertexts sealed so far (each seal is a new one)
    answers,         \* challenges answered so far
    cancelled,       \* the caller's context
    late,            \* the readiness deadline has passed
    mintReqs,        \* attach-credentials requests on the wire, never retired
    mintReply,       \* Portal's answer on its way to the waiting mint
    bindReqs,        \* bind requests on the wire, never retired
    bindReply,       \* the coordinator's answer on its way to the waiting post
    portalRev,       \* the Computer's binding revision at Portal
    receipts,        \* boot ids of this sandbox's receipts -> revision
    boot,            \* the coordinator's boot id
    bound,           \* ciphertext this boot is bound with, 0 if none
    challenge        \* the outstanding challenge of this boot, 0 if none

client  == <<pc, pub, env, restoreAttempts, restoreRounds, result, recorded,
             auths, seals, answers>>
ambient == <<cancelled, late>>
wires   == <<mintReqs, mintReply, bindReqs, bindReply>>
portal  == <<portalRev, receipts>>
coord   == <<boot, bound, challenge>>
vars    == <<client, ambient, wires, portal, coord>>

-----------------------------------------------------------------------------
Boots   == 1 .. MaxBoots
NoEnv   == [boot |-> 0, rev |-> 0, ct |-> 0, secrets |-> 0]
Env     == [boot : Nat, rev : Nat, ct : Nat, secrets : Challenges \cup {0}]

\* Bind's request: everything in it is fixed by the envelope.
BindReq(e) == [boot |-> e.boot, ct |-> e.ct, secrets |-> e.secrets]
BindReqs   == [boot : Nat, ct : Nat, secrets : Challenges \cup {0}]

\* The Idempotency-Key hashes (Computer, sandbox, pod, boot); of these only the
\* boot can change during one Bind, so the boot id stands for the key.
MintReqs   == [boot : Boots, expected : Nat]

NoReply    == [kind |-> "none"]

\* What is wrong with a receipt, if anything: a location other than the one
\* asked for, no bind_token or broker_grant, or no key_assertion.
Defects    == {"none", "location", "token", "assertion"}
MintReplies == [kind : {"receipt"}, rev : Nat, defect : Defects]
               \cup [kind : {"refused"}] \cup {NoReply}

\* A challenge names the keypair generations its components are sealed to;
\* material that does not unwrap (fingerprint, encoding, seal) is not good.
ChallengeReply == [kind : {"challenge"}, id : Challenges,
                   comps : SUBSET Generations, good : BOOLEAN]
BindReplies == ChallengeReply \cup [kind : {"error"}, o : Outcomes]
               \cup {[kind |-> "ok"], NoReply}

Results == {"running", "ok", "timeout", "cancelled", "restore", "terminal"}

TypeOK ==
    /\ pc \in {"top", "pubkey", "mint", "post", "done"}
    /\ pub \in 0 .. MaxBoots
    /\ env \in Env
    /\ restoreAttempts \in 1 .. MaxBindAttempts
    /\ restoreRounds \in 0 .. MaxRestoreRounds + 1
    /\ result \in Results /\ (result = "running" <=> pc # "done")
    /\ recorded \in Nat /\ auths \in Nat /\ seals \in Nat /\ answers \in Nat
    /\ cancelled \in BOOLEAN /\ late \in BOOLEAN
    /\ mintReqs \subseteq MintReqs /\ mintReply \in MintReplies
    /\ bindReqs \subseteq BindReqs /\ bindReply \in BindReplies
    /\ portalRev \in Nat
    /\ DOMAIN receipts \subseteq Boots /\ \A k \in DOMAIN receipts : receipts[k] \in Nat
    /\ boot \in Boots /\ bound \in Nat /\ challenge \in Challenges \cup {0}

-----------------------------------------------------------------------------
Init ==
    /\ pc = "top" /\ pub = 0 /\ env = NoEnv
    /\ restoreAttempts = 1 /\ restoreRounds = 0
    /\ result = "running"
    /\ recorded = Expected /\ auths = 0 /\ seals = 0 /\ answers = 0
    /\ cancelled = FALSE /\ late = FALSE
    /\ mintReqs = {} /\ mintReply = NoReply
    /\ bindReqs = {} /\ bindReply = NoReply
    /\ portalRev \in {Expected, Expected + 1} /\ receipts = [k \in {} |-> 0]
    /\ boot = 1 /\ bound = 0 /\ challenge = 0

-----------------------------------------------------------------------------
\* Steps of the Bind loop.

Return(r) == pc' = "done" /\ result' = r

\* Every path that sleeps ends at the top of the loop, where a cancelled
\* context returns just as the sleep itself would have.
Again == pc' = "top" /\ UNCHANGED result

\* Mutant: the mint and bind retries ignore the readiness deadline.
FailForever(class) ==
    \/ class = "readiness" /\ Again
    \/ class = "terminal"  /\ Return("terminal")

\* The tail both retry switches share: a readiness failure backs off while the
\* deadline has not passed, and everything else returns.
Fail(class) ==
    \/ class = "readiness" /\ ~late /\ Again
    \/ class = "readiness" /\ late  /\ Return("timeout")
    \/ class = "terminal"  /\ Return("terminal")

\* classify: a transport fault is readiness, a coordinator answer goes by the
\* table, and a Portal error is terminal although it wraps an API error.
ClassOfCoord(o) == Classify(o).class

\* Top of the loop: a cancelled caller starts no further attempt; without an
\* envelope mintEnvelope begins, with one it is posted as it stands.
Top ==
    /\ pc = "top"
    /\ \/ cancelled /\ Return("cancelled") /\ UNCHANGED bindReqs
       \/ ~cancelled /\ env = NoEnv /\ pc' = "pubkey" /\ UNCHANGED <<result, bindReqs>>
       \/ /\ ~cancelled /\ env # NoEnv /\ pc' = "post"
          /\ bindReqs' = bindReqs \cup {BindReq(env)}
          /\ UNCHANGED result
    /\ bindReply' = NoReply
    /\ UNCHANGED <<pub, env, restoreAttempts, restoreRounds, recorded, auths,
                   seals, answers, mintReqs, mintReply, ambient, portal, coord>>

\* The caller cancels while a request is out: its raw context error is terminal.
Abandon ==
    /\ pc \in {"pubkey", "mint", "post"} /\ cancelled
    /\ Return("cancelled")
    /\ UNCHANGED <<pub, env, restoreAttempts, restoreRounds, recorded, auths,
                   seals, answers, wires, ambient, portal, coord>>

\* Mutant: every mint looks the current revision up again.
MintExpectedReread == portalRev

\* The revision the mint expects Portal to hold.
MintExpected == Expected

\* mintEnvelope, first call: BindPubkey names the boot the mint is for.
FetchPubkey ==
    /\ pc = "pubkey"
    /\ \/ /\ pub' = boot /\ pc' = "mint"
          /\ mintReqs' = mintReqs \cup {[boot |-> boot, expected |-> MintExpected]}
          /\ UNCHANGED result
       \/ \E o \in CoordOutcomes : Fail(ClassOfCoord(o)) /\ UNCHANGED <<pub, mintReqs>>
    /\ mintReply' = NoReply
    /\ UNCHANGED <<env, restoreAttempts, restoreRounds, recorded, auths, seals,
                   answers, bindReqs, bindReply, ambient, portal, coord>>

\* No answer to the mint within the transport's own budget: readiness.
MintFault ==
    /\ pc = "mint"
    /\ Fail("readiness")
    /\ UNCHANGED <<pub, env, restoreAttempts, restoreRounds, recorded, auths,
                   seals, answers, wires, ambient, portal, coord>>

\* Portal refused (conflict, auth, ownership, rate, server error): terminal.
MintRefused ==
    /\ pc = "mint" /\ mintReply.kind = "refused"
    /\ Fail("terminal")
    /\ UNCHANGED <<pub, env, restoreAttempts, restoreRounds, recorded, auths,
                   seals, answers, wires, ambient, portal, coord>>

\* The receipt is usable: an ephemeral attach never receives a key_assertion.
Complete(reply) == \/ reply.defect = "none"
                   \/ Ephemeral /\ reply.defect = "assertion"

\* Mutant: the revision is left for the end of the handshake to record.
MintReceiptUnrecorded ==
    /\ pc = "mint" /\ mintReply.kind = "receipt" /\ mintReply.rev > Expected
    /\ Complete(mintReply)
    /\ seals' = seals + 1
    /\ env' = [boot |-> pub, rev |-> mintReply.rev, ct |-> seals + 1, secrets |-> 0]
    /\ Again
    /\ UNCHANGED <<recorded, auths, pub, restoreAttempts, restoreRounds, answers,
                   wires, ambient, portal, coord>>

\* Portal's receipt: the committed revision is recorded before anything else is
\* looked at, then an incomplete receipt fails for good and a complete one is
\* sealed into the envelope.
MintReceipt ==
    /\ pc = "mint" /\ mintReply.kind = "receipt"
    /\ IF mintReply.rev <= Expected
       THEN /\ Fail("terminal")
            /\ UNCHANGED <<recorded, auths, env, seals>>
       ELSE /\ recorded' = mintReply.rev /\ auths' = auths + 1
            /\ IF Complete(mintReply)
               THEN /\ seals' = seals + 1
                    /\ env' = [boot |-> pub, rev |-> mintReply.rev,
                               ct |-> seals + 1, secrets |-> 0]
                    /\ Again
               ELSE Fail("terminal") /\ UNCHANGED <<env, seals>>
    /\ UNCHANGED <<pub, restoreAttempts, restoreRounds, answers, wires, ambient,
                   portal, coord>>

\* No answer to the bind, or one of the coordinator's: the class decides.
PostFault ==
    /\ pc = "post"
    /\ Fail("readiness")
    /\ UNCHANGED <<pub, env, restoreAttempts, restoreRounds, recorded, auths,
                   seals, answers, wires, ambient, portal, coord>>

Expired(reply) == reply.kind = "error" /\ reply.o.ptype = "bind-restore-no-challenge"

PostError ==
    /\ pc = "post" /\ bindReply.kind = "error" /\ ~Expired(bindReply)
    /\ Fail(ClassOfCoord(bindReply.o))
    /\ UNCHANGED <<pub, env, restoreAttempts, restoreRounds, recorded, auths,
                   seals, answers, wires, ambient, portal, coord>>

\* The challenge expired: start round one over with the same authorization.
PostExpired ==
    /\ pc = "post" /\ Expired(bindReply)
    /\ IF restoreAttempts >= MaxBindAttempts
       THEN Return("restore") /\ UNCHANGED <<restoreAttempts, restoreRounds, env>>
       ELSE /\ restoreAttempts' = restoreAttempts + 1
            /\ restoreRounds' = 0
            /\ env' = [env EXCEPT !.secrets = 0]
            /\ Again
    /\ UNCHANGED <<pub, recorded, auths, seals, answers, wires, ambient, portal,
                   coord>>

\* answerChallenge succeeds: every generation is registered, all of it unwraps.
Answerable(ch) == ch.comps \subseteq Keypairs /\ ch.good

\* Mutant: answered rounds are not counted.
PostChallengeUncounted ==
    /\ pc = "post" /\ bindReply.kind = "challenge" /\ Answerable(bindReply)
    /\ env' = [env EXCEPT !.secrets = bindReply.id]
    /\ answers' = answers + 1 /\ Again
    /\ UNCHANGED <<pub, restoreAttempts, restoreRounds, recorded, auths, seals,
                   wires, ambient, portal, coord>>

PostChallenge ==
    /\ pc = "post" /\ bindReply.kind = "challenge"
    /\ restoreRounds' = restoreRounds + 1
    /\ IF restoreRounds + 1 > MaxRestoreRounds \/ ~Answerable(bindReply)
       THEN Return("restore") /\ UNCHANGED <<env, answers>>
       ELSE /\ env' = [env EXCEPT !.secrets = bindReply.id]
            /\ answers' = answers + 1
            /\ Again
    /\ UNCHANGED <<pub, restoreAttempts, recorded, auths, seals, wires, ambient,
                   portal, coord>>

\* Mutant: a bind whose answer was lost counts as done.
PostOkUnsealed ==
    /\ pc \in {"mint", "post"} /\ Return("ok")
    /\ UNCHANGED <<pub, env, restoreAttempts, restoreRounds, recorded, auths,
                   seals, answers, wires, ambient, portal, coord>>

PostOk ==
    /\ pc = "post" /\ bindReply.kind = "ok"
    /\ Return("ok")
    /\ UNCHANGED <<pub, env, restoreAttempts, restoreRounds, recorded, auths,
                   seals, answers, wires, ambient, portal, coord>>

Bind == \/ Top \/ Abandon \/ FetchPubkey \/ MintFault \/ MintRefused \/ MintReceipt
        \/ PostFault \/ PostError \/ PostExpired \/ PostChallenge \/ PostOk

-----------------------------------------------------------------------------
\* The environment.

Cancel == ~cancelled /\ pc # "done" /\ cancelled' = TRUE
          /\ UNCHANGED <<client, late, wires, portal, coord>>

DeadlinePasses == ~late /\ late' = TRUE
                  /\ UNCHANGED <<client, cancelled, wires, portal, coord>>

\* Portal answers the mint that waits for this request, if one still does.
AnswerMint(req, reply) ==
    mintReply' = IF pc = "mint" /\ pub = req.boot /\ mintReply = NoReply
                 THEN reply ELSE mintReply

\* Portal handles a request, the first time or again, now or long after its
\* sender gave up: the receipt of a known key is replayed, an expected revision
\* that is current commits, any other conflicts.  The answer to a commit can
\* still fail on its way out (a gateway error).
PortalMint(req) ==
    LET receipt(r) == \E d \in Defects :
            AnswerMint(req, [kind |-> "receipt", rev |-> r, defect |-> d])
        refusal == AnswerMint(req, [kind |-> "refused"])
    IN
    /\ \/ /\ req.boot \in DOMAIN receipts
          /\ receipt(receipts[req.boot]) \/ refusal
          /\ UNCHANGED portal
       \/ /\ req.boot \notin DOMAIN receipts
          /\ req.expected = portalRev /\ portalRev < MaxRevision
          /\ portalRev' = portalRev + 1
          /\ receipts' = [k \in DOMAIN receipts \cup {req.boot} |->
                            IF k = req.boot THEN portalRev + 1 ELSE receipts[k]]
          /\ receipt(portalRev + 1) \/ refusal
       \/ /\ req.boot \notin DOMAIN receipts
          /\ req.expected # portalRev
          /\ refusal /\ UNCHANGED portal
    /\ UNCHANGED <<client, ambient, mintReqs, bindReqs, bindReply, coord>>

\* Portal fails before committing, or a provider returns a stale revision.
PortalFails(req) ==
    /\ \/ AnswerMint(req, [kind |-> "refused"])
       \/ AnswerMint(req, [kind |-> "receipt", rev |-> Expected, defect |-> "none"])
    /\ UNCHANGED <<client, ambient, mintReqs, bindReqs, bindReply, portal, coord>>

\* Another attach of the same Computer wins a revision.
RivalAuthorizes ==
    /\ portalRev < MaxRevision /\ portalRev' = portalRev + 1
    /\ UNCHANGED <<client, ambient, wires, receipts, coord>>

CoordReboots ==
    /\ boot < MaxBoots
    /\ boot' = boot + 1 /\ bound' = 0 /\ challenge' = 0
    /\ UNCHANGED <<client, ambient, wires, portal>>

ChallengeExpires ==
    /\ challenge # 0 /\ challenge' = 0
    /\ UNCHANGED <<client, ambient, wires, portal, boot, bound>>

AnswerBind(req, reply) ==
    bindReply' = IF pc = "post" /\ BindReq(env) = req /\ bindReply = NoReply
                 THEN reply ELSE bindReply

CoordError(req, type) ==
    /\ \E o \in Outcomes : /\ o = [fault |-> FALSE, status |-> 409, ptype |-> type,
                                   epoch |-> FALSE]
                           /\ AnswerBind(req, [kind |-> "error", o |-> o])
    /\ UNCHANGED <<bound, challenge>>

\* A fresh challenge replaces the outstanding one.
Issue(req) ==
    \E c \in Challenges \ {challenge}, comps \in SUBSET Generations, good \in BOOLEAN :
        /\ challenge' = c /\ UNCHANGED bound
        /\ AnswerBind(req, [kind |-> "challenge", id |-> c, comps |-> comps, good |-> good])

Settle(req) == bound' = req.ct /\ challenge' = 0 /\ AnswerBind(req, [kind |-> "ok"])

\* The coordinator handles a bind request, the first time or again: it checks
\* the boot, replays a settled bind, and otherwise runs the two-round restore.
CoordBind(req) ==
    /\ \/ req.boot # boot /\ CoordError(req, "stale-coord-boot-id")
       \/ /\ req.boot = boot /\ bound = req.ct
          /\ AnswerBind(req, [kind |-> "ok"]) /\ UNCHANGED <<bound, challenge>>
       \/ req.boot = boot /\ bound = 0 /\ req.secrets = 0 /\ (Issue(req) \/ Settle(req))
       \/ /\ req.boot = boot /\ bound = 0 /\ req.secrets # 0 /\ req.secrets = challenge
          /\ Issue(req) \/ Settle(req)
       \/ /\ req.boot = boot /\ bound = 0 /\ req.secrets # 0 /\ req.secrets # challenge
          /\ CoordError(req, "bind-restore-no-challenge")
       \/ \E o \in CoordOutcomes : /\ AnswerBind(req, [kind |-> "error", o |-> o])
                                   /\ UNCHANGED <<bound, challenge>>
    /\ UNCHANGED <<client, ambient, mintReqs, mintReply, bindReqs, portal, boot>>

Environment ==
    \/ Cancel \/ DeadlinePasses \/ RivalAuthorizes \/ CoordReboots \/ ChallengeExpires
    \/ \E req \in mintReqs : PortalMint(req) \/ PortalFails(req)
    \/ \E req \in bindReqs : CoordBind(req)

Next == Bind \/ Environment

\* The loop's own steps and its clock are fair; nothing is assumed of the
\* servers or of the caller.
Fairness == WF_vars(Bind) /\ WF_vars(DeadlinePasses)

Spec == Init /\ [][Next]_vars /\ Fairness

-----------------------------------------------------------------------------
\* Properties.

\* A sandbox gets at most one Portal authorization: however often the mint is
\* sent again, delayed or repeated, across coordinator reboots and lost
\* receipts, Portal never commits two receipts for it, because every mint of
\* one Bind expects the revision frozen at its start.
OneAuthorization ==
    \A k, l \in DOMAIN receipts : k = l

\* All posts of one Bind carry the same envelope: no retry, restart of the
\* restore or late repeat ever puts a second ciphertext or boot on the wire.
SameEnvelope ==
    \A p, q \in bindReqs : p.ct = q.ct /\ p.boot = q.boot

\* Whenever the pod is bound, Portal has committed a receipt for exactly this
\* boot and the caller has recorded its revision, also when Bind went on to
\* return an error or its answer was lost.
BoundIsAuthorized ==
    bound # 0 => /\ boot \in DOMAIN receipts
                 /\ recorded = receipts[boot]

\* A revision the caller recorded is one Portal committed for this sandbox and
\* lies above the one the attach started from: never a rival's, never invented.
RecordedIsCommitted ==
    recorded # Expected =>
        recorded > Expected /\ \E k \in DOMAIN receipts : receipts[k] = recorded

\* Authorized before bound: what is bound was authorized and recorded, and what is
\* recorded was committed.
AuthorizedFirst == BoundIsAuthorized /\ RecordedIsCommitted

\* The restore answers at most MaxRestoreRounds challenges per transaction and
\* starts at most MaxBindAttempts transactions, whatever the server does.
RestoreBounded == answers <= MaxBindAttempts * MaxRestoreRounds

\* Once an authorization is recorded, no step mints again, whatever fails later.
NoRemint == [][auths > 0 => mintReqs' = mintReqs /\ auths' = auths]_vars

\* The handshake as its caller sees it.
Contract == INSTANCE BindContract WITH
    NoSeal    <- <<0, 0>>,
    committed <- recorded,
    envelope  <- <<env.boot, env.ct>>,
    outcome   <- IF result \in {"running", "ok"} THEN result ELSE "failed"

\* Every step of the handshake is a step of its contract: one authorization,
\* recorded at once and never replaced, one envelope, no success without it.
ImplementsContract == Contract!Spec

\* Bind always returns: readiness retries end at the deadline, restore rounds
\* and transactions at their caps, without any help from the servers.
Terminates == <>(pc = "done")
=============================================================================
