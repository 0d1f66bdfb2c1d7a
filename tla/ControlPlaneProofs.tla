------------------------- MODULE ControlPlaneProofs -------------------------
(***************************************************************************)
(* Type correctness, the mutex, at-most-once requests, the freshness of a  *)
(* reported 401 and the monotone cache, for any number of goroutines and   *)
(* every budget.                                                           *)
(***************************************************************************)
EXTENDS ControlPlane, Integers, TLAPS

\* Tokens are numbered in the order they are minted: the cache and every call hold
\* minted ones, and the token a mint is about to apply is newer than the cache.
TokenInv ==
    /\ cache.tok <= minted
    /\ \A p \in Procs : tok[p] <= minted /\ first[p] <= minted
    /\ \A p \in Procs : pc[p] = "apply" => tok[p] > cache.tok

\* After a rejection a call sends only a token minted later.
ForcedInv ==
    \A p \in Procs :
        /\ forced[p] /\ pc[p] \in {"apply", "send"} => tok[p] > first[p]
        /\ res[p] = "unauthorized" => tok[p] > first[p]

\* What a call has had carried out: nothing yet for a bare request still under way.
MadeInv ==
    \A p \in Procs :
        /\ op[p] = "bare" /\ pc[p] # "done" => made[p] = 0
        /\ pc[p] = "idle" => made[p] = 0
        /\ op[p] = "none" <=> pc[p] = "idle"
        /\ pc[p] # "done" => res[p] = "none"

ControlInv == TypeOK /\ LockDiscipline /\ TokenInv /\ ForcedInv /\ MadeInv /\ CarriedOutOnce

USE ControlAssumption DEF Set

\* Before the first call nothing is cached, held or minted.
LEMMA ControlInitInv == Init => ControlInv
<1> SUFFICES ASSUME Init PROVE ControlInv
  OBVIOUS
<1>1. cache \in [tok : 0 .. MaxMint, fresh : BOOLEAN] /\ forced \in [Procs -> BOOLEAN]
  BY DEF Init
<1>2. TypeOK
  BY <1>1 DEF Init, TypeOK, Ops
<1>3. LockDiscipline /\ TokenInv /\ ForcedInv /\ MadeInv /\ CarriedOutOnce
  BY DEF Init, LockDiscipline, TokenInv, ForcedInv, MadeInv, CarriedOutOnce
<1> QED
  BY <1>2, <1>3 DEF ControlInv

\* Time, revocation and the start of a call.
LEMMA OutsideInv ==
  ASSUME ControlInv, TokenAges \/ Revoke \/ (\E p \in Procs, o \in Ops : Begin(p, o))
  PROVE  ControlInv'
<1> USE DEF ControlInv
<1>1. CASE TokenAges
  <2>1. cache' \in [tok : 0 .. MaxMint, fresh : BOOLEAN] /\ cache'.tok = cache.tok
    BY <1>1 DEF TokenAges, TypeOK
  <2> QED
    BY <1>1, <2>1 DEF TokenAges, TypeOK, LockDiscipline, TokenInv, ForcedInv, MadeInv,
                      CarriedOutOnce, portal
<1>2. CASE Revoke
  BY <1>2 DEF Revoke, TypeOK, LockDiscipline, TokenInv, ForcedInv, MadeInv, CarriedOutOnce
<1>3. ASSUME NEW p \in Procs, NEW o \in Ops, Begin(p, o) PROVE ControlInv'
  <2>1. TypeOK'
    BY <1>3 DEF Begin, Goto, TypeOK, portal
  <2>2. LockDiscipline' /\ TokenInv' /\ ForcedInv'
    BY <1>3 DEF Begin, Goto, TypeOK, LockDiscipline, TokenInv, ForcedInv, portal
  <2>3. MadeInv' /\ CarriedOutOnce'
    BY <1>3 DEF Begin, Goto, TypeOK, Ops, MadeInv, CarriedOutOnce
  <2> QED
    BY <2>1, <2>2, <2>3
<1> QED
  BY <1>1, <1>2, <1>3

\* Obtaining a token: at most one call mints, and what it mints is newer than the
\* cache and than any rejection before it.
LEMMA TokenStepsInv ==
  ASSUME ControlInv, NEW p \in Procs, Token(p) \/ Mint(p) PROVE ControlInv'
<1> USE DEF ControlInv
<1>1. CASE TokenCached(p)
  <2>1. TypeOK'
    BY <1>1 DEF TokenCached, Goto, TypeOK, portal
  <2>2. LockDiscipline' /\ TokenInv' /\ ForcedInv' /\ MadeInv' /\ CarriedOutOnce'
    BY <1>1 DEF TokenCached, Goto, TypeOK, LockDiscipline, TokenInv, ForcedInv, MadeInv,
                CarriedOutOnce, portal
  <2> QED
    BY <2>1, <2>2
<1>2. CASE TokenMints(p)
  <2>1. TypeOK'
    BY <1>2 DEF TokenMints, Goto, TypeOK, portal
  <2>2. LockDiscipline' /\ TokenInv' /\ ForcedInv' /\ MadeInv' /\ CarriedOutOnce'
    BY <1>2 DEF TokenMints, Goto, TypeOK, LockDiscipline, TokenInv, ForcedInv, MadeInv,
                CarriedOutOnce, portal
  <2> QED
    BY <2>1, <2>2
<1>3. CASE PostMint(p)
  <2>1. TypeOK'
    BY <1>3 DEF PostMint, Goto, TypeOK
  <2>2. LockDiscipline' /\ MadeInv' /\ CarriedOutOnce'
    BY <1>3 DEF PostMint, Goto, TypeOK, LockDiscipline, MadeInv, CarriedOutOnce
  <2>3. TokenInv' /\ ForcedInv'
    BY <1>3 DEF PostMint, Goto, TypeOK, TokenInv, ForcedInv, MadeInv
  <2> QED
    BY <2>1, <2>2, <2>3
<1>4. CASE ApplySuccess(p)
  <2>1. cache' \in [tok : 0 .. MaxMint, fresh : BOOLEAN] /\ (cache' = cache \/ cache'.tok = tok[p])
    BY <1>4 DEF ApplySuccess, TypeOK
  <2>2. TypeOK'
    BY <1>4, <2>1 DEF ApplySuccess, Goto, Return, TypeOK, portal
  <2>3. LockDiscipline' /\ MadeInv' /\ CarriedOutOnce'
    BY <1>4 DEF ApplySuccess, Goto, Return, TypeOK, LockDiscipline, MadeInv, CarriedOutOnce
  <2>4. \A q \in Procs : pc[q] = "apply" => q = p
    BY <1>4 DEF ApplySuccess, LockDiscipline
  <2>5. TokenInv'
    BY <1>4, <2>1, <2>4 DEF ApplySuccess, Goto, Return, TypeOK, TokenInv, portal
  <2>6. ForcedInv'
    BY <1>4 DEF ApplySuccess, Goto, Return, TypeOK, ForcedInv
  <2> QED
    BY <2>2, <2>3, <2>5, <2>6
<1>5. CASE MintFault(p)
  <2>1. minted' \in 0 .. MaxMint /\ minted' >= minted
    BY <1>5 DEF MintFault, TypeOK
  <2>2. TypeOK'
    BY <1>5, <2>1 DEF MintFault, Return, TypeOK
  <2>3. LockDiscipline' /\ MadeInv' /\ CarriedOutOnce'
    BY <1>5 DEF MintFault, Return, TypeOK, LockDiscipline, MadeInv, CarriedOutOnce
  <2>4. TokenInv' /\ ForcedInv'
    BY <1>5, <2>1 DEF MintFault, Return, TypeOK, TokenInv, ForcedInv
  <2> QED
    BY <2>2, <2>3, <2>4
<1>6. CASE MintBusy(p)
  <2>1. TypeOK'
    BY <1>6 DEF MintBusy, TypeOK, portal
  <2>2. LockDiscipline' /\ TokenInv' /\ ForcedInv' /\ MadeInv' /\ CarriedOutOnce'
    BY <1>6 DEF MintBusy, LockDiscipline, TokenInv, ForcedInv, MadeInv, CarriedOutOnce, portal
  <2> QED
    BY <2>1, <2>2
<1>7. CASE MintRefused(p)
  <2>1. TypeOK'
    BY <1>7 DEF MintRefused, Return, TypeOK, portal
  <2>2. LockDiscipline' /\ TokenInv' /\ ForcedInv' /\ MadeInv' /\ CarriedOutOnce'
    BY <1>7 DEF MintRefused, Return, TypeOK, LockDiscipline, TokenInv, ForcedInv, MadeInv,
                CarriedOutOnce, portal
  <2> QED
    BY <2>1, <2>2
<1> QED
  BY <1>1, <1>2, <1>3, <1>4, <1>5, <1>6, <1>7 DEF Token, Mint

\* What a request that is carried out leaves: one Computer at most, since a bare one
\* has had none before.
LEMMA AppliedOnce ==
  ASSUME ControlInv, NEW p \in Procs, pc[p] = "send", Applied(p) \/ UNCHANGED made
  PROVE  /\ made' \in [Procs -> Nat] /\ made'[p] <= 1
         /\ \A q \in Procs \ {p} : made'[q] = made[q]
<1>1. op[p] = "bare" => made[p] = 0
  BY DEF ControlInv, MadeInv
<1> QED
  BY <1>1 DEF ControlInv, TypeOK, Applied, CarriedOutOnce

\* Sending a request.
LEMMA SendStepsInv ==
  ASSUME ControlInv, NEW p \in Procs, Send(p) PROVE ControlInv'
<1> USE DEF ControlInv
<1>1. CASE SendFault(p)
  <2>1. /\ made' \in [Procs -> Nat] /\ made'[p] <= 1
        /\ \A q \in Procs \ {p} : made'[q] = made[q]
    BY <1>1, AppliedOnce DEF SendFault
  <2>2. TypeOK'
    BY <1>1, <2>1 DEF SendFault, Return, TypeOK, portal
  <2>3. LockDiscipline' /\ TokenInv' /\ ForcedInv'
    BY <1>1 DEF SendFault, Return, TypeOK, LockDiscipline, TokenInv, ForcedInv, portal
  <2>4. CarriedOutOnce'
    BY <2>1 DEF CarriedOutOnce
  <2>5. MadeInv'
    BY <1>1, <2>1 DEF SendFault, Return, Replayable, TypeOK, MadeInv
  <2> QED
    BY <2>2, <2>3, <2>4, <2>5
<1>2. CASE SendRejected(p)
  <2>0. forced' \in [Procs -> BOOLEAN]
    <3>1. forced \in [Procs -> BOOLEAN] /\ (forced' = [forced EXCEPT ![p] = TRUE] \/ forced' = forced)
      BY <1>2, Zenon DEF SendRejected, TypeOK
    <3> QED
      BY <3>1, Zenon
  <2>1. TypeOK'
    BY <1>2, <2>0 DEF SendRejected, Goto, Return, TypeOK, portal
  <2>2. LockDiscipline' /\ MadeInv' /\ CarriedOutOnce'
    BY <1>2 DEF SendRejected, Goto, Return, TypeOK, LockDiscipline, MadeInv, CarriedOutOnce
  <2>3. TokenInv' /\ ForcedInv'
    BY <1>2 DEF SendRejected, Goto, Return, TypeOK, TokenInv, ForcedInv, MadeInv, portal
  <2> QED
    BY <2>1, <2>2, <2>3
<1>3. CASE SendOK(p)
  <2>1. /\ made' \in [Procs -> Nat] /\ made'[p] <= 1
        /\ \A q \in Procs \ {p} : made'[q] = made[q]
    BY <1>3, AppliedOnce DEF SendOK
  <2>2. TypeOK'
    BY <1>3, <2>1 DEF SendOK, Return, TypeOK, portal
  <2>3. LockDiscipline' /\ TokenInv' /\ ForcedInv'
    BY <1>3 DEF SendOK, Return, TypeOK, LockDiscipline, TokenInv, ForcedInv, portal
  <2>4. MadeInv' /\ CarriedOutOnce'
    BY <1>3, <2>1 DEF SendOK, Return, TypeOK, MadeInv, CarriedOutOnce
  <2> QED
    BY <2>2, <2>3, <2>4
<1>4. CASE SendBusy(p)
  <2>1. TypeOK'
    BY <1>4 DEF SendBusy, Goto, TypeOK, portal
  <2>2. LockDiscipline' /\ TokenInv' /\ ForcedInv' /\ MadeInv' /\ CarriedOutOnce'
    BY <1>4 DEF SendBusy, Goto, TypeOK, LockDiscipline, TokenInv, ForcedInv, MadeInv,
                CarriedOutOnce, portal
  <2> QED
    BY <2>1, <2>2
<1>5. CASE SendRefused(p)
  <2>1. TypeOK'
    BY <1>5 DEF SendRefused, Return, TypeOK, portal
  <2>2. LockDiscipline' /\ TokenInv' /\ ForcedInv' /\ MadeInv' /\ CarriedOutOnce'
    BY <1>5 DEF SendRefused, Return, TypeOK, LockDiscipline, TokenInv, ForcedInv, MadeInv,
                CarriedOutOnce, portal
  <2> QED
    BY <2>1, <2>2
<1> QED
  BY <1>1, <1>2, <1>3, <1>4, <1>5 DEF Send

\* ControlInv is inductive.
LEMMA ControlStep == ControlInv /\ [Next]_vars => ControlInv'
<1> SUFFICES ASSUME ControlInv, [Next]_vars PROVE ControlInv'
  OBVIOUS
<1>1. CASE TokenAges \/ Revoke \/ (\E p \in Procs, o \in Ops : Begin(p, o))
  BY <1>1, OutsideInv
<1>2. CASE \E p \in Procs : Call(p)
  BY <1>2, TokenStepsInv, SendStepsInv DEF Call
<1>3. CASE UNCHANGED vars
  BY <1>3 DEF vars, portal, ControlInv, TypeOK, LockDiscipline, TokenInv, ForcedInv, MadeInv,
              CarriedOutOnce
<1> QED
  BY <1>1, <1>2, <1>3 DEF Next

\* The invariant holds in every reachable state.
LEMMA ControlInductive == Spec => []ControlInv
BY ControlInitInv, ControlStep, PTL DEF Spec

\* Every variable of the token source and of the calls keeps its type.
THEOREM ControlTypeCorrect == Spec => []TypeOK
BY ControlInductive, PTL DEF ControlInv

\* ControlTokenSource.Token: the mutex is held by exactly the call that is minting.
THEOREM LockDisciplineHolds == Spec => []LockDiscipline
BY ControlInductive, PTL DEF ControlInv

\* DoRaw and do carry a request out at most once for a call.
THEOREM CarriedOutOnceHolds == Spec => []CarriedOutOnce
BY ControlInductive, PTL DEF ControlInv

\* do reports a 401 only for a token minted after the first rejection.
THEOREM UnauthorizedIsFreshHolds == Spec => []UnauthorizedIsFresh
<1>1. ControlInv => UnauthorizedIsFresh
  BY DEF ControlInv, ForcedInv, UnauthorizedIsFresh
<1> QED
  BY <1>1, ControlInductive, PTL

\* applySuccess never replaces a cached token by an older one.
THEOREM CacheNeverRegressesHolds == Spec => CacheNeverRegresses
<1>1. ControlInv /\ [Next]_vars => [cache'.tok >= cache.tok]_vars
  <2> SUFFICES ASSUME ControlInv, Next PROVE cache'.tok >= cache.tok
    BY DEF vars
  <2>1. cache.tok \in Nat
    BY DEF ControlInv, TypeOK
  <2>2. CASE TokenAges
    BY <2>1, <2>2 DEF TokenAges, ControlInv, TypeOK
  <2>3. CASE Revoke \/ (\E p \in Procs, o \in Ops : Begin(p, o))
    BY <2>1, <2>3 DEF Revoke, Begin
  <2>4. ASSUME NEW p \in Procs, ApplySuccess(p) PROVE cache'.tok >= cache.tok
    <3>1. tok[p] > cache.tok /\ tok[p] \in Nat
      BY <2>4 DEF ApplySuccess, ControlInv, TokenInv, TypeOK
    <3> QED
      BY <2>1, <2>4, <3>1 DEF ApplySuccess
  <2>5. ASSUME NEW p \in Procs, Call(p), ~ApplySuccess(p) PROVE cache'.tok >= cache.tok
    <3>1. cache' = cache
      BY <2>5 DEF Call, Token, TokenCached, TokenMints, Mint, PostMint, MintFault, MintBusy,
                  MintRefused, Send, SendFault, SendRejected, SendOK, SendBusy, SendRefused
    <3> QED
      BY <2>1, <3>1
  <2> QED
    BY <2>2, <2>3, <2>4, <2>5 DEF Next
<1> QED
  BY <1>1, ControlInductive, PTL DEF Spec, CacheNeverRegresses

\* A call that mints without being forced to found no fresh token, and while it
\* holds the mutex nobody can put one there.
FlightInv == \A p \in Procs : pc[p] = "mint" /\ ~forced[p] => ~Fresh

\* Single flight: an unforced mint happens only while no fresh token is cached.
THEOREM NoRedundantMintHolds == Spec => NoRedundantMint
<1>1. Init => FlightInv
  BY DEF Init, FlightInv
<1>2. ControlInv /\ FlightInv /\ [Next]_vars => FlightInv'
  <2> SUFFICES ASSUME ControlInv, FlightInv, [Next]_vars, NEW q \in Procs,
                      pc'[q] = "mint", ~forced'[q]
               PROVE  ~Fresh'
    BY DEF FlightInv
  <2> USE DEF ControlInv, TypeOK, FlightInv, Fresh
  <2>1. CASE TokenAges
    BY <2>1 DEF TokenAges
  <2>2. CASE Revoke \/ (\E p \in Procs, o \in Ops : Begin(p, o))
    BY <2>2 DEF Revoke, Begin, Goto
  <2>3. ASSUME NEW p \in Procs, Token(p) PROVE ~Fresh'
    BY <2>3 DEF Token, TokenCached, TokenMints, Goto
  <2>4. ASSUME NEW p \in Procs, ApplySuccess(p) PROVE ~Fresh'
    <3>1. pc[p] = "apply" /\ p # q /\ pc[q] = "mint"
      BY <2>4 DEF ApplySuccess, Goto, Return
    <3> QED
      BY <3>1 DEF LockDiscipline
  <2>5. ASSUME NEW p \in Procs, Mint(p), ~ApplySuccess(p) PROVE ~Fresh'
    BY <2>5 DEF Mint, PostMint, MintFault, MintBusy, MintRefused, Goto, Return
  <2>6. ASSUME NEW p \in Procs, Send(p) PROVE ~Fresh'
    BY <2>6 DEF Send, SendFault, SendRejected, SendOK, SendBusy, SendRefused, Goto, Return
  <2>7. CASE UNCHANGED vars
    BY <2>7 DEF vars
  <2> QED
    BY <2>1, <2>2, <2>3, <2>4, <2>5, <2>6, <2>7 DEF Next, Call
<1>3. FlightInv => [\A p \in Procs : pc[p] = "mint" /\ minted' # minted /\ tok'[p] # tok[p] =>
                      forced[p] \/ ~Fresh]_vars
  BY DEF FlightInv
<1> QED
  BY <1>1, <1>2, <1>3, ControlInductive, PTL DEF Spec, NoRedundantMint
-----------------------------------------------------------------------------
\* How many steps a call has left.  Within one pass of do over the token and the
\* request the sends and the mints are counted down; a 401 starts a second pass, and
\* each busy answer a further two.

PassSteps == MintAttempts * Sends + Sends + 3

PassLeft(p) ==
    CASE pc[p] = "idle"  -> PassSteps
      [] pc[p] = "token" -> MintAttempts * Sends + Sends + 2
      [] pc[p] = "mint"  -> (MintAttempts - tries[p]) * Sends + (Sends - att[p]) + Sends + 2
      [] pc[p] = "apply" -> Sends + 1
      [] pc[p] = "send"  -> (Sends - att[p]) + 1
      [] pc[p] = "done"  -> 0

PassesLeft(p) == 2 * (BusyRepeats - reps[p]) + (IF forced[p] THEN 0 ELSE 1)

StepsLeft(p) == IF pc[p] = "done" THEN 0 ELSE PassesLeft(p) * PassSteps + PassLeft(p)

\* The budgets nest: every step of a call brings it nearer to its return, whatever
\* the Portal and the control plane answer, and no other goroutine's step takes it
\* away from it.
BudgetsNest ==
    [][\A p \in Procs : /\ Call(p) => StepsLeft(p)' < StepsLeft(p)
                        /\ ~Call(p) => StepsLeft(p)' <= StepsLeft(p)]_vars

\* No call is further from its return than all of its budgets.
StepsBounded ==
    \A p \in Procs : StepsLeft(p) \in 0 .. (2 * BusyRepeats + 1) * PassSteps + PassSteps

\* A request under way has been sent once at least.
SentInv ==
    \A p \in Procs : /\ pc[p] \in {"mint", "send"} => att[p] >= 1
                     /\ pc[p] = "mint" => tries[p] >= 1

\* Every request starts with its first send.
LEMMA SentStep == ControlInv /\ SentInv /\ [Next]_vars => SentInv'
<1> SUFFICES ASSUME ControlInv, SentInv, [Next]_vars PROVE SentInv'
  OBVIOUS
<1> USE DEF ControlInv, TypeOK, SentInv
<1>1. CASE TokenAges \/ Revoke \/ UNCHANGED vars
  BY <1>1 DEF TokenAges, Revoke, vars
<1>2. ASSUME NEW p \in Procs, NEW o \in Ops, Begin(p, o) PROVE SentInv'
  BY <1>2 DEF Begin, Goto
<1>3. ASSUME NEW p \in Procs, Token(p) PROVE SentInv'
  BY <1>3 DEF Token, TokenCached, TokenMints, Goto
<1>4. ASSUME NEW p \in Procs, Mint(p) PROVE SentInv'
  BY <1>4 DEF Mint, PostMint, ApplySuccess, MintFault, MintBusy, MintRefused, Goto, Return
<1>5. ASSUME NEW p \in Procs, Send(p) PROVE SentInv'
  BY <1>5 DEF Send, SendFault, SendRejected, SendOK, SendBusy, SendRefused, Goto, Return
<1> QED
  BY <1>1, <1>2, <1>3, <1>4, <1>5 DEF Next, Call

\* The arithmetic of nested budgets: a pass less outweighs whatever the next one
\* may still need.
LEMMA PassOutweighs ==
    ASSUME NEW w \in Nat, NEW m \in Nat, NEW n \in Nat, m < n, NEW r \in 1 .. w, NEW s \in 1 .. w
    PROVE  m * w + s < n * w + r
<1>1. n * w = m * w + (n - m) * w
  OBVIOUS
<1>2. (n - m) * w = w + (n - m - 1) * w /\ (n - m - 1) * w >= 0
  OBVIOUS
<1>3. m * w \in Int /\ n * w \in Int /\ (n - m) * w \in Int /\ (n - m - 1) * w \in Int
  OBVIOUS
<1> QED
  BY <1>1, <1>2, <1>3

\* The mints left after t of them.
LEMMA MintsLeft ==
    ASSUME NEW t \in 1 .. MintAttempts
    PROVE  /\ (MintAttempts - t) * Sends \in Nat /\ MintAttempts * Sends \in Nat
           /\ (MintAttempts - t) * Sends + Sends <= MintAttempts * Sends
           /\ (MintAttempts - (t + 1)) * Sends + Sends = (MintAttempts - t) * Sends
<1>1. MintAttempts * Sends = (MintAttempts - t) * Sends + t * Sends
  OBVIOUS
<1>2. t * Sends = Sends + (t - 1) * Sends /\ (t - 1) * Sends >= 0
  OBVIOUS
<1>3. (MintAttempts - t) * Sends \in Nat /\ MintAttempts * Sends \in Nat
  OBVIOUS
<1>4. (MintAttempts - (t + 1)) * Sends + Sends = (MintAttempts - t) * Sends
  OBVIOUS
<1>5. t * Sends \in Int /\ (t - 1) * Sends \in Int
  OBVIOUS
<1> QED
  BY <1>1, <1>2, <1>3, <1>4, <1>5

\* What is left is a number, and of a pass never more than the pass.
LEMMA LeftType ==
    ASSUME ControlInv, SentInv, NEW p \in Procs
    PROVE  /\ PassSteps \in Nat
           /\ PassesLeft(p) \in 0 .. 2 * BusyRepeats + 1
           /\ pc[p] # "done" => PassLeft(p) \in 1 .. PassSteps
<1> USE DEF ControlInv, TypeOK
<1>0. MintAttempts * Sends \in Nat /\ 1 \in 1 .. MintAttempts
  OBVIOUS
<1>1. PassSteps \in Nat
  BY <1>0 DEF PassSteps
<1>2. PassesLeft(p) \in 0 .. 2 * BusyRepeats + 1
  BY DEF PassesLeft
<1>3. CASE pc[p] = "mint"
  <2>1. tries[p] \in 1 .. MintAttempts /\ att[p] \in 1 .. Sends
    BY <1>3 DEF SentInv
  <2> QED
    BY <1>1, <1>2, <1>3, <2>1, MintsLeft DEF PassLeft, PassSteps
<1>4. CASE pc[p] = "send"
  <2>1. att[p] \in 1 .. Sends
    BY <1>4 DEF SentInv
  <2> QED
    BY <1>0, <1>1, <1>2, <1>4, <2>1 DEF PassLeft, PassSteps
<1>5. CASE pc[p] \in {"idle", "token", "apply", "done"}
  BY <1>0, <1>1, <1>2, <1>5 DEF PassLeft, PassSteps
<1> QED
  BY <1>3, <1>4, <1>5

\* The bound on a call's steps.
LEMMA StepsType == ControlInv /\ SentInv => StepsBounded
<1> SUFFICES ASSUME ControlInv, SentInv, NEW p \in Procs
             PROVE  StepsLeft(p) \in 0 .. (2 * BusyRepeats + 1) * PassSteps + PassSteps
  BY DEF StepsBounded
<1>1. /\ PassSteps \in Nat /\ PassesLeft(p) \in 0 .. 2 * BusyRepeats + 1
      /\ pc[p] # "done" => PassLeft(p) \in 1 .. PassSteps
  BY LeftType
<1>2. ASSUME NEW w \in Nat, NEW n \in Nat, NEW m \in 0 .. n
      PROVE  m * w \in Nat /\ n * w \in Nat /\ m * w <= n * w
  <2>1. n * w = m * w + (n - m) * w /\ (n - m) * w \in Nat /\ m * w \in Nat
    OBVIOUS
  <2> QED
    BY <2>1
<1>3. PassesLeft(p) * PassSteps \in Nat /\ (2 * BusyRepeats + 1) * PassSteps \in Nat
      /\ PassesLeft(p) * PassSteps <= (2 * BusyRepeats + 1) * PassSteps
  <2>1. 2 * BusyRepeats + 1 \in Nat
    OBVIOUS
  <2> QED
    BY <1>1, <1>2, <2>1
<1> QED
  BY <1>1, <1>3 DEF StepsLeft

\* A step that ends the call, stays in the pass and counts down, or uses up a pass.
LEMMA Nearer ==
    ASSUME ControlInv, SentInv, ControlInv', SentInv', NEW p \in Procs, pc[p] # "done",
           \/ pc'[p] = "done"
           \/ PassesLeft(p)' = PassesLeft(p) /\ PassLeft(p)' < PassLeft(p)
           \/ PassesLeft(p)' < PassesLeft(p)
    PROVE  StepsLeft(p)' < StepsLeft(p)
<1>1. /\ PassSteps \in Nat /\ PassesLeft(p) \in 0 .. 2 * BusyRepeats + 1
      /\ PassLeft(p) \in 1 .. PassSteps
  BY LeftType
<1>2. /\ (PassesLeft(p) \in 0 .. 2 * BusyRepeats + 1)'
      /\ (pc[p] # "done" => PassLeft(p) \in 1 .. PassSteps)'
  BY LeftType, PTL
<1>3. PassSteps' = PassSteps
  BY DEF PassSteps
<1>4. StepsLeft(p) = PassesLeft(p) * PassSteps + PassLeft(p)
  BY DEF StepsLeft
<1>5. CASE pc'[p] = "done"
  <2>1. StepsLeft(p)' = 0
    BY <1>5 DEF StepsLeft
  <2>2. PassesLeft(p) * PassSteps \in Nat
    BY <1>1
  <2> QED
    BY <1>1, <1>4, <2>1, <2>2
<1>6. CASE pc'[p] # "done"
  <2>1. StepsLeft(p)' = PassesLeft(p)' * PassSteps + PassLeft(p)'
    BY <1>3, <1>6 DEF StepsLeft
  <2>2. PassesLeft(p)' \in Nat /\ PassesLeft(p) \in Nat /\ PassLeft(p)' \in 1 .. PassSteps
    BY <1>1, <1>2, <1>3, <1>6
  <2>3. CASE PassesLeft(p)' < PassesLeft(p)
    BY <1>1, <1>4, <2>1, <2>2, <2>3, PassOutweighs, Zenon
  <2>4. CASE PassesLeft(p)' = PassesLeft(p) /\ PassLeft(p)' < PassLeft(p)
    <3>1. PassesLeft(p) * PassSteps \in Nat
      BY <1>1
    <3> QED
      BY <1>1, <1>4, <2>1, <2>2, <2>4, <3>1
  <2> QED
    BY <1>6, <2>3, <2>4
<1> QED
  BY <1>5, <1>6

\* Each step of a call is one of the three.
LEMMA CallNearer ==
    ASSUME ControlInv, SentInv, [Next]_vars, NEW p \in Procs, Call(p)
    PROVE  StepsLeft(p)' < StepsLeft(p)
<1> USE DEF ControlInv, TypeOK
<1>0. ControlInv' /\ SentInv'
  BY ControlStep, SentStep
<1>1. pc[p] # "done"
  BY DEF Call, Token, TokenCached, TokenMints, Mint, PostMint, ApplySuccess, MintFault, MintBusy,
         MintRefused, Send, SendFault, SendRejected, SendOK, SendBusy, SendRefused
<1>2. MintAttempts * Sends \in Nat /\ tries[p] \in 0 .. MintAttempts /\ att[p] \in 0 .. Sends
  OBVIOUS
<1>3. ASSUME pc'[p] = "done" PROVE StepsLeft(p)' < StepsLeft(p)
  BY <1>0, <1>1, <1>3, Nearer
<1>4. ASSUME PassesLeft(p)' = PassesLeft(p), PassLeft(p)' < PassLeft(p)
      PROVE  StepsLeft(p)' < StepsLeft(p)
  BY <1>0, <1>1, <1>4, Nearer
<1>5. ASSUME PassesLeft(p)' < PassesLeft(p) PROVE StepsLeft(p)' < StepsLeft(p)
  BY <1>0, <1>1, <1>5, Nearer
<1>6. ASSUME UNCHANGED <<reps, forced>> PROVE PassesLeft(p)' = PassesLeft(p)
  BY <1>6 DEF PassesLeft
<1>7. CASE TokenCached(p)
  <2>1. PassLeft(p)' < PassLeft(p)
    BY <1>2, <1>7 DEF TokenCached, Goto, PassLeft
  <2> QED
    BY <1>4, <1>6, <1>7, <2>1 DEF TokenCached
<1>8. CASE TokenMints(p)
  <2>1. pc[p] = "token" /\ pc'[p] = "mint" /\ tries'[p] = 1 /\ att'[p] = 1
    BY <1>8 DEF TokenMints, Goto
  <2>2. PassLeft(p)' < PassLeft(p)
    <3>1. (MintAttempts - 1) * Sends + Sends <= MintAttempts * Sends
          /\ (MintAttempts - 1) * Sends \in Nat
      BY MintsLeft
    <3> QED
      BY <1>2, <2>1, <3>1 DEF PassLeft
  <2> QED
    BY <1>4, <1>6, <1>8, <2>2 DEF TokenMints
<1>9. CASE PostMint(p) \/ ApplySuccess(p)
  <2>1. pc[p] = "mint" => tries[p] \in 1 .. MintAttempts
    BY DEF SentInv
  <2>2. pc'[p] = "done" \/ PassLeft(p)' < PassLeft(p)
    BY <1>2, <1>9, <2>1, MintsLeft DEF PostMint, ApplySuccess, Goto, Return, PassLeft
  <2> QED
    BY <1>3, <1>4, <1>6, <1>9, <2>2 DEF PostMint, ApplySuccess
<1>10. CASE MintFault(p) \/ MintBusy(p) \/ MintRefused(p)
  <2>1. pc[p] = "mint" /\ tries[p] \in 1 .. MintAttempts /\ att[p] \in 1 .. Sends
    BY <1>10 DEF MintFault, MintBusy, MintRefused, SentInv
  <2>2. /\ (MintAttempts - tries[p]) * Sends \in Nat
        /\ (MintAttempts - (tries[p] + 1)) * Sends + Sends = (MintAttempts - tries[p]) * Sends
        /\ (MintAttempts - (tries[p] + 1)) * Sends \in Int
    BY <2>1, MintsLeft
  <2>3. \/ pc'[p] = "done"
        \/ pc'[p] = "mint" /\ tries'[p] = tries[p] /\ att'[p] = att[p] + 1
        \/ pc'[p] = "mint" /\ tries'[p] = tries[p] + 1 /\ att'[p] = 1
    BY <1>10 DEF MintFault, MintBusy, MintRefused, Return
  <2>4. pc'[p] = "done" \/ PassLeft(p)' < PassLeft(p)
    BY <2>1, <2>2, <2>3 DEF PassLeft
  <2> QED
    BY <1>3, <1>4, <1>6, <1>10, <2>4 DEF MintFault, MintBusy, MintRefused
<1>11. CASE SendFault(p) \/ SendOK(p) \/ SendRefused(p)
  <2>1. pc'[p] = "done" \/ PassLeft(p)' < PassLeft(p)
    BY <1>2, <1>11 DEF SendFault, SendOK, SendRefused, Return, PassLeft
  <2> QED
    BY <1>3, <1>4, <1>6, <1>11, <2>1 DEF SendFault, SendOK, SendRefused
<1>12. CASE SendRejected(p)
  <2>1. pc'[p] = "done" \/ (~forced[p] /\ forced'[p] /\ reps' = reps)
    BY <1>12 DEF SendRejected, Goto, Return
  <2>2. pc'[p] = "done" \/ PassesLeft(p)' < PassesLeft(p)
    BY <2>1 DEF PassesLeft
  <2> QED
    BY <1>3, <1>5, <2>2
<1>13. CASE SendBusy(p)
  <2>1. reps'[p] = reps[p] + 1 /\ reps[p] \in 0 .. BusyRepeats
    BY <1>13 DEF SendBusy
  <2>2. PassesLeft(p)' < PassesLeft(p)
    BY <2>1 DEF PassesLeft
  <2> QED
    BY <1>5, <2>2
<1> QED
  BY <1>7, <1>8, <1>9, <1>10, <1>11, <1>12, <1>13 DEF Call, Token, Mint, Send

\* What another goroutine, the clock and the servers do to a call: nothing but
\* starting it.
LEMMA OthersLeave ==
    ASSUME ControlInv, SentInv, [Next]_vars, NEW p \in Procs, ~Call(p)
    PROVE  StepsLeft(p)' <= StepsLeft(p)
<1> USE DEF ControlInv, TypeOK
<1>1. StepsLeft(p) \in Nat
  <2>1. StepsLeft(p) \in 0 .. (2 * BusyRepeats + 1) * PassSteps + PassSteps
    BY StepsType DEF StepsBounded
  <2>2. PassSteps \in Nat
    BY LeftType
  <2>3. (2 * BusyRepeats + 1) * PassSteps + PassSteps \in Nat
    BY <2>2
  <2> QED
    BY <2>1, <2>3
<1>2. ASSUME pc'[p] = pc[p], att'[p] = att[p], tries'[p] = tries[p], reps'[p] = reps[p],
             forced'[p] = forced[p]
      PROVE  StepsLeft(p)' = StepsLeft(p)
  BY <1>2 DEF StepsLeft, PassesLeft, PassLeft, PassSteps
<1>3. ASSUME NEW q \in Procs, q # p, Call(q)
      PROVE  StepsLeft(p)' = StepsLeft(p)
  <2>1. CASE Token(q)
    BY <1>2, <1>3, <2>1 DEF Token, TokenCached, TokenMints, Goto
  <2>2. CASE Mint(q)
    BY <1>2, <1>3, <2>2 DEF Mint, PostMint, ApplySuccess, MintFault, MintBusy, MintRefused, Goto,
       Return
  <2>3. CASE Send(q)
    BY <1>2, <1>3, <2>3 DEF Send, SendFault, SendRejected, SendOK, SendBusy, SendRefused, Goto,
       Return
  <2> QED
    BY <1>3, <2>1, <2>2, <2>3 DEF Call
<1>4. ASSUME NEW q \in Procs, NEW o \in Ops, q # p, Begin(q, o)
      PROVE  StepsLeft(p)' = StepsLeft(p)
  BY <1>2, <1>4 DEF Begin, Goto
<1>5. ASSUME NEW o \in Ops, Begin(p, o) PROVE StepsLeft(p)' < StepsLeft(p)
  <2>0. ControlInv' /\ SentInv'
    BY ControlStep, SentStep
  <2>1. PassesLeft(p)' = PassesLeft(p)
    BY <1>5 DEF Begin, PassesLeft
  <2>2. MintAttempts * Sends \in Nat
    OBVIOUS
  <2>3. PassLeft(p)' < PassLeft(p)
    BY <1>5, <2>2 DEF Begin, Goto, PassLeft, PassSteps
  <2>4. pc[p] # "done"
    BY <1>5 DEF Begin
  <2> QED
    BY <2>0, <2>1, <2>3, <2>4, Nearer
<1>6. CASE TokenAges \/ Revoke \/ UNCHANGED vars
  <2>1. UNCHANGED <<pc, att, tries, reps, forced>>
    BY <1>6 DEF TokenAges, Revoke, vars
  <2> QED
    BY <2>1 DEF StepsLeft, PassesLeft, PassLeft, PassSteps
<1>7. StepsLeft(p)' \in Nat
  <2>0. ControlInv' /\ SentInv'
    BY ControlStep, SentStep
  <2>1. StepsBounded'
    BY <2>0, StepsType, PTL
  <2>2. PassSteps \in Nat /\ PassSteps' = PassSteps
    BY LeftType DEF PassSteps
  <2>3. (2 * BusyRepeats + 1) * PassSteps + PassSteps \in Nat
    BY <2>2
  <2> QED
    BY <2>1, <2>2, <2>3 DEF StepsBounded
<1> QED
  BY <1>1, <1>3, <1>4, <1>5, <1>6, <1>7 DEF Next

\* do, CreateComputer's repeats, Token and DoRaw: a call makes a bounded number of
\* steps, for any number of goroutines and every budget.  With the mutex held only
\* by a call that is minting (LockDiscipline) this is what CallsReturn rests on.
THEOREM BudgetsNestHolds == Spec => BudgetsNest /\ []StepsBounded
<1>1. Init => SentInv
  BY DEF Init, SentInv
<1>2. ControlInv /\ SentInv /\ [Next]_vars =>
        [\A p \in Procs : /\ Call(p) => StepsLeft(p)' < StepsLeft(p)
                          /\ ~Call(p) => StepsLeft(p)' <= StepsLeft(p)]_vars
  BY CallNearer, OthersLeave
<1> QED
  BY <1>1, <1>2, SentStep, StepsType, ControlInductive, PTL DEF Spec, BudgetsNest
=============================================================================
