----------------------- MODULE ArtifactTransferProofs -----------------------
(***************************************************************************)
(* Downloads, uploads and deletes of artifacts, for files of any length,   *)
(* any number of generations and every budget.                             *)
(***************************************************************************)
EXTENDS ArtifactTransfer, TLAPS

\* Each place of the code belongs to its operation.
PlaceInv ==
    /\ pc = "read" => op = "download"
    /\ pc \in {"put", "ask"} => op = "upload"
    /\ pc = "wait" => op \in {"download", "upload"}
    /\ op # "download" => got = <<>>
    /\ op = "upload" => size >= 0

\* The offset counts the bytes delivered.  The pinned generation, where responses name
\* theirs, is the one they are of, or else storage has left it behind for good.
PinInv ==
    op = "download" =>
        /\ Len(got) = off
        /\ off > 0 /\ named => pin # 0 /\ (gen = pin => got[1][1] = pin)

\* An open response continues the bytes delivered, and either reaches the end of its
\* generation or that generation's length is known.
BodyInv ==
    pc = "read" =>
        /\ named => pin # 0 /\ (gen = pin => body.gen = pin)
        /\ body.gen \in 1 .. ngen /\ off <= body.upto /\ body.upto <= len[body.gen]
        /\ body.upto = len[body.gen] \/ size = len[body.gen]
        /\ off > 0 /\ named => got[1][1] = body.gen

\* Storage makes the object only of all the bytes.  After a send that deleted the file
\* comes a resend, or a 401's second attempt.
KeptInv ==
    /\ op = "upload" => kept <= size /\ (final => kept = size)
    /\ ours => op = "delete" /\ (pc # "done" => again \/ (pc = "send" /\ att > 1))

\* TypeOK in three parts: storage, where the call is, and what it has moved.
StorageType ==
    /\ gen \in 0 .. ngen /\ ngen \in 0 .. MaxGen /\ len \in [Gens -> 0 .. MaxSize]
    /\ kept \in 0 .. MaxSize /\ final \in BOOLEAN /\ forgot \in 0 .. MaxForgets /\ ours \in BOOLEAN

CallType ==
    /\ op \in Ops
    /\ pc \in {"token", "send", "read", "wait", "put", "ask", "done"}
    /\ res \in {"none", "ok", "err", "lost", "missing", "changed"}
    /\ again \in BOOLEAN /\ att \in 1 .. Sends /\ fails \in 0 .. Budget + 1
    /\ (pc = "done" <=> res # "none") /\ (pc # "done" => fails <= Budget)

MovedType ==
    /\ off \in Nat /\ size \in -1 .. MaxSize
    /\ pin \in 0 .. ngen /\ body \in [gen : 0 .. MaxGen, upto : 0 .. MaxSize]
    /\ got \in Seq(Gens \X (1 .. MaxSize)) /\ named \in BOOLEAN

TransferInv ==
    /\ TypeOK /\ PlaceInv /\ PinInv /\ BodyInv /\ KeptInv
    /\ OneGeneration /\ WholeFile /\ NoGap /\ OwnDeleteCounts

\* The steps of one attempt, with withToken's second round in it; those left of the
\* attempt at hand.
AttemptSteps == 2 * Sends + 5
AttemptLeft ==
    CASE pc = "wait"  -> AttemptSteps
      [] pc = "token" -> (IF again THEN 0 ELSE Sends + 1) + Sends + 3
      [] pc = "send"  -> (IF again THEN 0 ELSE Sends + 1) + (Sends - att) + 3
      [] pc = "ask"   -> 2
      [] pc \in {"put", "read"} -> 1
      [] pc = "done"  -> 0

\* How far the transfer has come: no further than what storage keeps of an upload.
Reached == IF op = "upload" /\ kept < off THEN kept ELSE off

\* The attempts left after this one: each fails, or moves the transfer forward and has
\* a whole budget before it again.
Limit == MaxSize + Chunks
AttemptsLeft == (Limit - Reached) * (Budget + 1) + (Budget - fails)

\* What is left of the call as long as storage forgets nothing, and what that may be.
StepsAhead == AttemptsLeft * AttemptSteps + AttemptLeft
MaxAhead   == (Limit * (Budget + 1) + Budget) * AttemptSteps + AttemptSteps

\* What is left of the call, and what it may take in all: each time storage forgets,
\* the transfer may have to be made anew.
StepsLeft == IF pc = "done" THEN 0 ELSE (MaxForgets - forgot) * (MaxAhead + 1) + StepsAhead
MaxSteps  == MaxForgets * (MaxAhead + 1) + MaxAhead

\* Every step of the call brings its end nearer, others who replace the file do not put
\* it off, and neither does storage's forgetting in the end.
CallNearsEnd ==
    [][/\ Call \/ Forgets => StepsLeft' < StepsLeft
       /\ Rival => StepsLeft' = StepsLeft]_vars

USE TransferAssumption DEF Gens, NoBody, storage, call, moved, reader, session

\* The call begins with nothing delivered and nothing kept.
LEMMA TransferInitInv == Init => TransferInv
<1> SUFFICES ASSUME Init PROVE TransferInv
  OBVIOUS
<1>1. ngen \in 0 .. MaxGen /\ len \in [Gens -> 0 .. MaxSize]
  BY DEF Init
<1>2. StorageType
  <2>1. ours \in BOOLEAN /\ final \in BOOLEAN
    BY DEF Init
  <2> QED
    BY <1>1, <2>1 DEF Init, StorageType
<1>3. CallType
  <2>1. op \in Ops /\ fails \in 0 .. Budget + 1 /\ fails <= Budget /\ att \in 1 .. Sends
    BY DEF Init
  <2> QED
    BY <2>1 DEF Init, CallType
<1>4. MovedType
  BY DEF Init, MovedType
<1>5. TypeOK
  BY <1>2, <1>3, <1>4 DEF TypeOK, StorageType, CallType, MovedType
<1>6. PlaceInv /\ PinInv /\ BodyInv
  BY DEF Init, PlaceInv, PinInv, BodyInv
<1>7. KeptInv
  BY DEF Init, KeptInv
<1>8. OneGeneration /\ WholeFile /\ NoGap /\ OwnDeleteCounts
  BY DEF Init, OneGeneration, WholeFile, NoGap, OwnDeleteCounts
<1> QED
  BY <1>5, <1>6, <1>7, <1>8 DEF TransferInv

\* Whatever storage does to the file, generations are numbered upwards.
LEMMA StorageSteps ==
  ASSUME TransferInv,
         (\E n \in 0 .. MaxSize : Commit(n)) \/ Remove \/ UNCHANGED storage
  PROVE  gen' \in 0 .. ngen' /\ ngen' \in 0 .. MaxGen /\ len' \in [Gens -> 0 .. MaxSize]
<1>1. gen' \in 0 .. ngen' /\ ngen' \in 0 .. MaxGen
  BY DEF TransferInv, TypeOK, Commit, Remove
<1>2. len' \in [Gens -> 0 .. MaxSize]
  BY DEF TransferInv, TypeOK, Commit, Remove
<1> QED
  BY <1>1, <1>2

\* Others replace and delete the file: a generation left behind never returns.
LEMMA RivalInv ==
  ASSUME TransferInv, Rival PROVE TransferInv'
<1> USE DEF TransferInv, Retry, Goto, Return, Resend, Commit, Remove, Stored, Opening, Pinned, Headers, Deleted
<1>1. CASE Rival
  <2>1. TypeOK'
    <3>1. StorageType'
      <4>1. (\E n \in 0 .. MaxSize : Commit(n)) \/ Remove \/ UNCHANGED storage
        BY <1>1 DEF Rival, TypeOK, PlaceInv, KeptInv
      <4>2. kept' \in 0 .. MaxSize
        BY <1>1 DEF Rival, TypeOK, PlaceInv, KeptInv
      <4>3. final' \in BOOLEAN /\ ours' \in BOOLEAN /\ forgot' \in 0 .. MaxForgets
        BY <1>1 DEF Rival, TypeOK, PlaceInv, KeptInv
      <4> QED
        BY <4>1, <4>2, <4>3, StorageSteps DEF StorageType
    <3>2. CallType'
      BY <1>1 DEF Rival, TypeOK, CallType
    <3>3. MovedType'
      BY <1>1 DEF Rival, TypeOK, BodyInv, PlaceInv, MovedType
    <3> QED
      BY <3>1, <3>2, <3>3 DEF TypeOK, StorageType, CallType, MovedType
  <2>2. PlaceInv' /\ KeptInv'
    BY <1>1 DEF Rival, TypeOK, PlaceInv, KeptInv
  <2>3. /\ pin \in 0 .. ngen /\ ngen \in 0 .. MaxGen /\ ngen' \in 0 .. MaxGen /\ ngen' >= ngen
        /\ gen' = 0 \/ gen' > ngen
        /\ \A g \in 1 .. ngen : len'[g] = len[g]
        /\ UNCHANGED <<op, pc, off, size, pin, body, got, named>>
    BY <1>1 DEF Rival, TypeOK
  <2>4. PinInv' /\ BodyInv'
    BY <2>3 DEF PinInv, BodyInv
  <2>5. OneGeneration' /\ WholeFile'
    BY <1>1 DEF Rival, TypeOK, PlaceInv, PinInv, BodyInv, OneGeneration, WholeFile
  <2>6. NoGap' /\ OwnDeleteCounts'
    BY <1>1 DEF Rival, TypeOK, PlaceInv, KeptInv, NoGap, OwnDeleteCounts
  <2> QED
    BY <2>1, <2>2, <2>3, <2>4, <2>5, <2>6
<1> QED
  BY <1>1

\* Storage forgets bytes of an upload: the offset may be past what it keeps from then on.
LEMMA ForgetsInv ==
  ASSUME TransferInv, Forgets PROVE TransferInv'
<1>1. /\ kept' \in 0 .. MaxSize /\ kept' < kept /\ forgot' = forgot + 1 /\ forgot < MaxForgets
      /\ op = "upload" /\ ~final /\ res = "none"
      /\ UNCHANGED <<gen, ngen, len, op, pc, res, again, att, off, size, fails, pin, body, got,
                     named, final, ours>>
  BY DEF Forgets, TransferInv, TypeOK
<1>2. TypeOK'
  BY <1>1 DEF TransferInv, TypeOK
<1>3. PlaceInv' /\ PinInv' /\ BodyInv'
  BY <1>1 DEF TransferInv, PlaceInv, PinInv, BodyInv
<1>4. KeptInv'
  BY <1>1 DEF TransferInv, TypeOK, KeptInv
<1>5. OneGeneration' /\ WholeFile'
  BY <1>1 DEF TransferInv, OneGeneration, WholeFile
<1>6. NoGap' /\ OwnDeleteCounts'
  BY <1>1 DEF TransferInv, TypeOK, NoGap, OwnDeleteCounts
<1> QED
  BY <1>2, <1>3, <1>4, <1>5, <1>6 DEF TransferInv

\* withToken and the waits move the call and none of its data.
LEMMA TokenInv ==
  ASSUME TransferInv, Wait \/ Token \/ TokenFails \/ SendRejected \/ SendRefused PROVE TransferInv'
<1> USE DEF TransferInv, Retry, Goto, Return, Resend, Commit, Remove, Stored, Opening, Pinned, Headers, Deleted
<1>1. CASE Wait
  <2>1. TypeOK'
    BY <1>1 DEF Wait, TypeOK, Ops, PlaceInv, BodyInv, KeptInv
  <2>2. PlaceInv' /\ PinInv' /\ BodyInv' /\ KeptInv'
    BY <1>1 DEF Wait, TypeOK, PlaceInv, PinInv, BodyInv, KeptInv
  <2>3. OneGeneration' /\ WholeFile' /\ NoGap' /\ OwnDeleteCounts'
    BY <1>1 DEF Wait, TypeOK, PlaceInv, KeptInv, OneGeneration, WholeFile, NoGap, OwnDeleteCounts
  <2> QED
    BY <2>1, <2>2, <2>3
<1>2. CASE Token
  <2>1. TypeOK'
    BY <1>2 DEF Token, TypeOK, Ops, PlaceInv, BodyInv, KeptInv
  <2>2. PlaceInv' /\ PinInv' /\ BodyInv' /\ KeptInv'
    BY <1>2 DEF Token, TypeOK, PlaceInv, PinInv, BodyInv, KeptInv
  <2>3. OneGeneration' /\ WholeFile' /\ NoGap' /\ OwnDeleteCounts'
    BY <1>2 DEF Token, TypeOK, PlaceInv, KeptInv, OneGeneration, WholeFile, NoGap, OwnDeleteCounts
  <2> QED
    BY <2>1, <2>2, <2>3
<1>3. CASE TokenFails
  <2>1. TypeOK'
    <3>1. StorageType'
      BY <1>3 DEF TokenFails, TypeOK, StorageType
    <3>2. CallType'
      BY <1>3 DEF TokenFails, TypeOK, CallType
    <3>3. MovedType'
      BY <1>3 DEF TokenFails, TypeOK, BodyInv, PlaceInv, MovedType
    <3> QED
      BY <3>1, <3>2, <3>3 DEF TypeOK, StorageType, CallType, MovedType
  <2>2. PlaceInv' /\ PinInv' /\ BodyInv' /\ KeptInv'
    BY <1>3 DEF TokenFails, TypeOK, PlaceInv, PinInv, BodyInv, KeptInv
  <2>3. OneGeneration' /\ WholeFile' /\ NoGap' /\ OwnDeleteCounts'
    BY <1>3 DEF TokenFails, TypeOK, PlaceInv, KeptInv, OneGeneration, WholeFile, NoGap, OwnDeleteCounts
  <2> QED
    BY <2>1, <2>2, <2>3
<1>4. CASE SendRejected
  <2>1. TypeOK'
    BY <1>4 DEF SendRejected, TypeOK, Ops, PlaceInv, BodyInv, KeptInv
  <2>2. PlaceInv' /\ PinInv' /\ BodyInv' /\ KeptInv'
    BY <1>4 DEF SendRejected, TypeOK, PlaceInv, PinInv, BodyInv, KeptInv
  <2>3. OneGeneration' /\ WholeFile' /\ NoGap' /\ OwnDeleteCounts'
    BY <1>4 DEF SendRejected, TypeOK, PlaceInv, KeptInv, OneGeneration, WholeFile, NoGap, OwnDeleteCounts
  <2> QED
    BY <2>1, <2>2, <2>3
<1>5. CASE SendRefused
  <2>1. TypeOK'
    BY <1>5 DEF SendRefused, TypeOK, Ops, PlaceInv, BodyInv, KeptInv
  <2>2. PlaceInv' /\ PinInv' /\ BodyInv' /\ KeptInv'
    BY <1>5 DEF SendRefused, TypeOK, PlaceInv, PinInv, BodyInv, KeptInv
  <2>3. OneGeneration' /\ WholeFile' /\ NoGap' /\ OwnDeleteCounts'
    BY <1>5 DEF SendRefused, TypeOK, PlaceInv, KeptInv, OneGeneration, WholeFile, NoGap, OwnDeleteCounts
  <2> QED
    BY <2>1, <2>2, <2>3
<1> QED
  BY <1>1, <1>2, <1>3, <1>4, <1>5

\* open: a resumed read is of the generation it names.
LEMMA OpenInv ==
  ASSUME TransferInv, OpenWhole \/ OpenRange \/ OpenGone \/ OpenFault PROVE TransferInv'
<1> USE DEF TransferInv, Retry, Goto, Return, Resend, Commit, Remove, Stored, Opening, Pinned, Headers, Deleted
<1>1. CASE OpenWhole
  <2>1. TypeOK'
    BY <1>1 DEF OpenWhole, TypeOK, Ops, PlaceInv, BodyInv, KeptInv
  <2>2. PlaceInv' /\ KeptInv'
    BY <1>1 DEF OpenWhole, TypeOK, PlaceInv, KeptInv
  <2>3. PinInv'
    BY <1>1 DEF OpenWhole, TypeOK, PlaceInv, PinInv, BodyInv
  <2>4. BodyInv'
    <3>1. /\ body' = [gen |-> gen, upto |-> body'.upto] /\ body'.upto <= len[gen]
          /\ off' = off /\ off <= body'.upto /\ got' = got
          /\ gen' = gen /\ gen \in 1 .. ngen /\ ngen' = ngen /\ len' = len
          /\ body'.upto = len[gen] \/ size' = len[gen]
      BY <1>1 DEF OpenWhole, TypeOK
    <3>2. ASSUME named' PROVE named /\ pin' # 0 /\ (off > 0 => pin = gen /\ got[1][1] = gen)
      BY <1>1, <3>2 DEF OpenWhole, TypeOK, PinInv
    <3> QED
      BY <3>1, <3>2 DEF BodyInv
  <2>5. OneGeneration' /\ WholeFile'
    BY <1>1 DEF OpenWhole, TypeOK, PlaceInv, PinInv, BodyInv, OneGeneration, WholeFile
  <2>6. NoGap' /\ OwnDeleteCounts'
    BY <1>1 DEF OpenWhole, TypeOK, PlaceInv, KeptInv, NoGap, OwnDeleteCounts
  <2> QED
    BY <2>1, <2>2, <2>3, <2>4, <2>5, <2>6
<1>2. CASE OpenRange
  <2>1. TypeOK'
    BY <1>2 DEF OpenRange, TypeOK, Ops, PlaceInv, BodyInv, KeptInv
  <2>2. PlaceInv' /\ KeptInv'
    BY <1>2 DEF OpenRange, TypeOK, PlaceInv, KeptInv
  <2>3. PinInv'
    BY <1>2 DEF OpenRange, TypeOK, PlaceInv, PinInv, BodyInv
  <2>4. BodyInv'
    <3>1. /\ body' = [gen |-> gen, upto |-> body'.upto] /\ body'.upto <= len[gen]
          /\ off' = off /\ off <= body'.upto /\ got' = got
          /\ gen' = gen /\ gen \in 1 .. ngen /\ ngen' = ngen /\ len' = len
          /\ body'.upto = len[gen] \/ size' = len[gen]
      <4>1. /\ UNCHANGED <<off, got, gen, ngen, len>> /\ gen \in 1 .. ngen
            /\ off < len[gen] /\ off \in Nat /\ len[gen] \in 0 .. MaxSize
        BY <1>2 DEF OpenRange, TypeOK
      <4>2. CASE /\ size' = len[gen]
                 /\ \E n \in off + 1 .. len[gen] : body' = [gen |-> gen, upto |-> n]
        BY <4>1, <4>2
      <4>3. CASE body' = [gen |-> gen, upto |-> len[gen]]
        BY <4>1, <4>3
      <4> QED
        BY <1>2, <4>2, <4>3 DEF OpenRange
    <3>2. ASSUME named' PROVE named /\ pin' # 0 /\ (off > 0 => pin = gen /\ got[1][1] = gen)
      BY <1>2, <3>2 DEF OpenRange, TypeOK, PinInv
    <3> QED
      BY <3>1, <3>2 DEF BodyInv
  <2>5. OneGeneration' /\ WholeFile'
    BY <1>2 DEF OpenRange, TypeOK, PlaceInv, PinInv, BodyInv, OneGeneration, WholeFile
  <2>6. NoGap' /\ OwnDeleteCounts'
    BY <1>2 DEF OpenRange, TypeOK, PlaceInv, KeptInv, NoGap, OwnDeleteCounts
  <2> QED
    BY <2>1, <2>2, <2>3, <2>4, <2>5, <2>6
<1>3. CASE OpenGone
  <2>1. TypeOK'
    BY <1>3 DEF OpenGone, TypeOK, Ops, PlaceInv, BodyInv, KeptInv
  <2>2. PlaceInv' /\ PinInv' /\ BodyInv' /\ KeptInv'
    BY <1>3 DEF OpenGone, TypeOK, PlaceInv, PinInv, BodyInv, KeptInv
  <2>3. OneGeneration' /\ WholeFile' /\ NoGap' /\ OwnDeleteCounts'
    BY <1>3 DEF OpenGone, TypeOK, PlaceInv, KeptInv, OneGeneration, WholeFile, NoGap, OwnDeleteCounts
  <2> QED
    BY <2>1, <2>2, <2>3
<1>4. CASE OpenFault
  <2>1. TypeOK'
    BY <1>4 DEF OpenFault, TypeOK, Ops, PlaceInv, BodyInv, KeptInv
  <2>2. PlaceInv' /\ PinInv' /\ BodyInv' /\ KeptInv'
    BY <1>4 DEF OpenFault, TypeOK, PlaceInv, PinInv, BodyInv, KeptInv
  <2>3. OneGeneration' /\ WholeFile' /\ NoGap' /\ OwnDeleteCounts'
    BY <1>4 DEF OpenFault, TypeOK, PlaceInv, KeptInv, OneGeneration, WholeFile, NoGap, OwnDeleteCounts
  <2> QED
    BY <2>1, <2>2, <2>3
<1> QED
  BY <1>1, <1>2, <1>3, <1>4

\* Read: bytes, the end of a response, or a fault.
LEMMA ReadInv ==
  ASSUME TransferInv, ReadBytes \/ ReadEOF \/ ReadFault PROVE TransferInv'
<1> USE DEF TransferInv, Retry, Goto, Return, Resend, Commit, Remove, Stored, Opening, Pinned, Headers, Deleted
<1>1. CASE ReadBytes
  <2>1. TypeOK'
    <3>1. StorageType'
      BY <1>1 DEF ReadBytes, TypeOK, StorageType
    <3>2. CallType'
      BY <1>1 DEF ReadBytes, TypeOK, CallType
    <3>3. MovedType'
      BY <1>1 DEF ReadBytes, TypeOK, BodyInv, PlaceInv, MovedType
    <3> QED
      BY <3>1, <3>2, <3>3 DEF TypeOK, StorageType, CallType, MovedType
  <2>2. PlaceInv' /\ KeptInv'
    BY <1>1 DEF ReadBytes, TypeOK, PlaceInv, KeptInv
  <2>3. PinInv'
    BY <1>1 DEF ReadBytes, TypeOK, PlaceInv, PinInv, BodyInv
  <2>4. BodyInv'
    BY <1>1 DEF ReadBytes, TypeOK, PlaceInv, PinInv, BodyInv
  <2>5. OneGeneration' /\ WholeFile'
    <3>1. /\ got \in Seq(Gens \X (1 .. MaxSize)) /\ Len(got) = off /\ off \in Nat
          /\ got' = Append(got, <<body.gen, off + 1>>)
          /\ named' = named /\ (off > 0 /\ named => got[1][1] = body.gen)
      BY <1>1 DEF ReadBytes, TypeOK, PlaceInv, PinInv, BodyInv
    <3>2. /\ Len(got') = off + 1 /\ got'[off + 1] = <<body.gen, off + 1>>
          /\ \A i \in 1 .. off : got'[i] = got[i]
      BY <3>1
    <3>3. named => got'[1][1] = body.gen
      BY <3>1, <3>2
    <3>4. \A i \in 1 .. off : got[i][2] = i /\ (named => got[i][1] = got[1][1])
      BY <3>1 DEF OneGeneration
    <3>5. \A i \in 1 .. off + 1 : got'[i][2] = i /\ (named => got'[i][1] = got'[1][1])
      BY <3>1, <3>2, <3>3, <3>4
    <3>6. OneGeneration'
      BY <3>1, <3>2, <3>5 DEF OneGeneration
    <3>7. WholeFile'
      BY <1>1 DEF ReadBytes, TypeOK, WholeFile
    <3> QED
      BY <3>6, <3>7
  <2>6. NoGap' /\ OwnDeleteCounts'
    BY <1>1 DEF ReadBytes, TypeOK, PlaceInv, KeptInv, NoGap, OwnDeleteCounts
  <2> QED
    BY <2>1, <2>2, <2>3, <2>4, <2>5, <2>6
<1>2. CASE ReadEOF
  <2>1. TypeOK'
    <3>1. StorageType'
      BY <1>2 DEF ReadEOF, TypeOK, StorageType
    <3>2. CallType'
      BY <1>2 DEF ReadEOF, TypeOK, CallType
    <3>3. MovedType'
      BY <1>2 DEF ReadEOF, TypeOK, BodyInv, PlaceInv, MovedType
    <3> QED
      BY <3>1, <3>2, <3>3 DEF TypeOK, StorageType, CallType, MovedType
  <2>2. PlaceInv' /\ KeptInv'
    BY <1>2 DEF ReadEOF, TypeOK, PlaceInv, KeptInv
  <2>3. PinInv'
    BY <1>2 DEF ReadEOF, TypeOK, PlaceInv, PinInv, BodyInv
  <2>4. BodyInv'
    BY <1>2 DEF ReadEOF, TypeOK, PlaceInv, PinInv, BodyInv
  <2>5. OneGeneration' /\ WholeFile'
    BY <1>2 DEF ReadEOF, TypeOK, PlaceInv, PinInv, BodyInv, OneGeneration, WholeFile
  <2>6. NoGap' /\ OwnDeleteCounts'
    BY <1>2 DEF ReadEOF, TypeOK, PlaceInv, KeptInv, NoGap, OwnDeleteCounts
  <2> QED
    BY <2>1, <2>2, <2>3, <2>4, <2>5, <2>6
<1>3. CASE ReadFault
  <2>1. TypeOK'
    <3>1. StorageType'
      BY <1>3 DEF ReadFault, TypeOK, StorageType
    <3>2. CallType'
      BY <1>3 DEF ReadFault, TypeOK, CallType
    <3>3. MovedType'
      BY <1>3 DEF ReadFault, TypeOK, MovedType
    <3> QED
      BY <3>1, <3>2, <3>3 DEF TypeOK, StorageType, CallType, MovedType
  <2>2. PlaceInv' /\ PinInv' /\ BodyInv' /\ KeptInv'
    BY <1>3 DEF ReadFault, TypeOK, PlaceInv, PinInv, BodyInv, KeptInv
  <2>3. OneGeneration' /\ WholeFile' /\ NoGap' /\ OwnDeleteCounts'
    BY <1>3 DEF ReadFault, TypeOK, PlaceInv, KeptInv, OneGeneration, WholeFile, NoGap, OwnDeleteCounts
  <2> QED
    BY <2>1, <2>2, <2>3
<1> QED
  BY <1>1, <1>2, <1>3

\* sendUpload: the offset follows what storage keeps.
LEMMA UploadInv ==
  ASSUME TransferInv, StartUpload \/ PutAnswered \/ PutFault \/ AskAnswered \/ AskFault PROVE TransferInv'
<1> USE DEF TransferInv, Retry, Goto, Return, Resend, Commit, Remove, Stored, Opening, Pinned, Headers, Deleted
<1>1. CASE StartUpload
  <2>1. TypeOK'
    BY <1>1 DEF StartUpload, TypeOK, Ops, PlaceInv, BodyInv, KeptInv
  <2>2. PlaceInv' /\ PinInv' /\ BodyInv' /\ KeptInv'
    BY <1>1 DEF StartUpload, TypeOK, PlaceInv, PinInv, BodyInv, KeptInv
  <2>3. OneGeneration' /\ WholeFile' /\ NoGap' /\ OwnDeleteCounts'
    BY <1>1 DEF StartUpload, TypeOK, PlaceInv, KeptInv, OneGeneration, WholeFile, NoGap, OwnDeleteCounts
  <2> QED
    BY <2>1, <2>2, <2>3
<1>2. CASE PutAnswered
  <2>1. TypeOK'
    <3>1. StorageType'
      <4>1. (\E n \in 0 .. MaxSize : Commit(n)) \/ Remove \/ UNCHANGED storage
        BY <1>2 DEF PutAnswered, TypeOK, PlaceInv, KeptInv
      <4>2. kept' \in 0 .. MaxSize
        BY <1>2 DEF PutAnswered, TypeOK, PlaceInv, KeptInv
      <4>3. final' \in BOOLEAN /\ ours' \in BOOLEAN /\ forgot' \in 0 .. MaxForgets
        BY <1>2 DEF PutAnswered, TypeOK, PlaceInv, KeptInv
      <4> QED
        BY <4>1, <4>2, <4>3, StorageSteps DEF StorageType
    <3>2. CallType'
      <4>1. /\ pc = "put" /\ UNCHANGED <<op, again, att>>
            /\ \/ Return("ok") /\ UNCHANGED fails
               \/ fails' = 0 /\ UNCHANGED <<pc, res>>
               \/ Retry
        BY <1>2 DEF PutAnswered
      <4> QED
        BY <4>1 DEF TypeOK, CallType
    <3>3. MovedType'
      BY <1>2 DEF PutAnswered, TypeOK, BodyInv, PlaceInv, MovedType
    <3> QED
      BY <3>1, <3>2, <3>3 DEF TypeOK, StorageType, CallType, MovedType
  <2>2. PlaceInv' /\ KeptInv'
    BY <1>2 DEF PutAnswered, TypeOK, PlaceInv, KeptInv
  <2>3. PinInv'
    BY <1>2 DEF PutAnswered, TypeOK, PlaceInv, PinInv, BodyInv
  <2>4. BodyInv'
    BY <1>2 DEF PutAnswered, TypeOK, PlaceInv, PinInv, BodyInv
  <2>5. OneGeneration' /\ WholeFile'
    BY <1>2 DEF PutAnswered, TypeOK, PlaceInv, PinInv, BodyInv, OneGeneration, WholeFile
  <2>6. NoGap' /\ OwnDeleteCounts'
    BY <1>2 DEF PutAnswered, TypeOK, PlaceInv, KeptInv, NoGap, OwnDeleteCounts
  <2> QED
    BY <2>1, <2>2, <2>3, <2>4, <2>5, <2>6
<1>3. CASE PutFault
  <2>1. TypeOK'
    <3>1. StorageType'
      <4>1. (\E n \in 0 .. MaxSize : Commit(n)) \/ Remove \/ UNCHANGED storage
        BY <1>3 DEF PutFault, TypeOK, PlaceInv, KeptInv
      <4>2. kept' \in 0 .. MaxSize
        BY <1>3 DEF PutFault, TypeOK, PlaceInv, KeptInv
      <4>3. final' \in BOOLEAN /\ ours' \in BOOLEAN /\ forgot' \in 0 .. MaxForgets
        BY <1>3 DEF PutFault, TypeOK, PlaceInv, KeptInv
      <4> QED
        BY <4>1, <4>2, <4>3, StorageSteps DEF StorageType
    <3>2. CallType'
      BY <1>3 DEF PutFault, TypeOK, CallType
    <3>3. MovedType'
      BY <1>3 DEF PutFault, TypeOK, BodyInv, PlaceInv, MovedType
    <3> QED
      BY <3>1, <3>2, <3>3 DEF TypeOK, StorageType, CallType, MovedType
  <2>2. PlaceInv' /\ KeptInv'
    BY <1>3 DEF PutFault, TypeOK, PlaceInv, KeptInv
  <2>3. PinInv'
    BY <1>3 DEF PutFault, TypeOK, PlaceInv, PinInv, BodyInv
  <2>4. BodyInv'
    BY <1>3 DEF PutFault, TypeOK, PlaceInv, PinInv, BodyInv
  <2>5. OneGeneration' /\ WholeFile'
    BY <1>3 DEF PutFault, TypeOK, PlaceInv, PinInv, BodyInv, OneGeneration, WholeFile
  <2>6. NoGap' /\ OwnDeleteCounts'
    BY <1>3 DEF PutFault, TypeOK, PlaceInv, KeptInv, NoGap, OwnDeleteCounts
  <2> QED
    BY <2>1, <2>2, <2>3, <2>4, <2>5, <2>6
<1>4. CASE AskAnswered
  <2>1. TypeOK'
    BY <1>4 DEF AskAnswered, TypeOK, Ops, PlaceInv, BodyInv, KeptInv
  <2>2. PlaceInv' /\ PinInv' /\ BodyInv' /\ KeptInv'
    BY <1>4 DEF AskAnswered, TypeOK, PlaceInv, PinInv, BodyInv, KeptInv
  <2>3. OneGeneration' /\ WholeFile' /\ NoGap' /\ OwnDeleteCounts'
    BY <1>4 DEF AskAnswered, TypeOK, PlaceInv, KeptInv, OneGeneration, WholeFile, NoGap, OwnDeleteCounts
  <2> QED
    BY <2>1, <2>2, <2>3
<1>5. CASE AskFault
  <2>1. TypeOK'
    BY <1>5 DEF AskFault, TypeOK, Ops, PlaceInv, BodyInv, KeptInv
  <2>2. PlaceInv' /\ PinInv' /\ BodyInv' /\ KeptInv'
    BY <1>5 DEF AskFault, TypeOK, PlaceInv, PinInv, BodyInv, KeptInv
  <2>3. OneGeneration' /\ WholeFile' /\ NoGap' /\ OwnDeleteCounts'
    BY <1>5 DEF AskFault, TypeOK, PlaceInv, KeptInv, OneGeneration, WholeFile, NoGap, OwnDeleteCounts
  <2> QED
    BY <2>1, <2>2, <2>3
<1> QED
  BY <1>1, <1>2, <1>3, <1>4, <1>5

\* Delete and Copy.
LEMMA FilesInv ==
  ASSUME TransferInv, Delete \/ CopyStep \/ CopyLast PROVE TransferInv'
<1> USE DEF TransferInv, Retry, Goto, Return, Resend, Commit, Remove, Stored, Opening, Pinned, Headers, Deleted
<1>1. CASE Delete
  <2>1. TypeOK'
    <3>1. StorageType'
      <4>1. (\E n \in 0 .. MaxSize : Commit(n)) \/ Remove \/ UNCHANGED storage
        BY <1>1 DEF Delete, TypeOK, PlaceInv, KeptInv
      <4>2. kept' \in 0 .. MaxSize
        BY <1>1 DEF Delete, TypeOK, PlaceInv, KeptInv
      <4>3. final' \in BOOLEAN /\ ours' \in BOOLEAN /\ forgot' \in 0 .. MaxForgets
        BY <1>1 DEF Delete, TypeOK, PlaceInv, KeptInv
      <4> QED
        BY <4>1, <4>2, <4>3, StorageSteps DEF StorageType
    <3>2. CallType'
      BY <1>1 DEF Delete, TypeOK, CallType
    <3>3. MovedType'
      BY <1>1 DEF Delete, TypeOK, BodyInv, PlaceInv, MovedType
    <3> QED
      BY <3>1, <3>2, <3>3 DEF TypeOK, StorageType, CallType, MovedType
  <2>2. PlaceInv' /\ KeptInv'
    BY <1>1 DEF Delete, TypeOK, PlaceInv, KeptInv
  <2>3. PinInv'
    BY <1>1 DEF Delete, TypeOK, PlaceInv, PinInv, BodyInv
  <2>4. BodyInv'
    BY <1>1 DEF Delete, TypeOK, PlaceInv, PinInv, BodyInv
  <2>5. OneGeneration' /\ WholeFile'
    BY <1>1 DEF Delete, TypeOK, PlaceInv, PinInv, BodyInv, OneGeneration, WholeFile
  <2>6. NoGap' /\ OwnDeleteCounts'
    BY <1>1 DEF Delete, TypeOK, PlaceInv, KeptInv, NoGap, OwnDeleteCounts
  <2> QED
    BY <2>1, <2>2, <2>3, <2>4, <2>5, <2>6
<1>2. CASE CopyStep
  <2>1. TypeOK'
    <3>1. StorageType'
      BY <1>2 DEF CopyStep, TypeOK, StorageType
    <3>2. CallType'
      <4>1. again' \in BOOLEAN
        BY <1>2 DEF CopyStep, TypeOK
      <4> QED
        BY <1>2, <4>1 DEF CopyStep, TypeOK, CallType
    <3>3. MovedType'
      BY <1>2 DEF CopyStep, TypeOK, BodyInv, PlaceInv, MovedType
    <3> QED
      BY <3>1, <3>2, <3>3 DEF TypeOK, StorageType, CallType, MovedType
  <2>2. PlaceInv' /\ PinInv' /\ BodyInv' /\ KeptInv'
    BY <1>2 DEF CopyStep, TypeOK, PlaceInv, PinInv, BodyInv, KeptInv
  <2>3. OneGeneration' /\ WholeFile' /\ NoGap' /\ OwnDeleteCounts'
    BY <1>2 DEF CopyStep, TypeOK, PlaceInv, KeptInv, OneGeneration, WholeFile, NoGap, OwnDeleteCounts
  <2> QED
    BY <2>1, <2>2, <2>3
<1>3. CASE CopyLast
  <2>1. TypeOK'
    <3>1. StorageType'
      <4>1. (\E n \in 0 .. MaxSize : Commit(n)) \/ Remove \/ UNCHANGED storage
        BY <1>3 DEF CopyLast, TypeOK, PlaceInv, KeptInv
      <4>2. kept' \in 0 .. MaxSize
        BY <1>3 DEF CopyLast, TypeOK, PlaceInv, KeptInv
      <4>3. final' \in BOOLEAN /\ ours' \in BOOLEAN /\ forgot' \in 0 .. MaxForgets
        BY <1>3 DEF CopyLast, TypeOK, PlaceInv, KeptInv
      <4> QED
        BY <4>1, <4>2, <4>3, StorageSteps DEF StorageType
    <3>2. CallType'
      BY <1>3 DEF CopyLast, TypeOK, CallType
    <3>3. MovedType'
      BY <1>3 DEF CopyLast, TypeOK, BodyInv, PlaceInv, MovedType
    <3> QED
      BY <3>1, <3>2, <3>3 DEF TypeOK, StorageType, CallType, MovedType
  <2>2. PlaceInv' /\ KeptInv'
    BY <1>3 DEF CopyLast, TypeOK, PlaceInv, KeptInv
  <2>3. PinInv'
    BY <1>3 DEF CopyLast, TypeOK, PlaceInv, PinInv, BodyInv
  <2>4. BodyInv'
    BY <1>3 DEF CopyLast, TypeOK, PlaceInv, PinInv, BodyInv
  <2>5. OneGeneration' /\ WholeFile'
    BY <1>3 DEF CopyLast, TypeOK, PlaceInv, PinInv, BodyInv, OneGeneration, WholeFile
  <2>6. NoGap' /\ OwnDeleteCounts'
    BY <1>3 DEF CopyLast, TypeOK, PlaceInv, KeptInv, NoGap, OwnDeleteCounts
  <2> QED
    BY <2>1, <2>2, <2>3, <2>4, <2>5, <2>6
<1> QED
  BY <1>1, <1>2, <1>3

\* The invariant is inductive.
LEMMA TransferStepInv == TransferInv /\ [Next]_vars => TransferInv'
<1> SUFFICES ASSUME TransferInv, [Next]_vars PROVE TransferInv'
  OBVIOUS
<1>1. CASE Next
  BY <1>1, RivalInv, ForgetsInv, TokenInv, OpenInv, ReadInv, UploadInv, FilesInv
     DEF Next, Call, WithToken, Download, Upload
<1>2. CASE UNCHANGED vars
  <2> USE DEF vars, TransferInv
  <2>1. TypeOK'
    BY <1>2 DEF TypeOK
  <2>2. PlaceInv' /\ PinInv' /\ BodyInv' /\ KeptInv'
    BY <1>2 DEF PlaceInv, PinInv, BodyInv, KeptInv
  <2>3. OneGeneration' /\ WholeFile' /\ NoGap' /\ OwnDeleteCounts'
    BY <1>2 DEF OneGeneration, WholeFile, NoGap, OwnDeleteCounts
  <2> QED
    BY <2>1, <2>2, <2>3
<1> QED
  BY <1>1, <1>2

\* The inductive invariant holds throughout.
THEOREM TransferInvariant == Spec => []TransferInv
BY TransferInitInv, TransferStepInv, PTL DEF Spec

\* The state has its type, and a call under way is within its budget of failures.
THEOREM TransferTypeCorrect == Spec => []TypeOK
<1>1. TransferInv => TypeOK
  BY DEF TransferInv
<1> QED
  BY <1>1, TransferInvariant, PTL

\* reader: what has been delivered is a beginning of one generation, however often the
\* download resumed and the file was replaced.
THEOREM ReadsOneGeneration == Spec => []OneGeneration
<1>1. TransferInv => OneGeneration
  BY DEF TransferInv
<1> QED
  BY <1>1, TransferInvariant, PTL

\* reader: a download that succeeds has delivered all of that generation.
THEOREM ReadsWholeFile == Spec => []WholeFile
<1>1. TransferInv => WholeFile
  BY DEF TransferInv
<1> QED
  BY <1>1, TransferInvariant, PTL

\* sendUpload: no byte is sent past what storage keeps, and success means the object.
THEOREM UploadsWithoutGap == Spec => []NoGap
<1>1. TransferInv => NoGap
  BY DEF TransferInv
<1> QED
  BY <1>1, TransferInvariant, PTL

\* Delete: a call that reports the file missing did not delete it itself, but for a 401
\* between its sends.
THEOREM OwnDeleteKnown == Spec => []OwnDeleteCounts
<1>1. TransferInv => OwnDeleteCounts
  BY DEF TransferInv
<1> QED
  BY <1>1, TransferInvariant, PTL

-----------------------------------------------------------------------------
\* That a call makes a bounded number of steps.

\* One whole unit outweighs whatever is counted within a unit.
LEMMA UnitOutweighs ==
  ASSUME NEW w \in Nat, NEW m \in Nat, NEW n \in Nat, m < n, NEW r \in Nat, NEW s \in Nat,
         s < w + r
  PROVE  m * w + s < n * w + r
<1>1. n * w = m * w + (n - m) * w
  OBVIOUS
<1>2. (n - m) * w = w + (n - m - 1) * w /\ (n - m - 1) * w >= 0
  OBVIOUS
<1>3. m * w \in Int /\ n * w \in Int /\ (n - m) * w \in Int /\ (n - m - 1) * w \in Int
  OBVIOUS
<1> QED
  BY <1>1, <1>2, <1>3

\* A step forward outweighs any number of failures within the budget.
LEMMA ForwardOutweighs ==
  ASSUME NEW l \in Nat, NEW x \in Nat, NEW y \in Nat, x < y, y <= l,
         NEW b \in Nat, NEW f \in 0 .. b, NEW g \in 0 .. b
  PROVE  (l - y) * (b + 1) + (b - g) < (l - x) * (b + 1) + (b - f)
<1>1. l - y \in Nat /\ l - x \in Nat /\ l - y < l - x
  OBVIOUS
<1>2. b + 1 \in Nat /\ b - f \in Nat /\ b - g \in Nat /\ b - g < (b + 1) + (b - f)
  OBVIOUS
<1> QED
  BY <1>1, <1>2, UnitOutweighs

\* A sum grows with its summand.
LEMMA SumGrows ==
  ASSUME NEW m \in Nat, NEW r \in Nat, NEW s \in Nat, s < r
  PROVE  m + s < m + r
OBVIOUS

\* Products of natural numbers grow with their factors.
LEMMA ProductBound ==
  ASSUME NEW m \in Nat, NEW n \in Nat, NEW w \in Nat, m <= n
  PROVE  m * w \in Nat /\ n * w \in Nat /\ m * w <= n * w
<1>1. n * w = m * w + (n - m) * w /\ (n - m) * w \in Nat /\ m * w \in Nat /\ n * w \in Nat
  OBVIOUS
<1> QED
  BY <1>1

\* An attempt has fewer steps than are counted for one, and at least the one it is at.
LEMMA AttemptType ==
  ASSUME TransferInv
  PROVE  /\ AttemptSteps \in Nat /\ AttemptLeft \in 0 .. AttemptSteps
         /\ pc # "done" => AttemptLeft >= 1
<1>1. CallType
  BY DEF TransferInv, TypeOK, CallType
<1> QED
  BY <1>1 DEF CallType, AttemptLeft, AttemptSteps

\* Where the transfer has come to is a place of the longest file, or a rewrite of a copy.
LEMMA ReachedType ==
  ASSUME TransferInv, off <= Limit
  PROVE  Reached \in Nat /\ Reached <= Limit /\ Limit \in Nat
BY DEF TransferInv, TypeOK, Reached, Limit

\* The attempts left are bounded by the budget for each place a transfer can be at.
LEMMA AttemptsType ==
  ASSUME TransferInv, off <= Limit, pc # "done"
  PROVE  AttemptsLeft \in 0 .. Limit * (Budget + 1) + Budget
<1>1. /\ Limit - Reached \in Nat /\ Limit \in Nat /\ Limit - Reached <= Limit
      /\ Budget + 1 \in Nat /\ Budget - fails \in 0 .. Budget
  BY ReachedType DEF TransferInv, TypeOK
<1>2. /\ (Limit - Reached) * (Budget + 1) \in Nat /\ Limit * (Budget + 1) \in Nat
      /\ (Limit - Reached) * (Budget + 1) <= Limit * (Budget + 1)
  BY <1>1, ProductBound
<1> QED
  BY <1>1, <1>2 DEF AttemptsLeft

\* What is left while storage forgets nothing is a number below its bound.
LEMMA AheadType ==
  ASSUME TransferInv, off <= Limit, pc # "done"
  PROVE  StepsAhead \in Nat /\ MaxAhead \in Nat /\ StepsAhead <= MaxAhead
<1>1. AttemptSteps \in Nat /\ AttemptLeft \in 0 .. AttemptSteps
  BY AttemptType
<1>2. Limit * (Budget + 1) + Budget \in Nat
  <2>1. Limit \in Nat /\ Budget + 1 \in Nat
    BY DEF Limit
  <2>2. Limit * (Budget + 1) \in Nat
    BY <2>1
  <2> QED
    BY <2>2
<1>3. AttemptsLeft \in Nat /\ AttemptsLeft <= Limit * (Budget + 1) + Budget
  BY <1>2, AttemptsType
<1>4. /\ AttemptsLeft * AttemptSteps \in Nat
      /\ (Limit * (Budget + 1) + Budget) * AttemptSteps \in Nat
      /\ AttemptsLeft * AttemptSteps <= (Limit * (Budget + 1) + Budget) * AttemptSteps
  BY <1>1, <1>2, <1>3, ProductBound
<1> QED
  BY <1>1, <1>4 DEF StepsAhead, MaxAhead

\* The bounds are numbers.
LEMMA BoundsType == MaxAhead \in Nat /\ MaxAhead + 1 \in Nat /\ MaxSteps \in Nat
<1>1. Limit \in Nat /\ Budget + 1 \in Nat /\ AttemptSteps \in Nat
  BY DEF Limit, AttemptSteps
<1>2. Limit * (Budget + 1) \in Nat
  BY <1>1
<1>3. (Limit * (Budget + 1) + Budget) * AttemptSteps \in Nat
  BY <1>1, <1>2
<1>4. MaxAhead \in Nat /\ MaxAhead + 1 \in Nat
  BY <1>1, <1>3 DEF MaxAhead
<1>5. MaxForgets * (MaxAhead + 1) \in Nat
  BY <1>4
<1> QED
  BY <1>4, <1>5 DEF MaxSteps

\* The steps left are a number below the bound.
LEMMA StepsType ==
  ASSUME TransferInv, off <= Limit
  PROVE  StepsLeft \in 0 .. MaxSteps
<1>1. CASE pc = "done"
  BY <1>1, BoundsType DEF StepsLeft
<1>2. CASE pc # "done"
  <2>1. MaxForgets - forgot \in Nat /\ MaxForgets - forgot <= MaxForgets
    BY DEF TransferInv, TypeOK
  <2>2. /\ (MaxForgets - forgot) * (MaxAhead + 1) \in Nat /\ MaxForgets * (MaxAhead + 1) \in Nat
        /\ (MaxForgets - forgot) * (MaxAhead + 1) <= MaxForgets * (MaxAhead + 1)
    BY <2>1, BoundsType, ProductBound
  <2> QED
    BY <1>2, <2>2, AheadType DEF StepsLeft, MaxSteps
<1> QED
  BY <1>1, <1>2

\* No transfer passes the end of the longest file, and no copy its last rewrite.
LEMMA OffStep ==
  ASSUME TransferInv, off <= Limit, [Next]_vars
  PROVE  off' <= Limit
<1> USE DEF TransferInv, TypeOK, Limit
<1>1. CASE Rival \/ Forgets \/ Wait \/ WithToken \/ UNCHANGED vars
  BY <1>1 DEF Rival, Forgets, Wait, WithToken, Token, TokenFails, SendRejected, SendRefused, vars
<1>2. CASE Download
  BY <1>2 DEF Download, OpenWhole, OpenRange, OpenGone, OpenFault, ReadBytes, ReadEOF, ReadFault
<1>3. CASE Upload
  BY <1>3 DEF Upload, StartUpload, PutAnswered, PutFault, AskAnswered, AskFault, Stored
<1>4. CASE Delete \/ CopyStep \/ CopyLast
  BY <1>4 DEF Delete, CopyStep, CopyLast
<1> QED
  BY <1>1, <1>2, <1>3, <1>4 DEF Next, Call

\* A step of a call ends it, moves its attempt on, gives the attempt up for the next,
\* or moves the transfer forward.
LEMMA CallProgress ==
  ASSUME TransferInv, Call
  PROVE  /\ pc # "done" /\ forgot' = forgot
         /\ \/ pc' = "done"
            \/ Reached' = Reached /\ fails' = fails /\ AttemptLeft' < AttemptLeft
            \/ Reached' = Reached /\ fails' = fails + 1
            \/ Reached' > Reached
<1> USE DEF Goto, Return, Retry, Resend, Reached
<1>0. /\ off \in Nat /\ kept \in Nat /\ att \in 1 .. Sends /\ fails \in 0 .. Budget + 1
      /\ again \in BOOLEAN /\ size \in Int
  BY DEF TransferInv, TypeOK
<1>1. CASE Wait \/ Token \/ TokenFails
  BY <1>0, <1>1 DEF Wait, Token, TokenFails, AttemptLeft, AttemptSteps
<1>2. CASE SendRejected \/ SendRefused
  BY <1>0, <1>2 DEF SendRejected, SendRefused, AttemptLeft
<1>3. CASE OpenWhole \/ OpenRange \/ OpenGone \/ OpenFault
  BY <1>0, <1>3 DEF Opening, OpenWhole, OpenRange, OpenGone, OpenFault, AttemptLeft
<1>4. CASE ReadBytes \/ ReadEOF \/ ReadFault
  <2>1. pc = "read" => op = "download"
    BY DEF TransferInv, PlaceInv
  <2> QED
    BY <1>0, <1>4, <2>1 DEF ReadBytes, ReadEOF, ReadFault
<1>5. CASE StartUpload
  BY <1>0, <1>5 DEF StartUpload, AttemptLeft
<1>6. CASE PutAnswered \/ PutFault
  <2>1. pc = "put" /\ op = "upload" /\ op' = op /\ forgot' = forgot
    BY <1>6 DEF PutAnswered, PutFault, Stored, TransferInv, PlaceInv
  <2>2. kept' \in Nat /\ (off <= kept => kept <= kept') /\ (off > kept => kept' = kept)
    BY <1>0, <1>6 DEF PutAnswered, PutFault, Stored
  <2>3. \/ pc' = "done"
        \/ off' = off /\ fails' = fails + 1
        \/ off' = kept' /\ kept' > off
    BY <1>6 DEF PutAnswered, PutFault
  <2>4. CASE off <= kept
    <3>1. Reached = off
      BY <1>0, <2>4
    <3>2. off' = off => Reached' = off
      BY <1>0, <2>2, <2>4
    <3>3. off' = kept' => Reached' = kept'
      BY <2>2
    <3> QED
      BY <2>1, <2>3, <3>1, <3>2, <3>3
  <2>5. CASE off > kept
    <3>1. Reached = kept /\ (off' = off => Reached' = kept) /\ ~(kept' > off)
      BY <1>0, <2>1, <2>2, <2>5
    <3> QED
      BY <2>1, <2>3, <3>1
  <2> QED
    BY <1>0, <2>4, <2>5
<1>7. CASE AskAnswered \/ AskFault
  <2>1. pc = "ask" => op = "upload"
    BY DEF TransferInv, PlaceInv
  <2> QED
    BY <1>0, <1>7, <2>1 DEF AskAnswered, AskFault, AttemptLeft
<1>8. CASE Delete \/ CopyStep \/ CopyLast
  BY <1>0, <1>8 DEF Delete, CopyStep, CopyLast, AttemptLeft
<1> QED
  BY <1>1, <1>2, <1>3, <1>4, <1>5, <1>6, <1>7, <1>8 DEF Call, WithToken, Download, Upload

\* Each of the four brings the end nearer.
LEMMA CallAhead ==
  ASSUME TransferInv, TransferInv', off <= Limit, off' <= Limit, Call, pc' # "done"
  PROVE  StepsAhead' < StepsAhead
<1>0. TransferInv' /\ (off <= Limit)' /\ (pc # "done")'
  BY DEF Limit
<1>1. /\ AttemptSteps \in Nat /\ AttemptSteps' = AttemptSteps
      /\ AttemptLeft \in 0 .. AttemptSteps
  BY AttemptType DEF AttemptSteps
<1>2. AttemptLeft' \in 0 .. AttemptSteps
  <2>1. (AttemptLeft \in 0 .. AttemptSteps)'
    BY <1>0, AttemptType, PTL
  <2> QED
    BY <1>1, <2>1
<1>3. AttemptsLeft \in Nat
  <2>1. Limit * (Budget + 1) \in Nat
    BY DEF Limit
  <2> QED
    BY <2>1, AttemptsType, CallProgress
<1>4. AttemptsLeft' \in Nat
  <2>1. (Limit * (Budget + 1))' \in Nat
    BY DEF Limit
  <2>2. (AttemptsLeft \in 0 .. Limit * (Budget + 1) + Budget)'
    BY <1>0, AttemptsType, PTL
  <2> QED
    BY <2>1, <2>2
<1>5. AttemptsLeft * AttemptSteps \in Nat
  BY <1>1, <1>3
<1>6. StepsAhead' = AttemptsLeft' * AttemptSteps + AttemptLeft'
  BY <1>1 DEF StepsAhead
<1>7. CASE Reached' = Reached /\ fails' = fails /\ AttemptLeft' < AttemptLeft
  <2>1. AttemptsLeft' = AttemptsLeft
    BY <1>7 DEF AttemptsLeft, Limit
  <2> QED
    BY <1>1, <1>2, <1>5, <1>6, <1>7, <2>1 DEF StepsAhead
<1>8. ASSUME AttemptsLeft' < AttemptsLeft PROVE StepsAhead' < StepsAhead
  <2>1. /\ AttemptLeft \in Nat /\ AttemptLeft' \in Nat
        /\ AttemptLeft' <= AttemptSteps
    BY <1>1, <1>2
  <2>2. AttemptLeft >= 1
    BY AttemptType, CallProgress
  <2>3. AttemptLeft' < AttemptSteps + AttemptLeft
    BY <1>1, <2>1, <2>2
  <2>4. StepsAhead = AttemptsLeft * AttemptSteps + AttemptLeft
    BY DEF StepsAhead
  <2> QED
    BY <1>1, <1>3, <1>4, <1>6, <1>8, <2>1, <2>3, <2>4, UnitOutweighs, Zenon
<1>9. /\ Reached \in Nat /\ Reached' \in Nat /\ Reached' <= Limit
      /\ fails \in 0 .. Budget /\ fails' \in 0 .. Budget /\ Limit \in Nat /\ Limit' = Limit
  <2>1. CallType /\ CallType'
    BY <1>0 DEF TransferInv, TypeOK, CallType
  <2>2. (Reached \in Nat /\ Reached <= Limit)'
    BY <1>0, ReachedType, PTL
  <2> QED
    BY <2>1, <2>2, CallProgress, ReachedType DEF CallType, Limit
<1>10. AttemptsLeft = (Limit - Reached) * (Budget + 1) + (Budget - fails)
  BY DEF AttemptsLeft
<1>11. AttemptsLeft' = (Limit - Reached') * (Budget + 1) + (Budget - fails')
  BY <1>9 DEF AttemptsLeft
<1>12. CASE Reached' = Reached /\ fails' = fails + 1
  <2>1. (Limit - Reached) * (Budget + 1) \in Int
    BY <1>9
  <2>2. AttemptsLeft' < AttemptsLeft
    BY <1>9, <1>10, <1>11, <1>12, <2>1
  <2> QED
    BY <1>8, <2>2
<1>13. CASE Reached' > Reached
  <2>1. Reached < Reached' /\ Reached' <= Limit /\ Budget \in Nat
    BY <1>9, <1>13
  <2>2. AttemptsLeft' < AttemptsLeft
    BY <1>9, <1>10, <1>11, <2>1, ForwardOutweighs, Zenon
  <2> QED
    BY <1>8, <2>2
<1> QED
  BY <1>7, <1>12, <1>13, CallProgress

\* A call's step, with what storage may still forget counted in.
LEMMA CallNearer ==
  ASSUME TransferInv, TransferInv', off <= Limit, off' <= Limit, Call
  PROVE  StepsLeft' < StepsLeft
<1> DEFINE f == (MaxForgets - forgot) * (MaxAhead + 1)
<1>1. MaxForgets - forgot \in Nat
  BY DEF TransferInv, TypeOK
<1>2. f \in Nat
  BY <1>1, BoundsType
<1>3. f' = f
  BY CallProgress DEF MaxAhead, Limit, AttemptSteps
<1>4. StepsLeft = f + StepsAhead /\ StepsAhead \in Nat
  BY CallProgress, AheadType DEF StepsLeft
<1>5. StepsAhead >= 1
  <2>1. AttemptLeft >= 1 /\ AttemptLeft \in Nat
    BY AttemptType, CallProgress
  <2>2. AttemptsLeft * AttemptSteps \in Nat
    <3>1. Limit * (Budget + 1) \in Nat /\ AttemptSteps \in Nat
      BY DEF Limit, AttemptSteps
    <3>2. AttemptsLeft \in Nat
      BY <3>1, AttemptsType, CallProgress
    <3> QED
      BY <3>1, <3>2
  <2> QED
    BY <2>1, <2>2 DEF StepsAhead
<1>6. CASE pc' = "done"
  <2>1. StepsLeft' = 0
    BY <1>6 DEF StepsLeft
  <2> QED
    BY <1>2, <1>4, <1>5, <2>1
<1>7. CASE pc' # "done"
  <2>1. StepsLeft' = f + StepsAhead'
    BY <1>3, <1>7 DEF StepsLeft
  <2>2. StepsAhead' < StepsAhead
    BY <1>7, CallAhead
  <2>3. StepsAhead' \in Nat
    <3>1. TransferInv' /\ (off <= Limit)' /\ (pc # "done")'
      BY <1>7 DEF Limit
    <3>2. (StepsAhead \in Nat)'
      BY <3>1, AheadType, PTL
    <3> QED
      BY <3>2
  <2> HIDE DEF f
  <2> QED
    BY <1>2, <1>4, <2>1, <2>2, <2>3, SumGrows, Zenon
<1> QED
  BY <1>6, <1>7

\* One time fewer that storage may forget outweighs making the transfer anew.
LEMMA ForgetsNearer ==
  ASSUME TransferInv, TransferInv', off <= Limit, off' <= Limit, Forgets
  PROVE  StepsLeft' < StepsLeft
<1> DEFINE w == MaxAhead + 1
<1>1. /\ pc # "done" /\ pc' # "done" /\ w' = w /\ MaxAhead' = MaxAhead
      /\ MaxForgets - forgot' < MaxForgets - forgot
      /\ MaxForgets - forgot \in Nat /\ MaxForgets - forgot' \in Nat
  BY DEF Forgets, TransferInv, TypeOK, MaxAhead, Limit, AttemptSteps
<1>2. TransferInv' /\ (off <= Limit)' /\ (pc # "done")'
  BY <1>1 DEF Limit
<1>3. (StepsAhead \in Nat /\ MaxAhead \in Nat /\ StepsAhead <= MaxAhead)'
  BY <1>2, AheadType, PTL
<1>4. StepsAhead \in Nat
  BY <1>1, AheadType
<1>5. w \in Nat /\ StepsAhead' \in Nat /\ StepsAhead' < w + StepsAhead
  BY <1>1, <1>3, <1>4, BoundsType
<1>6. StepsLeft = (MaxForgets - forgot) * w + StepsAhead
  BY <1>1 DEF StepsLeft
<1>7. StepsLeft' = (MaxForgets - forgot') * w + StepsAhead'
  BY <1>1 DEF StepsLeft
<1> HIDE DEF w
<1> QED
  BY <1>1, <1>4, <1>5, <1>6, <1>7, UnitOutweighs, Zenon

\* reader, sendUpload, Delete and Copy: a call makes a bounded number of steps, for
\* files of any length and every budget: what forgets failures has moved the transfer
\* forward, and only storage's own loss of kept bytes moves it back.  Others who replace
\* the file do not hold it up.
THEOREM CallNearsEndHolds == Spec => CallNearsEnd /\ [](StepsLeft \in 0 .. MaxSteps)
<1>1. Init => off <= Limit
  BY DEF Init, Limit
<1>2. ASSUME TransferInv, Rival PROVE StepsLeft' = StepsLeft
  <2>1. UNCHANGED <<op, pc, again, att, off, fails, kept, forgot>>
    BY <1>2 DEF Rival
  <2> QED
    BY <2>1 DEF StepsLeft, StepsAhead, MaxAhead, AttemptsLeft, Reached, AttemptLeft, AttemptSteps, Limit
<1>3. TransferInv /\ TransferInv' /\ off <= Limit /\ (off <= Limit)' /\ [Next]_vars =>
        [/\ Call \/ Forgets => StepsLeft' < StepsLeft
         /\ Rival => StepsLeft' = StepsLeft]_vars
  <2>1. (off <= Limit)' => off' <= Limit
    BY DEF Limit
  <2> QED
    BY <1>2, <2>1, CallNearer, ForgetsNearer
<1>4. TransferInv /\ off <= Limit /\ [Next]_vars => (off <= Limit)'
  <2>1. off' <= Limit => (off <= Limit)'
    BY DEF Limit
  <2> QED
    BY <2>1, OffStep
<1> QED
  BY <1>1, <1>3, <1>4, StepsType, TransferInvariant, PTL DEF Spec, CallNearsEnd
=============================================================================
