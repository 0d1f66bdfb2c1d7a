--------------------------- MODULE ArtifactTransfer ---------------------------
(***************************************************************************)
(* One call on a file of a Computer's artifacts (internal/artifacts): a    *)
(* download that resumes, a resumable upload, a delete or a copy, against  *)
(* storage in which others replace and delete the file meanwhile.  Storage *)
(* keeps numbered generations of the file; byte i of generation g is       *)
(* <<g, i>>.  ArtifactTokens models where a request's token comes from;    *)
(* here a token is had, refused, or not had.                               *)
(***************************************************************************)
EXTENDS Integers, Sequences

CONSTANTS
    Budget,   \* wait.ReconnectBudget
    Sends,    \* transport maxAttempts
    Chunks,   \* rewrite calls a copy takes
    MaxSize, MaxGen, \* bounds: the length of a file, the generations made
    MaxForgets \* bound: how often storage forgets bytes of an upload it kept

ASSUME TransferAssumption ==
    /\ Budget \in Nat \ {0} /\ Sends \in Nat \ {0} /\ Chunks \in Nat \ {0}
    /\ MaxSize \in Nat /\ MaxGen \in Nat \ {0} /\ MaxForgets \in Nat

VARIABLES
    gen, ngen, len,    \* storage: the file's generation (0: none), those made, their lengths
    op, pc, res,       \* the call, its place and its result
    again, att,        \* withToken's second attempt; sends of the request at hand
    off, size, fails,  \* a transfer's offset, size (-1: not known), failures in a row
    pin, body, got,    \* a download's generation, the response it reads, bytes delivered
    kept, final,       \* an upload's bytes at storage, and whether the object is made
    forgot,            \* history: how often storage forgot such bytes
    named,             \* history: every response read named its generation
    ours               \* history: a send of this call deleted the file

storage == <<gen, ngen, len>>
call    == <<op, pc, res, again, att>>
moved   == <<off, size, fails>>
reader  == <<pin, body, got, named>>
session == <<kept, final, forgot>>
vars    == <<storage, call, moved, reader, session, ours>>

Ops    == {"download", "upload", "delete", "copy"}
Gens   == 1 .. MaxGen
NoBody == [gen |-> 0, upto |-> 0]

TypeOK ==
    /\ gen \in 0 .. ngen /\ ngen \in 0 .. MaxGen /\ len \in [Gens -> 0 .. MaxSize]
    /\ op \in Ops
    /\ pc \in {"token", "send", "read", "wait", "put", "ask", "done"}
    /\ res \in {"none", "ok", "err", "lost", "missing", "changed"}
    /\ again \in BOOLEAN /\ att \in 1 .. Sends
    /\ off \in Nat /\ size \in -1 .. MaxSize /\ fails \in 0 .. Budget + 1
    /\ pin \in 0 .. ngen /\ body \in [gen : 0 .. MaxGen, upto : 0 .. MaxSize]
    /\ got \in Seq(Gens \X (1 .. MaxSize))
    /\ kept \in 0 .. MaxSize /\ final \in BOOLEAN
    /\ forgot \in 0 .. MaxForgets /\ named \in BOOLEAN /\ ours \in BOOLEAN
    /\ (pc = "done" <=> res # "none") /\ (pc # "done" => fails <= Budget)

\* The call begins: an upload has opened its source, a download knows no size.
Init ==
    /\ ngen = 1 /\ gen \in {0, 1}
    /\ \E n \in 0 .. MaxSize : len = [g \in Gens |-> IF g = 1 THEN n ELSE 0]
    /\ op \in Ops /\ pc = "token" /\ res = "none" /\ again = FALSE /\ att = 1
    /\ off = 0 /\ fails = 0
    /\ size \in -1 .. MaxSize /\ (op = "upload" <=> size >= 0)
    /\ pin = 0 /\ body = NoBody /\ got = <<>>
    /\ kept = 0 /\ final = FALSE
    /\ forgot = 0 /\ named = TRUE /\ ours = FALSE

-----------------------------------------------------------------------------
Goto(label) == pc' = label /\ UNCHANGED res
Return(r)   == pc' = "done" /\ res' = r

\* Storage makes a new generation of n bytes, or removes the file (external).
Commit(n) == /\ ngen < MaxGen /\ ngen' = ngen + 1 /\ gen' = ngen + 1
             /\ len' = [len EXCEPT ![ngen + 1] = n]
Remove    == gen # 0 /\ gen' = 0 /\ UNCHANGED <<ngen, len>>

\* Others write and delete the file.
Rival ==
    /\ pc # "done"
    /\ (\E n \in 0 .. MaxSize : Commit(n)) \/ Remove
    /\ UNCHANGED <<call, moved, reader, session, ours>>

\* Storage has fewer of an upload's bytes than it reported.
Forgets ==
    /\ pc # "done" /\ op = "upload" /\ ~final /\ forgot < MaxForgets
    /\ \E n \in 0 .. MaxSize : n < kept /\ kept' = n
    /\ forgot' = forgot + 1
    /\ UNCHANGED <<storage, call, moved, reader, final, ours>>

\* resumable: one more failure in a row, and past the budget the transfer is given up.
Retry ==
    /\ fails' = fails + 1
    /\ \/ fails + 1 > Budget /\ Return("lost")
       \/ fails + 1 <= Budget /\ Goto("wait")

\* The backoff ends with a new attempt, or with the caller's context.
Wait ==
    /\ pc = "wait" /\ again' = FALSE
    /\ Goto(IF op = "download" THEN "token" ELSE "ask") \/ Return("err")
    /\ UNCHANGED <<storage, op, att, moved, reader, session, ours>>

-----------------------------------------------------------------------------
\* withToken.

Token ==
    /\ pc = "token" /\ Goto("send") /\ att' = 1
    /\ UNCHANGED <<storage, op, again, moved, reader, session, ours>>

\* No token: the Computer is over its limit, or the mint fails; a download resumes
\* from a transport fault or a busy Portal.
TokenFails ==
    /\ pc = "token"
    /\ (op = "download" /\ Retry) \/ (Return("err") /\ UNCHANGED fails)
    /\ UNCHANGED <<storage, op, again, att, off, size, reader, session, ours>>

\* 401: the request runs once more with a fresh token, or the refusal is reported.
SendRejected ==
    /\ pc = "send"
    /\ \/ ~again /\ again' = TRUE /\ Goto("token")
       \/ again /\ Return("err") /\ UNCHANGED again
    /\ UNCHANGED <<storage, op, att, moved, reader, session, ours>>

\* Any other refusal, and an answer that cannot be used.
SendRefused ==
    /\ pc = "send" /\ Return("err")
    /\ UNCHANGED <<storage, op, again, att, moved, reader, session, ours>>

\* DoRaw sends again after a fault or an answer retryableStatus takes, within its
\* attempts.
Resend == \/ att < Sends /\ att' = att + 1 /\ UNCHANGED <<pc, res>>
          \/ Return("err") /\ UNCHANGED att

-----------------------------------------------------------------------------
\* reader: open, Read, connect.

Opening == pc = "send" /\ op = "download"

\* A resumed read names the generation it began with.
Pinned == off > 0 /\ pin # 0

\* The headers of a 200: its length, and its generation if none is pinned yet; either
\* may be missing.
Headers == /\ size' \in {size, len[gen]}
           /\ pin' \in IF pin = 0 THEN {0, gen} ELSE {pin}

\* 200: the whole file, of which what was read is skipped.
OpenWhole ==
    /\ Opening /\ gen # 0 /\ (Pinned => pin = gen) /\ off <= len[gen]
    /\ Goto("read")
    /\ Headers
    /\ body' = [gen |-> gen, upto |-> len[gen]]
    /\ named' = (named /\ pin' # 0)
    /\ UNCHANGED <<storage, op, again, att, off, fails, got, session, ours>>

\* 206: the bytes from the offset, perhaps fewer than all if the total is given; storage
\* is taken to send all of them where it gives none.
OpenRange ==
    /\ Opening /\ gen # 0 /\ (Pinned => pin = gen) /\ 0 < off /\ off < len[gen]
    /\ Goto("read")
    /\ \/ /\ size' = len[gen]
          /\ \E n \in off + 1 .. len[gen] : body' = [gen |-> gen, upto |-> n]
       \/ UNCHANGED size /\ body' = [gen |-> gen, upto |-> len[gen]]
    /\ UNCHANGED <<storage, op, again, att, off, fails, pin, got, named, session, ours>>

\* 404, and 412 for a generation that is no longer there.
OpenGone ==
    /\ Opening
    /\ \/ gen = 0 /\ Return("missing")
       \/ gen # 0 /\ Pinned /\ pin # gen /\ Return("changed")
    /\ UNCHANGED <<storage, op, again, att, moved, reader, session, ours>>

\* A fault, a busy answer, or a connection that ends while bytes are skipped (that
\* response's headers are noted all the same).
OpenFault ==
    /\ Opening /\ Retry
    /\ \/ UNCHANGED <<size, pin>>
       \/ gen # 0 /\ off > 0 /\ (Pinned => pin = gen) /\ Headers
    /\ UNCHANGED <<storage, op, again, att, off, body, got, named, session, ours>>

\* Mutant: bytes that arrive together with a fault are delivered and not counted.
ReadBytesUncounted ==
    /\ pc = "read" /\ off < body.upto
    /\ off' \in {off, off + 1} /\ fails' = 0 /\ got' = Append(got, <<body.gen, off + 1>>)
    /\ UNCHANGED <<storage, call, size, pin, body, named, session, ours>>

\* Read: bytes are delivered and the failures forgotten.
ReadBytes ==
    /\ pc = "read" /\ off < body.upto
    /\ off' = off + 1 /\ fails' = 0 /\ got' = Append(got, <<body.gen, off + 1>>)
    /\ UNCHANGED <<storage, call, size, pin, body, named, session, ours>>

\* Mutant: the end of any response is the end of the file.
ReadEOFAny ==
    /\ pc = "read" /\ off >= body.upto /\ Return("ok")
    /\ UNCHANGED <<storage, op, again, att, moved, reader, session, ours>>

\* The response ends: the file's end if its size is reached or not known.
ReadEOF ==
    /\ pc = "read" /\ off >= body.upto
    /\ \/ (size < 0 \/ off >= size) /\ Return("ok") /\ UNCHANGED <<fails, body>>
       \/ size >= 0 /\ off < size /\ Retry /\ body' = NoBody
    /\ UNCHANGED <<storage, op, again, att, off, size, pin, got, named, session, ours>>

\* The connection drops at any byte: the next Read reopens, unless the caller's
\* context has ended or the consumer closes.
ReadFault ==
    /\ pc = "read" /\ body' = NoBody
    /\ Retry \/ (Return("err") /\ UNCHANGED fails)
    /\ UNCHANGED <<storage, op, again, att, off, size, pin, got, named, session, ours>>

-----------------------------------------------------------------------------
\* Upload: startUpload, then sendUpload over the session.

StartUpload ==
    /\ pc = "send" /\ op = "upload"
    /\ (Goto("put") /\ UNCHANGED att) \/ Resend
    /\ UNCHANGED <<storage, op, again, moved, reader, session, ours>>

\* What a PUT leaves at storage (external): more of the bytes unless they begin past
\* what it has, and with all of them the object.
Stored ==
    /\ kept' \in kept .. (IF off <= kept THEN size ELSE kept)
    /\ \/ UNCHANGED <<storage, final>>
       \/ kept' = size /\ ~final /\ final' = TRUE /\ Commit(size)
    /\ UNCHANGED <<forgot, ours>>

\* putBytes: answered with the object, or with what was kept.
PutAnswered ==
    /\ pc = "put" /\ Stored
    /\ \/ final' /\ Return("ok") /\ UNCHANGED <<off, fails>>
       \/ ~final' /\ kept' > off /\ off' = kept' /\ fails' = 0 /\ UNCHANGED <<pc, res>>
       \/ ~final' /\ kept' <= off /\ Retry /\ UNCHANGED off
    /\ UNCHANGED <<op, again, att, size, reader>>

\* Mutant: after a fault the rest is sent from where this side had got to.
PutFaultBlind ==
    /\ pc = "put" /\ Stored /\ off' = size
    /\ Retry \/ (Return("err") /\ UNCHANGED fails)
    /\ UNCHANGED <<op, again, att, size, reader>>

\* A fault, a stall or a busy answer, with any effect; or a refusal.
PutFault ==
    /\ pc = "put" /\ Stored
    /\ Retry \/ (Return("err") /\ UNCHANGED fails)
    /\ UNCHANGED <<op, again, att, off, size, reader>>

\* Mutant: what storage kept counts as progress each time it is asked.
AskAnsweredResets ==
    /\ pc = "ask"
    /\ \/ final /\ Return("ok") /\ UNCHANGED <<off, fails>>
       \/ ~final /\ Goto("put") /\ off' = kept /\ fails' = 0
    /\ UNCHANGED <<storage, op, again, att, size, reader, session, ours>>

\* After a failure storage is asked what it kept, and the rest is sent from there.
AskAnswered ==
    /\ pc = "ask"
    /\ \/ final /\ Return("ok") /\ UNCHANGED <<off, fails>>
       \/ ~final /\ Goto("put") /\ off' = kept /\ fails' = IF kept > off THEN 0 ELSE fails
    /\ UNCHANGED <<storage, op, again, att, size, reader, session, ours>>

AskFault ==
    /\ pc = "ask"
    /\ Retry \/ (Return("err") /\ UNCHANGED fails)
    /\ UNCHANGED <<storage, op, again, att, off, size, reader, session, ours>>

-----------------------------------------------------------------------------
\* Delete and Copy.

\* Mutant: every 404 is reported.
DeletedNever == FALSE

\* A 404 that answers a resend is a success: an earlier send is taken to have deleted
\* the file, also one that storage refused with a 503 or that never arrived.
Deleted == att > 1

Delete ==
    /\ pc = "send" /\ op = "delete"
    /\ \/ /\ Remove /\ ours' = TRUE
          /\ (Return("ok") /\ UNCHANGED att) \/ Resend
       \/ /\ gen = 0 /\ Return(IF Deleted THEN "ok" ELSE "missing")
          /\ UNCHANGED <<storage, ours, att>>
       \/ Resend /\ UNCHANGED <<storage, ours>>
    /\ UNCHANGED <<op, again, moved, reader, session>>

\* One rewrite call; the next has a token of its own and carries the rewriteToken.
CopyStep ==
    /\ pc = "send" /\ op = "copy" /\ off + 1 < Chunks
    /\ \/ off' = off + 1 /\ Goto("token") /\ again' = FALSE /\ UNCHANGED att
       \/ Resend /\ UNCHANGED <<off, again>>
    /\ UNCHANGED <<storage, op, size, fails, reader, session, ours>>

\* The last one makes the copy; a missing source ends any of them.
CopyLast ==
    /\ pc = "send" /\ op = "copy"
    /\ \/ /\ off + 1 = Chunks /\ \E n \in 0 .. MaxSize : Commit(n)
          /\ (Return("ok") /\ UNCHANGED att) \/ Resend
       \/ off + 1 = Chunks /\ Resend /\ UNCHANGED storage
       \/ Return("missing") /\ UNCHANGED <<storage, att>>
    /\ UNCHANGED <<op, again, moved, reader, session, ours>>

-----------------------------------------------------------------------------
WithToken == Token \/ TokenFails \/ SendRejected \/ SendRefused
Download  == OpenWhole \/ OpenRange \/ OpenGone \/ OpenFault \/ ReadBytes \/ ReadEOF \/ ReadFault
Upload    == StartUpload \/ PutAnswered \/ PutFault \/ AskAnswered \/ AskFault
Call      == WithToken \/ Wait \/ Download \/ Upload \/ Delete \/ CopyStep \/ CopyLast

Next == Call \/ Rival \/ Forgets

\* A call keeps running: requests are answered or fail, backoffs elapse.
Spec == Init /\ [][Next]_vars /\ WF_vars(Call)

-----------------------------------------------------------------------------
\* Properties.

\* What a reader has delivered has neither gap nor repetition, and is at every moment
\* a beginning of one single generation if the responses named theirs, however often
\* connections drop and the file is replaced meanwhile.
OneGeneration ==
    \A i \in 1 .. Len(got) : got[i][2] = i /\ (named => got[i][1] = got[1][1])

\* A download that succeeds has then delivered all of that generation: a response that
\* ends early, and the length of a generation replaced before its first byte was
\* read, are not taken for the end of the file.
WholeFile ==
    op = "download" /\ res = "ok" /\ named =>
        /\ Len(got) = len[body.gen]
        /\ got # <<>> => got[1][1] = body.gen

\* An upload never sends bytes past what storage keeps, so its object has no hole (while
\* storage forgets nothing it reported), and it succeeds only once storage has made the
\* object of all of them.
NoGap ==
    op = "upload" => /\ forgot = 0 => off <= kept
                     /\ res = "ok" => final /\ kept = size

\* A delete that reports the file missing did not delete it itself, whichever of its
\* sends were lost, unless a 401 came in between: withToken then runs the request
\* again, and the resend counts as a first one.
OwnDeleteCounts == op = "delete" /\ res = "missing" /\ ours => again

\* The call ends: failures in a row are bounded by the budget, and whatever resets
\* them has moved the transfer forward, as long as storage forgets kept bytes only so
\* often (MaxForgets).
CallEnds == <>(pc = "done")
=============================================================================
