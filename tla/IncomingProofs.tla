---------------------------- MODULE IncomingProofs ----------------------------
(***************************************************************************)
(* Theorems about the upload of messages, for any messages, parts, faults  *)
(* and crashes.                                                            *)
(***************************************************************************)
EXTENDS IncomingProperties, TLAPS

USE IncomingAssumption

\* Every part was answered as stored; no part was answered as failed.
Stored(m)   == \A p \in Parts : reply[m][p] = "ok"
Unfailed(m) == \A p \in Parts : reply[m][p] # "failed"

\* A part that was answered as stored has no handler any more.
HandlersInv(m) ==
  \A p \in Parts :
    /\ reply[m][p] = "ok" => put[m][p].pc = "end"
    /\ client[m] = "ticket" => put[m][p].pc = "none"

\* Until a part has failed, what was stored is there and what is being written
\* is written there; what was moved is complete.
FilesInv(m) ==
  /\ Unfailed(m) => \A p \in Parts :
       /\ put[m][p].pc = "copy" => put[m][p].home = "incoming" /\ incoming[m].there
       /\ reply[m][p] = "ok" /\ ~queued[m].there =>
            incoming[m].there /\ incoming[m].files[p] = "full"
  /\ queued[m].there => Complete(queued[m]) /\ ~incoming[m].there

\* Only an upload whose parts are all stored is completed, moved or accepted;
\* only one with a part that failed is deleted; each has all its answers.
PhaseInv(m) ==
  /\ \/ final[m] \in {"complete", "queue", "taken"} \/ m \in loop
     \/ client[m] \in {"completing", "accepted"} \/ queued[m].there
     => Stored(m)
  /\ final[m] \in {"delete", "unlink", "rmdir", "forget"} => ~Unfailed(m)
  /\ final[m] # "none" \/ m \in deleted => \A p \in Parts : reply[m][p] # "none"

MsgInv(m) == HandlersInv(m) /\ FilesInv(m) /\ PhaseInv(m)

\* The inductive invariant.
Inv == TypeOK /\ \A m \in Msgs : MsgInv(m)

-----------------------------------------------------------------------------
LEMMA Types ==
  /\ NoDir \in Dir /\ NoPut \in PutState
  /\ \A pc \in {"check", "mkdir", "create", "end"} : [pc |-> pc, home |-> "gone"] \in PutState
  /\ \A home \in {"incoming", "processing", "gone"} : [pc |-> "copy", home |-> home] \in PutState
  /\ \A h \in PutState : h.pc \in {"none", "check", "mkdir", "create", "end", "copy"}
  BY DEF NoDir, Dir, NoPut, PutState

LEMMA InitInv == Init => Inv
<1> SUFFICES ASSUME Init PROVE Inv
  OBVIOUS
<1>1. TypeOK
  BY Types DEF Init, TypeOK, ClientState, FinalState
<1>2. ASSUME NEW m \in Msgs PROVE MsgInv(m)
  <2>1. \A p \in Parts : reply[m][p] = "none" /\ put[m][p].pc = "none"
    BY DEF Init, NoPut
  <2>2. ~queued[m].there
    BY DEF Init, NoDir
  <2> QED BY <2>1, <2>2 DEF Init, MsgInv, HandlersInv, FilesInv, PhaseInv
<1> QED BY <1>1, <1>2 DEF Inv

\* A step that is not about message n.
Untouched(n) ==
  /\ incoming'[n] = incoming[n] /\ queued'[n] = queued[n] /\ put'[n] = put[n]
  /\ reply'[n] = reply[n] /\ client'[n] = client[n] /\ final'[n] = final[n]
  /\ (n \in loop' => n \in loop) /\ (n \in deleted' => n \in deleted)

LEMMA OthersKeep ==
  ASSUME NEW n, MsgInv(n), Untouched(n)
  PROVE  MsgInv(n)'
  BY DEF MsgInv, HandlersInv, FilesInv, PhaseInv, Stored, Unfailed, Complete, Untouched

-----------------------------------------------------------------------------
(***************************************************************************)
(* The client.                                                             *)
(***************************************************************************)
LEMMA GetTicketKeeps ==
  ASSUME Inv, NEW m \in Msgs, GetTicket(m)
  PROVE  Inv'
<1>1. TypeOK'
  <2>1. put' \in [Msgs -> [Parts -> PutState]]
    <3>1. [p \in Parts |-> [pc |-> "check", home |-> "gone"]] \in [Parts -> PutState]
      BY Types
    <3>2. put' = put \/ put' = [put EXCEPT ![m] = [p \in Parts |-> [pc |-> "check", home |-> "gone"]]]
      BY DEF GetTicket
    <3> QED BY <3>1, <3>2 DEF Inv, TypeOK
  <2>2. client' \in [Msgs -> ClientState] /\ ticket' \in [Msgs -> {"none", "valid"}]
    BY DEF Inv, TypeOK, GetTicket, ClientState
  <2> QED BY <2>1, <2>2 DEF Inv, TypeOK, GetTicket, dirs
<1>2. ASSUME NEW n \in Msgs \ {m} PROVE MsgInv(n)'
  BY <1>2, OthersKeep DEF Inv, TypeOK, GetTicket, dirs, Untouched
<1>3. MsgInv(m)'
  <2>1. /\ UNCHANGED <<dirs, reply, final, loop, deleted>>
        /\ client'[m] \in {"uploading", "failed"}
        /\ \A p \in Parts : put'[m][p].pc \in {"none", "check"}
        /\ \A p \in Parts : put[m][p].pc = "none"
    BY DEF GetTicket, Inv, TypeOK, MsgInv, HandlersInv
  <2>2. \A p \in Parts : reply[m][p] # "ok"
    BY <2>1 DEF Inv, MsgInv, HandlersInv
  <2> QED BY <2>1, <2>2 DEF Inv, MsgInv, HandlersInv, FilesInv, PhaseInv, Stored, Unfailed, Complete, dirs
<1> QED BY <1>1, <1>2, <1>3 DEF Inv

LEMMA UploadsReturnKeeps ==
  ASSUME Inv, NEW m \in Msgs, UploadsReturn(m)
  PROVE  Inv'
<1>1. TypeOK'
  BY DEF Inv, TypeOK, UploadsReturn, dirs, ClientState, FinalState
<1>2. ASSUME NEW n \in Msgs \ {m} PROVE MsgInv(n)'
  BY <1>2, OthersKeep DEF Inv, TypeOK, UploadsReturn, dirs, Untouched
<1>3. MsgInv(m)'
  <2>1. /\ UNCHANGED <<dirs, put, reply, loop, deleted>>
        /\ \A p \in Parts : reply[m][p] # "none"
        /\ \/ Stored(m) /\ client'[m] = "completing" /\ final'[m] = "complete"
           \/ ~Unfailed(m) /\ client'[m] = "deleting" /\ final'[m] = "delete"
    BY DEF UploadsReturn, Inv, TypeOK, Stored, Unfailed
  <2> QED BY <2>1 DEF Inv, MsgInv, HandlersInv, FilesInv, PhaseInv, Stored, Unfailed, Complete, dirs
<1> QED BY <1>1, <1>2, <1>3 DEF Inv

LEMMA TimeoutKeeps ==
  ASSUME Inv, NEW m \in Msgs, FinalTimeout(m) \/ Expire(m) \/ \E p \in Parts : UploadTimeout(m, p)
  PROVE  Inv'
<1>1. CASE FinalTimeout(m) \/ Expire(m)
  <2>1. TypeOK'
    BY <1>1 DEF Inv, TypeOK, FinalTimeout, Expire, dirs, ClientState
  <2>2. /\ UNCHANGED <<dirs, put, reply, final, loop, deleted>>
        /\ client' = client \/ client' = [client EXCEPT ![m] = "failed"]
    BY <1>1 DEF FinalTimeout, Expire
  <2>3. ASSUME NEW n \in Msgs PROVE MsgInv(n)'
    BY <2>2 DEF Inv, TypeOK, MsgInv, HandlersInv, FilesInv, PhaseInv, Stored, Unfailed, Complete, dirs
  <2> QED BY <2>1, <2>3 DEF Inv
<1>2. ASSUME NEW p \in Parts, UploadTimeout(m, p) PROVE Inv'
  <2>1. TypeOK'
    BY <1>2 DEF Inv, TypeOK, UploadTimeout, dirs
  <2>2. ASSUME NEW n \in Msgs \ {m} PROVE MsgInv(n)'
    BY <1>2, <2>2, OthersKeep DEF Inv, TypeOK, UploadTimeout, dirs, Untouched
  <2>3. MsgInv(m)'
    <3>1. /\ UNCHANGED <<dirs, put, client, final, loop, deleted>>
          /\ reply[m][p] = "none" /\ reply'[m][p] = "failed"
          /\ \A q \in Parts \ {p} : reply'[m][q] = reply[m][q]
      BY <1>2 DEF UploadTimeout, Inv, TypeOK
    <3> QED BY <3>1 DEF Inv, MsgInv, HandlersInv, FilesInv, PhaseInv, Stored, Unfailed, Complete, dirs
  <2> QED BY <2>1, <2>2, <2>3 DEF Inv
<1> QED BY <1>1, <1>2

-----------------------------------------------------------------------------
(***************************************************************************)
(* The handlers of the parts.                                              *)
(***************************************************************************)
LEMMA PutType ==
  ASSUME TypeOK, NEW m \in Msgs, NEW p \in Parts
  PROVE  /\ \A pc \in {"check", "mkdir", "create", "end"} :
              PutGoto(m, p, pc) => put' \in [Msgs -> [Parts -> PutState]]
         /\ \A r \in {"ok", "failed"} : PutEnd(m, p, r) =>
              /\ put' \in [Msgs -> [Parts -> PutState]]
              /\ reply' \in [Msgs -> [Parts -> {"none", "ok", "failed"}]]
         /\ \A f \in {"none", "torn", "full"} :
              /\ [incoming EXCEPT ![m].files[p] = f] \in [Msgs -> Dir]
              /\ [queued EXCEPT ![m].files[p] = f] \in [Msgs -> Dir]
<1>1. ASSUME NEW pc \in {"check", "mkdir", "create", "end"}, PutGoto(m, p, pc)
      PROVE  put' \in [Msgs -> [Parts -> PutState]]
  BY <1>1, Types DEF PutGoto, TypeOK
<1>2. ASSUME NEW r \in {"ok", "failed"}, PutEnd(m, p, r)
      PROVE  /\ put' \in [Msgs -> [Parts -> PutState]]
             /\ reply' \in [Msgs -> [Parts -> {"none", "ok", "failed"}]]
  BY <1>1, <1>2 DEF PutEnd, TypeOK
<1>3. \A f \in {"none", "torn", "full"} :
        /\ [incoming EXCEPT ![m].files[p] = f] \in [Msgs -> Dir]
        /\ [queued EXCEPT ![m].files[p] = f] \in [Msgs -> Dir]
  <2>1. ASSUME NEW d \in Dir, NEW f \in {"none", "torn", "full"}
        PROVE  [d EXCEPT !.files[p] = f] \in Dir
    BY DEF Dir
  <2> QED BY <2>1 DEF TypeOK
<1> QED BY <1>1, <1>2, <1>3

\* What a handler that moves on or ends leaves: all other handlers and answers,
\* and an answer that was given already.
PutStep(m, p) ==
  /\ UNCHANGED <<client, final, loop, deleted>>
  /\ put[m][p].pc \notin {"none", "end"} /\ put'[m][p].pc # "none"
  /\ \A q \in Parts \ {p} : put'[m][q] = put[m][q] /\ reply'[m][q] = reply[m][q]
  /\ \A n \in Msgs \ {m} : put'[n] = put[n] /\ reply'[n] = reply[n]
  /\ reply[m][p] # "none" => reply'[m][p] = reply[m][p]
  /\ reply'[m][p] = "ok" => put'[m][p].pc = "end"

LEMMA PutSteps ==
  ASSUME Inv, NEW m \in Msgs, NEW p \in Parts,
         PutCheck(m, p) \/ PutMkdir(m, p) \/ PutCreate(m, p) \/ PutCopy(m, p)
  PROVE  PutStep(m, p)
<1>1. reply[m][p] # "ok" /\ put[m][p].pc \in {"check", "mkdir", "create", "copy"}
  BY DEF Inv, MsgInv, HandlersInv, PutCheck, PutMkdir, PutCreate, PutCopy
<1>2. UNCHANGED <<client, final, loop, deleted>>
  BY DEF PutCheck, PutMkdir, PutCreate, PutCopy
<1>3. ASSUME NEW pc \in {"mkdir", "create"}, PutGoto(m, p, pc), UNCHANGED reply PROVE PutStep(m, p)
  BY <1>1, <1>2, <1>3 DEF PutGoto, PutStep, Inv, TypeOK
<1>4. ASSUME NEW r \in {"ok", "failed"}, PutEnd(m, p, r) PROVE PutStep(m, p)
  BY <1>1, <1>2, <1>4 DEF PutEnd, PutGoto, PutStep, Inv, TypeOK
<1>5. CASE put' = [put EXCEPT ![m][p] = [pc |-> "copy", home |-> "incoming"]] /\ UNCHANGED reply
  BY <1>1, <1>2, <1>5 DEF PutStep, Inv, TypeOK
<1> QED BY <1>3, <1>4, <1>5 DEF PutCheck, PutMkdir, PutCreate, PutCopy

\* A handler is at work only while its upload is incomplete.
LEMMA WorkingIsEarly ==
  ASSUME NEW m, MsgInv(m), NEW p \in Parts, put[m][p].pc \notin {"none", "end"}
  PROVE  /\ ~Stored(m) /\ ~queued[m].there /\ reply[m][p] # "ok"
         /\ final[m] \notin {"complete", "queue", "taken"} /\ m \notin loop
         /\ client[m] \notin {"ticket", "completing", "accepted"}
  BY DEF MsgInv, HandlersInv, PhaseInv, Stored

\* What remains to be seen to of a handler's step: the files.
LEMMA PutKeeps ==
  ASSUME Inv, NEW m \in Msgs, NEW p \in Parts, PutStep(m, p),
         \A n \in Msgs \ {m} : incoming'[n] = incoming[n] /\ queued'[n] = queued[n],
         queued'[m] = queued[m],
         Unfailed(m) /\ incoming[m].there => incoming'[m].there,
         Unfailed(m)' => \A q \in Parts \ {p} :
           incoming[m].files[q] = "full" => incoming'[m].files[q] = "full",
         Unfailed(m)' /\ put'[m][p].pc = "copy" => put'[m][p].home = "incoming" /\ incoming'[m].there,
         Unfailed(m)' /\ reply'[m][p] = "ok" => incoming'[m].there /\ incoming'[m].files[p] = "full"
  PROVE  \A n \in Msgs : MsgInv(n)'
<1>1. ASSUME NEW n \in Msgs \ {m} PROVE MsgInv(n)'
  BY <1>1, OthersKeep DEF Inv, PutStep, Untouched
<1>2. MsgInv(m) /\ put[m][p].pc \notin {"none", "end"}
  BY DEF Inv, PutStep
<1>3. /\ ~Stored(m) /\ ~queued[m].there /\ reply[m][p] # "ok"
      /\ final[m] \notin {"complete", "queue", "taken"} /\ m \notin loop
      /\ client[m] \notin {"ticket", "completing", "accepted"}
  BY <1>2, WorkingIsEarly
<1>4. HandlersInv(m)'
  BY <1>2, <1>3 DEF PutStep, MsgInv, HandlersInv
<1>5. Unfailed(m)' => Unfailed(m)
  BY DEF PutStep, Unfailed
<1>6. FilesInv(m)'
  BY <1>2, <1>3, <1>5 DEF PutStep, MsgInv, FilesInv, Unfailed
<1>7. PhaseInv(m)'
  BY <1>2, <1>3, <1>5 DEF PutStep, MsgInv, PhaseInv
<1> QED BY <1>1, <1>4, <1>6, <1>7 DEF MsgInv

LEMMA PutCheckKeeps ==
  ASSUME Inv, NEW m \in Msgs, NEW p \in Parts, PutCheck(m, p)
  PROVE  Inv'
<1>1. TypeOK'
  BY PutType DEF PutCheck, Inv, TypeOK, dirs
<1>2. PutStep(m, p)
  BY PutSteps
<1>3. UNCHANGED dirs /\ put'[m][p].pc # "copy" /\ reply'[m][p] # "ok"
  <2>1. reply[m][p] # "ok"
    BY WorkingIsEarly DEF Inv, PutCheck
  <2> QED BY <2>1 DEF PutCheck, PutGoto, PutEnd, Inv, TypeOK
<1> QED BY <1>1, <1>2, <1>3, PutKeeps DEF Inv, dirs

LEMMA PutMkdirKeeps ==
  ASSUME Inv, NEW m \in Msgs, NEW p \in Parts, PutMkdir(m, p)
  PROVE  Inv'
<1>1. incoming' = incoming \/ incoming' = [incoming EXCEPT ![m].there = TRUE]
  BY DEF PutMkdir
<1>2. TypeOK'
  <2>1. incoming' \in [Msgs -> Dir]
    <3>1. \A d \in Dir : [d EXCEPT !.there = TRUE] \in Dir
      BY DEF Dir
    <3>2. [incoming EXCEPT ![m].there = TRUE] \in [Msgs -> Dir] /\ incoming \in [Msgs -> Dir]
      BY <3>1 DEF Inv, TypeOK
    <3> QED BY <1>1, <3>2
  <2> QED BY <2>1, PutType DEF PutMkdir, Inv, TypeOK
<1>3. PutStep(m, p)
  BY PutSteps
<1>4. UNCHANGED queued /\ put'[m][p].pc # "copy" /\ reply'[m][p] # "ok"
  <2>1. reply[m][p] # "ok"
    BY WorkingIsEarly DEF Inv, PutMkdir
  <2> QED BY <2>1 DEF PutMkdir, PutGoto, PutEnd, Inv, TypeOK
<1>5. /\ \A n \in Msgs \ {m} : incoming'[n] = incoming[n]
      /\ incoming[m].there => incoming'[m].there
      /\ incoming'[m].files = incoming[m].files
  BY <1>1 DEF Inv, TypeOK, Dir
<1>6. \A n \in Msgs : MsgInv(n)'
  BY <1>3, <1>4, <1>5, PutKeeps
<1> QED BY <1>2, <1>6 DEF Inv

LEMMA PutCreateKeeps ==
  ASSUME Inv, NEW m \in Msgs, NEW p \in Parts, PutCreate(m, p)
  PROVE  Inv'
<1>1. PutStep(m, p)
  BY PutSteps
<1>2. UNCHANGED queued /\ reply[m][p] # "ok"
  BY WorkingIsEarly DEF Inv, PutCreate
<1>3. CASE /\ incoming[m].there
           /\ incoming' = [incoming EXCEPT ![m].files[p] = "torn"]
           /\ put' = [put EXCEPT ![m][p] = [pc |-> "copy", home |-> "incoming"]]
           /\ UNCHANGED reply
  <2>1. TypeOK'
    <3>1. incoming' \in [Msgs -> Dir]
      BY <1>3, PutType DEF Inv
    <3>2. put' \in [Msgs -> [Parts -> PutState]]
      BY <1>3, Types DEF Inv, TypeOK
    <3> QED BY <1>3, <3>1, <3>2 DEF PutCreate, Inv, TypeOK
  <2>2. /\ \A n \in Msgs \ {m} : incoming'[n] = incoming[n]
        /\ incoming'[m].there
        /\ \A q \in Parts \ {p} : incoming'[m].files[q] = incoming[m].files[q]
        /\ put'[m][p].home = "incoming"
    BY <1>3 DEF Inv, TypeOK, Dir
  <2>3. \A n \in Msgs : MsgInv(n)'
    BY <1>1, <1>2, <1>3, <2>2, PutKeeps
  <2> QED BY <2>1, <2>3 DEF Inv
<1>4. CASE PutEnd(m, p, "failed") /\ UNCHANGED incoming
  <2>1. TypeOK'
    BY <1>4, PutType DEF PutCreate, Inv, TypeOK
  <2>2. put'[m][p].pc = "end" /\ reply'[m][p] # "ok"
    BY <1>2, <1>4 DEF PutEnd, PutGoto, Inv, TypeOK
  <2>3. \A n \in Msgs : MsgInv(n)'
    BY <1>1, <1>2, <1>4, <2>2, PutKeeps
  <2> QED BY <2>1, <2>3 DEF Inv
<1> QED BY <1>3, <1>4 DEF PutCreate

LEMMA PutCopyKeeps ==
  ASSUME Inv, NEW m \in Msgs, NEW p \in Parts, PutCopy(m, p)
  PROVE  Inv'
<1>1. PutStep(m, p)
  BY PutSteps
<1>2. reply[m][p] # "ok" /\ put[m][p].pc = "copy" /\ MsgInv(m)
  BY WorkingIsEarly DEF Inv, PutCopy
<1>3. CASE /\ PutEnd(m, p, "ok")
           /\ incoming' = IF put[m][p].home = "incoming"
                          THEN [incoming EXCEPT ![m].files[p] = "full"] ELSE incoming
           /\ queued' = IF put[m][p].home = "processing"
                        THEN [queued EXCEPT ![m].files[p] = "full"] ELSE queued
  <2>1. TypeOK'
    <3>1. incoming' \in [Msgs -> Dir] /\ queued' \in [Msgs -> Dir]
      BY <1>3, PutType DEF Inv, TypeOK
    <3>2. /\ put' \in [Msgs -> [Parts -> PutState]]
          /\ reply' \in [Msgs -> [Parts -> {"none", "ok", "failed"}]]
      BY <1>3, PutType DEF Inv
    <3> QED BY <3>1, <3>2 DEF PutCopy, Inv, TypeOK
  <2>2. put'[m][p].pc = "end"
    BY <1>3 DEF PutEnd, PutGoto, Inv, TypeOK
  <2>3. CASE Unfailed(m)
    <3>1. put[m][p].home = "incoming" /\ incoming[m].there
      BY <1>2, <2>3 DEF MsgInv, FilesInv
    <3>2. incoming' = [incoming EXCEPT ![m].files[p] = "full"] /\ queued' = queued
      BY <1>3, <3>1
    <3>3. /\ \A n \in Msgs \ {m} : incoming'[n] = incoming[n]
          /\ incoming'[m].there /\ incoming'[m].files[p] = "full"
          /\ \A q \in Parts \ {p} : incoming'[m].files[q] = incoming[m].files[q]
      BY <3>1, <3>2 DEF Inv, TypeOK, Dir
    <3>4. \A n \in Msgs : MsgInv(n)'
      BY <1>1, <2>2, <3>2, <3>3, PutKeeps
    <3> QED BY <2>1, <3>4 DEF Inv
  <2>4. CASE ~Unfailed(m)
    <3>1. ~Unfailed(m)'
      BY <1>1, <2>4 DEF PutStep, Unfailed
    <3>2. \A n \in Msgs \ {m} : incoming'[n] = incoming[n] /\ queued'[n] = queued[n]
      BY <1>3 DEF Inv, TypeOK
    <3>3. ~queued[m].there /\ queued'[m].there = queued[m].there
      <4>1. ~queued[m].there
        BY <1>2, WorkingIsEarly
      <4>2. [queued EXCEPT ![m].files[p] = "full"][m].there = queued[m].there
        BY DEF Inv, TypeOK, Dir
      <4> QED BY <1>3, <4>1, <4>2
    <3>4. ASSUME NEW n \in Msgs \ {m} PROVE MsgInv(n)'
      BY <1>1, <3>2, <3>4, OthersKeep DEF Inv, PutStep, Untouched
    <3>5. HandlersInv(m)'
      BY <1>1, <1>2 DEF PutStep, MsgInv, HandlersInv
    <3>6. FilesInv(m)' /\ PhaseInv(m)'
      BY <1>1, <1>2, <2>4, <3>1, <3>3, WorkingIsEarly DEF PutStep, MsgInv, FilesInv, PhaseInv
    <3> QED BY <2>1, <3>4, <3>5, <3>6 DEF Inv, MsgInv
  <2> QED BY <2>3, <2>4
<1>4. CASE /\ PutEnd(m, p, "failed")
           /\ incoming' = [incoming EXCEPT ![m].files[p] = "none"]
           /\ UNCHANGED queued
  <2>1. TypeOK'
    <3>1. incoming' \in [Msgs -> Dir]
      BY <1>4, PutType DEF Inv, TypeOK
    <3> QED BY <1>4, <3>1, PutType DEF PutCopy, Inv, TypeOK
  <2>2. put'[m][p].pc = "end" /\ reply'[m][p] # "ok"
    BY <1>2, <1>4 DEF PutEnd, PutGoto, Inv, TypeOK
  <2>3. /\ \A n \in Msgs \ {m} : incoming'[n] = incoming[n]
        /\ incoming'[m].there = incoming[m].there
        /\ \A q \in Parts \ {p} : incoming'[m].files[q] = incoming[m].files[q]
    BY <1>4 DEF Inv, TypeOK, Dir
  <2>4. \A n \in Msgs : MsgInv(n)'
    BY <1>1, <1>4, <2>2, <2>3, PutKeeps
  <2> QED BY <2>1, <2>4 DEF Inv
<1> QED BY <1>3, <1>4 DEF PutCopy

-----------------------------------------------------------------------------
(***************************************************************************)
(* Completion and deletion, the main loop, and a crash.                    *)
(***************************************************************************)
LEMMA RemoveTicketType ==
  ASSUME TypeOK, NEW m \in Msgs, RemoveTicket(m)
  PROVE  ticket' \in [Msgs -> {"none", "valid"}]
  BY DEF TypeOK, RemoveTicket

\* A final handler of m that goes on with pc or tells its client c.
LEMMA FinalKeeps ==
  ASSUME Inv, NEW m \in Msgs, NEW pc \in FinalState \ {"none"}, NEW c \in {"accepted", "failed"},
         FinalGoto(m, pc) \/ FinalEnd(m, c),
         UNCHANGED <<dirs, put, reply>>,
         final[m] # "none" /\ (pc \in {"complete", "queue", "taken"} => Stored(m))
                           /\ (pc \in {"delete", "unlink", "rmdir", "forget"} => ~Unfailed(m)),
         c = "accepted" => Stored(m),
         \A n \in Msgs : n \in loop' => n \in loop \/ (n = m /\ Stored(m)),
         \A n \in Msgs : n \in deleted' => n \in deleted \/ n = m
  PROVE  \A n \in Msgs : MsgInv(n)'
<1>1. ASSUME NEW n \in Msgs \ {m} PROVE MsgInv(n)'
  BY <1>1, OthersKeep DEF Inv, TypeOK, FinalGoto, FinalEnd, dirs, Untouched
<1>2. MsgInv(m)'
  <2>1. MsgInv(m) /\ UNCHANGED <<incoming, queued, put, reply>>
    BY DEF Inv, dirs
  <2>2. /\ final'[m] \in {pc, "none"}
        /\ client'[m] = client[m] \/ client'[m] = c
    BY DEF FinalGoto, FinalEnd, Inv, TypeOK
  <2>3. Stored(m)' = Stored(m) /\ Unfailed(m)' = Unfailed(m)
    BY <2>1 DEF Stored, Unfailed
  <2>4. HandlersInv(m)' /\ FilesInv(m)'
    BY <2>1, <2>2, <2>3 DEF MsgInv, HandlersInv, FilesInv, Complete
  <2>5. PhaseInv(m)'
    BY <2>1, <2>2, <2>3 DEF MsgInv, PhaseInv
  <2> QED BY <2>4, <2>5 DEF MsgInv
<1> QED BY <1>1, <1>2

LEMMA FinalType ==
  ASSUME TypeOK, NEW m \in Msgs, NEW pc \in FinalState, NEW c \in {"accepted", "failed"},
         FinalGoto(m, pc) \/ FinalEnd(m, c)
  PROVE  final' \in [Msgs -> FinalState] /\ client' \in [Msgs -> ClientState]
<1>1. CASE FinalGoto(m, pc)
  BY <1>1 DEF TypeOK, FinalGoto
<1>2. CASE FinalEnd(m, c)
  <2>1. final' \in [Msgs -> FinalState]
    BY <1>2 DEF TypeOK, FinalEnd, FinalState
  <2>2. client' \in [Msgs -> ClientState]
    BY <1>2 DEF TypeOK, FinalEnd, ClientState
  <2> QED BY <2>1, <2>2
<1> QED BY <1>1, <1>2

LEMMA CheckKeeps ==
  ASSUME Inv, NEW m \in Msgs, CheckComplete(m) \/ CheckDelete(m)
  PROVE  Inv'
<1>1. PICK pc \in {"queue", "unlink"} :
        /\ FinalGoto(m, pc) \/ FinalEnd(m, "failed")
        /\ pc = "queue" => final[m] = "complete"
        /\ pc = "unlink" => final[m] = "delete"
  BY DEF CheckComplete, CheckDelete
<1>2. /\ UNCHANGED <<ticket, dirs, put, reply, loop, deleted, crashes>> /\ final[m] # "none"
  BY DEF CheckComplete, CheckDelete
<1>3. /\ pc = "queue" => Stored(m)
      /\ pc = "unlink" => ~Unfailed(m)
  BY <1>1 DEF Inv, MsgInv, PhaseInv
<1>4. pc \in FinalState \ {"none"}
  BY DEF FinalState
<1>5. \A n \in Msgs : MsgInv(n)'
  BY <1>1, <1>2, <1>3, <1>4, FinalKeeps
<1>6. TypeOK'
  BY <1>1, <1>2, <1>4, FinalType DEF Inv, TypeOK, dirs
<1> QED BY <1>5, <1>6 DEF Inv

LEMMA QueueKeeps ==
  ASSUME Inv, NEW m \in Msgs, Queue(m)
  PROVE  Inv'
<1>1. Stored(m) /\ "taken" \in FinalState
  BY DEF Queue, Inv, MsgInv, PhaseInv, FinalState
<1>2. \A n \in Msgs : MsgInv(n)'
  BY <1>1, FinalKeeps DEF Queue
<1>3. TypeOK'
  BY <1>1, FinalType DEF Queue, Inv, TypeOK, dirs
<1> QED BY <1>2, <1>3 DEF Inv

LEMMA AcceptKeeps ==
  ASSUME Inv, NEW m \in Msgs, Accept(m)
  PROVE  Inv'
<1>1. Stored(m) /\ "taken" \in FinalState
  BY DEF Accept, Inv, MsgInv, PhaseInv, FinalState
<1>2. \A n \in Msgs : MsgInv(n)'
  BY <1>1, FinalKeeps DEF Accept
<1>3. TypeOK'
  BY <1>1, FinalType, RemoveTicketType DEF Accept, Inv, TypeOK, dirs
<1> QED BY <1>2, <1>3 DEF Inv

LEMMA ForgetKeeps ==
  ASSUME Inv, NEW m \in Msgs, Forget(m)
  PROVE  Inv'
<1>1. ~Unfailed(m) /\ "forget" \in FinalState
  BY DEF Forget, Inv, MsgInv, PhaseInv, FinalState
<1>2. \A n \in Msgs : MsgInv(n)'
  BY <1>1, FinalKeeps DEF Forget
<1>3. TypeOK'
  BY <1>1, FinalType, RemoveTicketType DEF Forget, Inv, TypeOK, dirs
<1> QED BY <1>2, <1>3 DEF Inv

LEMMA MoveKeeps ==
  ASSUME Inv, NEW m \in Msgs, Move(m)
  PROVE  Inv'
<1>1. /\ Stored(m) /\ MsgInv(m) /\ loop' = {}
      /\ UNCHANGED <<ticket, reply, client, final, deleted, crashes>>
  BY DEF Move, Inv, MsgInv, PhaseInv
<1>2. CASE UNCHANGED <<dirs, put>>
  <2>1. \A n \in Msgs : MsgInv(n)'
    BY <1>1, <1>2, OthersKeep DEF Inv, dirs, Untouched
  <2> QED BY <1>1, <1>2, <2>1 DEF Inv, TypeOK, dirs
<1>3. CASE /\ incoming[m].there /\ ~queued[m].there
           /\ queued' = [queued EXCEPT ![m] = incoming[m]]
           /\ incoming' = [incoming EXCEPT ![m] = NoDir]
           /\ put' = [put EXCEPT ![m] = [p \in Parts |->
                IF put[m][p].home = "incoming" THEN [put[m][p] EXCEPT !.home = "processing"]
                                               ELSE put[m][p]]]
  <2>1. \A p \in Parts : put[m][p].pc = "end" /\ put[m][p].home = "gone"
    <3>1. ASSUME NEW p \in Parts PROVE put[m][p].pc = "end" /\ put[m][p] \in PutState
      BY <1>1 DEF MsgInv, HandlersInv, Stored, Inv, TypeOK
    <3> QED BY <3>1 DEF PutState, NoPut
  <2>2. put' = put
    <3>1. put[m] \in [Parts -> PutState]
      BY DEF Inv, TypeOK
    <3>2. [p \in Parts |->
            IF put[m][p].home = "incoming" THEN [put[m][p] EXCEPT !.home = "processing"]
                                           ELSE put[m][p]] = put[m]
      BY <2>1, <3>1
    <3> QED BY <1>3, <3>2 DEF Inv, TypeOK
  <2>3. queued'[m] = incoming[m] /\ incoming'[m] = NoDir
    BY <1>3 DEF Inv, TypeOK
  <2>4. Complete(incoming[m])
    <3>1. Unfailed(m)
      BY <1>1 DEF Stored, Unfailed
    <3> QED BY <1>1, <1>3, <3>1 DEF MsgInv, FilesInv, Stored, Complete
  <2>5. ASSUME NEW n \in Msgs \ {m} PROVE MsgInv(n)'
    BY <1>1, <1>3, <2>2, <2>5, OthersKeep DEF Inv, TypeOK, Untouched
  <2>6. ~NoDir.there
    BY DEF NoDir
  <2>7. MsgInv(m)'
    BY <1>1, <2>1, <2>2, <2>3, <2>4, <2>6
    DEF MsgInv, HandlersInv, FilesInv, PhaseInv, Stored, Unfailed, Complete
  <2>8. TypeOK'
    BY <1>1, <1>3, <2>2, Types DEF Inv, TypeOK
  <2> QED BY <2>5, <2>7, <2>8 DEF Inv
<1> QED BY <1>2, <1>3 DEF Move

\* A deletion changes the files of a message with a failed part.
LEMMA DeleteKeeps ==
  ASSUME Inv, NEW m \in Msgs, Unlink(m) \/ Rmdir(m)
  PROVE  Inv'
<1>1. /\ ~Unfailed(m) /\ ~Stored(m) /\ MsgInv(m)
      /\ UNCHANGED <<ticket, queued, reply, loop, deleted, crashes>>
  BY DEF Unlink, Rmdir, Inv, MsgInv, PhaseInv, Stored, Unfailed
<1>2. PICK pc \in {"rmdir", "forget"} : FinalGoto(m, pc) \/ FinalEnd(m, "failed")
  BY DEF Unlink, Rmdir
<1>3. final' \in [Msgs -> FinalState] /\ client' \in [Msgs -> ClientState]
  <2>1. pc \in FinalState /\ TypeOK
    BY DEF FinalState, Inv
  <2> QED BY <1>2, <2>1, FinalType
<1>4. /\ incoming' \in [Msgs -> Dir]
      /\ \A n \in Msgs \ {m} : incoming'[n] = incoming[n]
  <2>1. NoDir.files \in [Parts -> {"none", "torn", "full"}]
    BY DEF NoDir
  <2>2. CASE incoming' = [incoming EXCEPT ![m].files = NoDir.files]
    <3>1. \A d \in Dir : [d EXCEPT !.files = NoDir.files] \in Dir
      BY <2>1 DEF Dir
    <3> QED BY <2>2, <3>1 DEF Inv, TypeOK
  <2>3. CASE incoming' = [incoming EXCEPT ![m] = NoDir] \/ UNCHANGED incoming
    <3>1. [incoming EXCEPT ![m] = NoDir] \in [Msgs -> Dir] /\ incoming \in [Msgs -> Dir]
      BY Types DEF Inv, TypeOK
    <3> QED BY <2>3, <3>1 DEF Inv, TypeOK
  <2> QED BY <2>2, <2>3 DEF Unlink, Rmdir
<1>5. /\ put' \in [Msgs -> [Parts -> PutState]]
      /\ \A n \in Msgs \ {m} : put'[n] = put[n]
      /\ \A p \in Parts : put'[m][p].pc = put[m][p].pc
  <2>1. CASE UNCHANGED put
    BY <2>1 DEF Inv, TypeOK
  <2>2. CASE put' = [put EXCEPT ![m] = [p \in Parts |-> [put[m][p] EXCEPT !.home = "gone"]]]
    <3>1. \A h \in PutState : [h EXCEPT !.home = "gone"] \in PutState /\ [h EXCEPT !.home = "gone"].pc = h.pc
      BY DEF PutState, NoPut
    <3>2. \A p \in Parts : put[m][p] \in PutState
      BY DEF Inv, TypeOK
    <3>3. [p \in Parts |-> [put[m][p] EXCEPT !.home = "gone"]] \in [Parts -> PutState]
      BY <3>1, <3>2
    <3> QED BY <2>2, <3>1, <3>2, <3>3 DEF Inv, TypeOK
  <2> QED BY <2>1, <2>2 DEF Unlink, Rmdir
<1>6. ASSUME NEW n \in Msgs \ {m} PROVE MsgInv(n)'
  <2>1. client'[n] = client[n] /\ final'[n] = final[n]
    BY <1>2 DEF FinalGoto, FinalEnd, Inv, TypeOK
  <2> QED BY <1>1, <1>4, <1>5, <2>1, OthersKeep DEF Inv, Untouched
<1>7. MsgInv(m)'
  <2>1. /\ client'[m] = client[m] \/ client'[m] = "failed"
        /\ final'[m] \in {pc, "none"} /\ final[m] # "none"
    BY <1>2 DEF FinalGoto, FinalEnd, Inv, TypeOK, Unlink, Rmdir
  <2>2. ~Stored(m)' /\ ~Unfailed(m)' /\ ~queued[m].there
    BY <1>1 DEF Stored, Unfailed, MsgInv, PhaseInv
  <2>3. HandlersInv(m)' /\ FilesInv(m)'
    BY <1>1, <1>5, <2>1, <2>2 DEF MsgInv, HandlersInv, FilesInv
  <2>4. PhaseInv(m)'
    BY <1>1, <2>1, <2>2 DEF MsgInv, PhaseInv
  <2> QED BY <2>3, <2>4 DEF MsgInv
<1> QED BY <1>1, <1>3, <1>4, <1>5, <1>6, <1>7 DEF Inv, TypeOK

LEMMA CrashKeeps ==
  ASSUME Inv, Crash
  PROVE  Inv'
<1>1. TypeOK'
  <2>1. crashes' \in 0 .. MaxCrashes
    BY DEF Crash, Inv, TypeOK
  <2>2. put' \in [Msgs -> [Parts -> PutState]]
    BY Types DEF Crash
  <2>3. reply' \in [Msgs -> [Parts -> {"none", "ok", "failed"}]]
    BY DEF Crash, Inv, TypeOK
  <2>4. client' \in [Msgs -> ClientState] /\ final' \in [Msgs -> FinalState]
    BY DEF Crash, Inv, TypeOK, ClientState, FinalState
  <2> QED BY <2>1, <2>2, <2>3, <2>4 DEF Crash, Inv, TypeOK, dirs
<1>2. ASSUME NEW m \in Msgs PROVE MsgInv(m)'
  <2>1. MsgInv(m)
    BY DEF Inv
  <2>2. \A p \in Parts :
          /\ put'[m][p].pc = IF put[m][p].pc = "none" THEN "none" ELSE "end"
          /\ reply'[m][p] = IF reply[m][p] = "none" /\ put[m][p].pc # "none" THEN "failed" ELSE reply[m][p]
    BY DEF Crash, NoPut
  <2>3. /\ final'[m] = "none" /\ m \notin loop' /\ UNCHANGED <<incoming, queued, deleted>>
        /\ client'[m] = client[m] \/ client'[m] = "failed"
        /\ client'[m] # "completing"
    BY DEF Crash, dirs
  <2>4. (Stored(m) => Stored(m)') /\ (Unfailed(m)' => Unfailed(m))
    BY <2>2 DEF Stored, Unfailed
  <2>5. HandlersInv(m)'
    BY <2>1, <2>2, <2>3 DEF MsgInv, HandlersInv
  <2>6. FilesInv(m)'
    BY <2>1, <2>2, <2>3, <2>4 DEF MsgInv, FilesInv, Complete
  <2>7. PhaseInv(m)'
    BY <2>1, <2>2, <2>3, <2>4 DEF MsgInv, PhaseInv
  <2> QED BY <2>5, <2>6, <2>7 DEF MsgInv
<1> QED BY <1>1, <1>2 DEF Inv

-----------------------------------------------------------------------------
LEMMA StutterKeeps ==
  ASSUME Inv, UNCHANGED vars
  PROVE  Inv'
<1>1. TypeOK'
  BY DEF Inv, TypeOK, vars, dirs
<1>2. ASSUME NEW m \in Msgs PROVE MsgInv(m)'
  BY <1>2, OthersKeep DEF Inv, vars, dirs, Untouched
<1> QED BY <1>1, <1>2 DEF Inv

LEMMA Step ==
  ASSUME Inv, [Next]_vars
  PROVE  Inv'
<1>1. ASSUME NEW m \in Msgs, NEW p \in Parts, Upload(m, p) PROVE Inv'
  BY <1>1, TimeoutKeeps, PutCheckKeeps, PutMkdirKeeps, PutCreateKeeps, PutCopyKeeps DEF Upload, StorePart
<1> QED BY <1>1, CrashKeeps, GetTicketKeeps, UploadsReturnKeeps, TimeoutKeeps, CheckKeeps, QueueKeeps,
           MoveKeeps, AcceptKeeps, DeleteKeeps, ForgetKeeps, StutterKeeps DEF Next

LEMMA Inductive == Spec => []Inv
  BY InitInv, Step, PTL DEF Spec

\* Every variable has its type.
THEOREM TypeCorrect == Spec => []TypeOK
<1>1. Inv => TypeOK
  BY DEF Inv
<1> QED BY <1>1, Inductive, PTL

\* The main loop moves whole messages only, and no handler writes to one that
\* was moved.
THEOREM QueuedStaysComplete == Spec => []QueuedIsComplete
<1>1. Inv => QueuedIsComplete
  BY DEF Inv, MsgInv, FilesInv, QueuedIsComplete
<1> QED BY <1>1, Inductive, PTL

\* A message that CompleteIncoming accepted stays whole in one of the sections.
THEOREM AcceptedStays == Spec => []AcceptedIsKept
<1>1. ASSUME Inv, NEW m \in Msgs, client[m] = "accepted"
      PROVE  Complete(incoming[m]) \/ Complete(queued[m])
  <2>1. Stored(m) /\ Unfailed(m) /\ MsgInv(m)
    BY <1>1 DEF Inv, MsgInv, PhaseInv, Stored, Unfailed
  <2> QED BY <2>1 DEF MsgInv, FilesInv, Stored, Complete
<1>2. Inv => AcceptedIsKept
  BY <1>1 DEF AcceptedIsKept
<1> QED BY <1>2, Inductive, PTL

\* No handler brings back the directory of a message that was moved on.
THEOREM MovedStaysGone == Spec => []MovedIsGone
<1>1. Inv => MovedIsGone
  BY DEF Inv, MsgInv, FilesInv, MovedIsGone
<1> QED BY <1>1, Inductive, PTL

\* A directory comes back in the incoming section by the mkdir of a handler.
LEMMA ReturnsByMkdir ==
  ASSUME Inv, Next, NEW m \in Msgs, ~incoming[m].there, incoming'[m].there
  PROVE  \E p \in Parts : put[m][p].pc = "mkdir" /\ put'[m][p].pc = "create"
<1> USE DEF dirs
<1>1. ~NoDir.there /\ TypeOK
  BY DEF NoDir, Inv
<1>2. incoming' # incoming
  OBVIOUS
<1>3. ASSUME NEW n \in Msgs, NEW p \in Parts, PutMkdir(n, p)
      PROVE  put[m][p].pc = "mkdir" /\ put'[m][p].pc = "create"
  <2>1. incoming' = [incoming EXCEPT ![n].there = TRUE] /\ PutGoto(n, p, "create")
    BY <1>2, <1>3 DEF PutMkdir
  <2>2. n = m
    BY <1>1, <2>1 DEF TypeOK
  <2> QED BY <1>1, <1>3, <2>1, <2>2 DEF PutMkdir, PutGoto, TypeOK
<1>4. ASSUME NEW n \in Msgs, NEW p \in Parts, NEW f,
             incoming' = [incoming EXCEPT ![n].files[p] = f]
      PROVE  FALSE
  <2>1. incoming'[m].there = incoming[m].there
    BY <1>1, <1>4 DEF TypeOK, Dir
  <2> QED BY <2>1
<1>5. ASSUME NEW n \in Msgs, NEW p \in Parts, PutCreate(n, p) \/ PutCopy(n, p) PROVE FALSE
  <2>1. \E f \in {"none", "torn", "full"} : incoming' = [incoming EXCEPT ![n].files[p] = f]
    BY <1>2, <1>5 DEF PutCreate, PutCopy
  <2> QED BY <1>4, <2>1
<1>6. ASSUME NEW n \in Msgs, Unlink(n) \/ Rmdir(n) \/ Move(n) PROVE FALSE
  <2>1. \/ incoming' = [incoming EXCEPT ![n].files = NoDir.files]
        \/ incoming' = [incoming EXCEPT ![n] = NoDir]
    BY <1>2, <1>6 DEF Unlink, Rmdir, Move
  <2>2. incoming'[m].there => incoming[m].there
    <3>1. CASE incoming' = [incoming EXCEPT ![n].files = NoDir.files]
      BY <1>1, <3>1 DEF TypeOK, Dir
    <3>2. CASE incoming' = [incoming EXCEPT ![n] = NoDir]
      BY <1>1, <3>2 DEF TypeOK
    <3> QED BY <2>1, <3>1, <3>2
  <2> QED BY <2>2
<1>7. ASSUME NEW n \in Msgs, NEW p \in Parts, UploadTimeout(n, p) \/ PutCheck(n, p) PROVE FALSE
  BY <1>2, <1>7 DEF UploadTimeout, PutCheck
<1>8. ASSUME NEW n \in Msgs,
             \/ GetTicket(n) \/ UploadsReturn(n) \/ FinalTimeout(n) \/ Expire(n) \/ CheckComplete(n)
             \/ Queue(n) \/ Accept(n) \/ CheckDelete(n) \/ Forget(n)
      PROVE  FALSE
  BY <1>2, <1>8 DEF GetTicket, UploadsReturn, FinalTimeout, Expire, CheckComplete, Queue, Accept,
                    CheckDelete, Forget
<1>9. ~Crash
  BY <1>2 DEF Crash
<1> QED BY <1>3, <1>5, <1>6, <1>7, <1>8, <1>9 DEF Next, Upload, StorePart

\* Only a handler whose client gave up on it brings back the directory of a
\* message that DeleteIncoming removed.
THEOREM OnlyLateReturn == Spec => OnlyLateUploadsReturn
<1> DEFINE Late(m) == \E p \in Parts : put[m][p].pc # put'[m][p].pc /\ reply[m][p] = "failed"
           Returns  == \A m \in deleted : ~incoming[m].there /\ incoming'[m].there => Late(m)
<1>1. ASSUME Inv, [Next]_vars PROVE [Returns]_vars
  <2>1. SUFFICES ASSUME Next, NEW m \in deleted, ~incoming[m].there, incoming'[m].there PROVE Late(m)
    BY <1>1
  <2>2. m \in Msgs /\ MsgInv(m)
    BY <1>1 DEF Inv, TypeOK
  <2>3. PICK p \in Parts : put[m][p].pc = "mkdir" /\ put'[m][p].pc = "create"
    BY <1>1, <2>1, <2>2, ReturnsByMkdir
  <2>4. reply[m][p] # "none"
    BY <2>1, <2>2 DEF MsgInv, PhaseInv
  <2>5. reply[m][p] # "ok"
    BY <2>2, <2>3, WorkingIsEarly
  <2>6. reply[m][p] = "failed"
    BY <1>1, <2>2, <2>4, <2>5 DEF Inv, TypeOK
  <2> QED BY <2>3, <2>6
<1>2. Spec => [][Returns]_vars
  BY <1>1, Inductive, PTL DEF Spec
<1> QED BY <1>2 DEF OnlyLateUploadsReturn
=============================================================================
