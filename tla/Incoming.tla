------------------------------- MODULE Incoming -------------------------------
(***************************************************************************)
(* The upload of messages to bm-server: uploadToServer of the client, the  *)
(* ticket that GetRemoteTicket hands out, the handlers that store, delete  *)
(* and complete an upload (cmd/bm-server/handler/incoming.go with          *)
(* internal/message/upload.go), and the receive of mainLoop that moves a   *)
(* completed upload to the processing section, where Processor takes over. *)
(* Handlers run concurrently, and a client that stops waiting for one does *)
(* not stop it.                                                            *)
(***************************************************************************)
EXTENDS Naturals

CONSTANTS
  Msgs,        \* one message per ticket: its ID is the ticket's
  Parts,       \* the files of a message: header, catalog, blocks, attachments
  Faults,      \* what may go wrong: "timeout", "expiry", "disk", "redis"
  MaxCrashes   \* bound on crashes of the server

ASSUME IncomingAssumption ==
  /\ Parts # {}
  /\ Faults \subseteq {"timeout", "expiry", "disk", "redis"}
  /\ MaxCrashes \in Nat

VARIABLES
  ticket,    \* ticket[m]: the ticket in Redis
  incoming,  \* incoming[m]: the directory in the incoming section
  queued,    \* queued[m]: the directory in the processing section
  put,       \* put[m][p]: the handler that stores part p
  reply,     \* reply[m][p]: what the client knows of that request
  client,    \* client[m]: uploadToServer
  final,     \* final[m]: the CompleteIncoming or DeleteIncoming handler
  loop,      \* messages that mainLoop received and has not moved yet
  deleted,   \* history: deletions answered with `message removed'
  crashes

dirs == <<incoming, queued>>
vars == <<ticket, incoming, queued, put, reply, client, final, loop, deleted, crashes>>

Dir   == [there : BOOLEAN, files : [Parts -> {"none", "torn", "full"}]]
NoDir == [there |-> FALSE, files |-> [p \in Parts |-> "none"]]
Complete(d) == d.there /\ \A p \in Parts : d.files[p] = "full"

\* A handler that writes holds its file open: home is where the directory of
\* that file is by now.
NoPut      == [pc |-> "none", home |-> "gone"]
PutState   == {NoPut} \cup [pc : {"check", "mkdir", "create", "end"}, home : {"gone"}]
                \cup [pc : {"copy"}, home : {"incoming", "processing", "gone"}]
ClientState == {"ticket", "uploading", "completing", "deleting", "accepted", "failed"}
FinalState  == {"none", "complete", "queue", "taken", "delete", "unlink", "rmdir", "forget"}

Init ==
  /\ ticket = [m \in Msgs |-> "none"]
  /\ incoming = [m \in Msgs |-> NoDir]
  /\ queued = [m \in Msgs |-> NoDir]
  /\ put = [m \in Msgs |-> [p \in Parts |-> NoPut]]
  /\ reply = [m \in Msgs |-> [p \in Parts |-> "none"]]
  /\ client = [m \in Msgs |-> "ticket"]
  /\ final = [m \in Msgs |-> "none"]
  /\ loop = {}
  /\ deleted = {}
  /\ crashes = 0

-----------------------------------------------------------------------------
(***************************************************************************)
(* The ticket repository: Fetch and Remove, which ignores every error.     *)
(***************************************************************************)
NoTicketFor(m) == ticket[m] # "valid" \/ "redis" \in Faults

RemoveTicket(m) ==
  \/ ticket' = [ticket EXCEPT ![m] = "none"]
  \/ "redis" \in Faults /\ UNCHANGED ticket

-----------------------------------------------------------------------------
(***************************************************************************)
(* The client.                                                             *)
(***************************************************************************)
\* GetRemoteTicket stores a valid ticket; then all parts are sent at once.
GetTicket(m) ==
  /\ client[m] = "ticket"
  /\ \/ /\ ticket' = [ticket EXCEPT ![m] = "valid"]
        /\ client' = [client EXCEPT ![m] = "uploading"]
        /\ put' = [put EXCEPT ![m] = [p \in Parts |-> [pc |-> "check", home |-> "gone"]]]
     \/ /\ ticket' \in {ticket, [ticket EXCEPT ![m] = "valid"]}   \* refused; answer lost
        /\ client' = [client EXCEPT ![m] = "failed"]
        /\ UNCHANGED put
  /\ UNCHANGED <<dirs, reply, final, loop, deleted, crashes>>

\* Mutant of UploadsReturn: completes without waiting for every upload.
UploadsReturnEarly(m) ==
  /\ client[m] = "uploading"
  /\ \/ /\ \A p \in Parts : reply[m][p] # "failed"
        /\ \E p \in Parts : reply[m][p] = "ok"
        /\ client' = [client EXCEPT ![m] = "completing"]
        /\ final' = [final EXCEPT ![m] = "complete"]
     \/ /\ \E p \in Parts : reply[m][p] = "failed"
        /\ client' = [client EXCEPT ![m] = "deleting"]
        /\ final' = [final EXCEPT ![m] = "delete"]
  /\ UNCHANGED <<ticket, dirs, put, reply, loop, deleted, crashes>>

\* errgroup.Wait returns when every upload has: complete or delete the message.
UploadsReturn(m) ==
  /\ client[m] = "uploading"
  /\ \A p \in Parts : reply[m][p] # "none"
  /\ \/ /\ \A p \in Parts : reply[m][p] = "ok"
        /\ client' = [client EXCEPT ![m] = "completing"]
        /\ final' = [final EXCEPT ![m] = "complete"]
     \/ /\ \E p \in Parts : reply[m][p] = "failed"
        /\ client' = [client EXCEPT ![m] = "deleting"]
        /\ final' = [final EXCEPT ![m] = "delete"]
  /\ UNCHANGED <<ticket, dirs, put, reply, loop, deleted, crashes>>

\* http.Client gives up on a request after its Timeout; the handler runs on.
UploadTimeout(m, p) ==
  /\ "timeout" \in Faults
  /\ client[m] = "uploading" /\ reply[m][p] = "none"
  /\ reply' = [reply EXCEPT ![m][p] = "failed"]
  /\ UNCHANGED <<ticket, dirs, put, client, final, loop, deleted, crashes>>

FinalTimeout(m) ==
  /\ "timeout" \in Faults
  /\ client[m] \in {"completing", "deleting"}
  /\ client' = [client EXCEPT ![m] = "failed"]
  /\ UNCHANGED <<ticket, dirs, put, reply, final, loop, deleted, crashes>>

-----------------------------------------------------------------------------
(***************************************************************************)
(* IncomingMessageHeader, -Catalog, -Block and -Attachment.                *)
(***************************************************************************)
\* The handler of part p moves on to pc.
PutGoto(m, p, pc) == put' = [put EXCEPT ![m][p] = [pc |-> pc, home |-> "gone"]]

\* Mutant of PutEnd: the handler ends without closing its file.
PutEndOpen(m, p, r) ==
  /\ put' = [put EXCEPT ![m][p].pc = "end"]
  /\ reply' = [reply EXCEPT ![m][p] = IF @ = "none" THEN r ELSE @]

\* It answers r, which a client that gave up does not see.
PutEnd(m, p, r) ==
  /\ PutGoto(m, p, "end")
  /\ reply' = [reply EXCEPT ![m][p] = IF @ = "none" THEN r ELSE @]

\* fetchTicketHeader: an unreachable Redis is taken for an unknown ticket.
PutCheck(m, p) ==
  /\ put[m][p].pc = "check"
  /\ \/ ticket[m] = "valid" /\ PutGoto(m, p, "mkdir") /\ UNCHANGED reply
     \/ NoTicketFor(m) /\ PutEnd(m, p, "failed")
  /\ UNCHANGED <<ticket, dirs, client, final, loop, deleted, crashes>>

\* os.MkdirAll.
PutMkdir(m, p) ==
  /\ put[m][p].pc = "mkdir"
  /\ \/ incoming' = [incoming EXCEPT ![m].there = TRUE] /\ PutGoto(m, p, "create") /\ UNCHANGED reply
     \/ "disk" \in Faults /\ PutEnd(m, p, "failed") /\ UNCHANGED incoming
  /\ UNCHANGED <<ticket, queued, client, final, loop, deleted, crashes>>

\* Mutant of PutCreate: answers as soon as the file exists.
PutCreateAnswer(m, p) ==
  /\ put[m][p].pc = "create"
  /\ \/ /\ incoming[m].there
        /\ incoming' = [incoming EXCEPT ![m].files[p] = "torn"]
        /\ put' = [put EXCEPT ![m][p] = [pc |-> "copy", home |-> "incoming"]]
        /\ reply' = [reply EXCEPT ![m][p] = IF @ = "none" THEN "ok" ELSE @]
     \/ /\ ~incoming[m].there \/ "disk" \in Faults
        /\ PutEnd(m, p, "failed")
        /\ UNCHANGED incoming
  /\ UNCHANGED <<ticket, queued, client, final, loop, deleted, crashes>>

\* os.Create fails when the directory is gone again.
PutCreate(m, p) ==
  /\ put[m][p].pc = "create"
  /\ \/ /\ incoming[m].there
        /\ incoming' = [incoming EXCEPT ![m].files[p] = "torn"]
        /\ put' = [put EXCEPT ![m][p] = [pc |-> "copy", home |-> "incoming"]]
        /\ UNCHANGED reply
     \/ /\ ~incoming[m].there \/ "disk" \in Faults
        /\ PutEnd(m, p, "failed")
        /\ UNCHANGED incoming
  /\ UNCHANGED <<ticket, queued, client, final, loop, deleted, crashes>>

\* io.Copy writes through the handle.  When it fails (a full disk, a client
\* that hung up) the handler removes the file by its path.
PutCopy(m, p) ==
  /\ put[m][p].pc = "copy"
  /\ \/ /\ PutEnd(m, p, "ok")
        /\ incoming' = IF put[m][p].home = "incoming"
                       THEN [incoming EXCEPT ![m].files[p] = "full"] ELSE incoming
        /\ queued' = IF put[m][p].home = "processing"
                     THEN [queued EXCEPT ![m].files[p] = "full"] ELSE queued
     \/ /\ "disk" \in Faults \/ reply[m][p] = "failed"
        /\ PutEnd(m, p, "failed")
        /\ incoming' = [incoming EXCEPT ![m].files[p] = "none"]
        /\ UNCHANGED queued
  /\ UNCHANGED <<ticket, client, final, loop, deleted, crashes>>

-----------------------------------------------------------------------------
(***************************************************************************)
(* CompleteIncoming and mainLoop.                                          *)
(***************************************************************************)
\* A handler that has ended tells its client c, if that one still waits.
FinalEnd(m, c) ==
  /\ final' = [final EXCEPT ![m] = "none"]
  /\ client' = [client EXCEPT ![m] = IF @ \in {"completing", "deleting"} THEN c ELSE @]

FinalGoto(m, pc) == final' = [final EXCEPT ![m] = pc] /\ UNCHANGED client

CheckComplete(m) ==
  /\ final[m] = "complete"
  /\ \/ ticket[m] = "valid" /\ FinalGoto(m, "queue")
     \/ NoTicketFor(m) /\ FinalEnd(m, "failed")
  /\ UNCHANGED <<ticket, dirs, put, reply, loop, deleted, crashes>>

\* QueueIncomingMessage: the loop takes the message ID when it is idle.
Queue(m) ==
  /\ final[m] = "queue" /\ loop = {}
  /\ loop' = {m}
  /\ FinalGoto(m, "taken")
  /\ UNCHANGED <<ticket, dirs, put, reply, deleted, crashes>>

\* Mutant of Move: the directory is copied, so that a second one stays behind.
MoveCopied(m) ==
  /\ m \in loop
  /\ loop' = {}
  /\ \/ /\ incoming[m].there /\ ~queued[m].there
        /\ queued' = [queued EXCEPT ![m] = incoming[m]]
        /\ UNCHANGED <<incoming, put>>
     \/ /\ ~incoming[m].there \/ queued[m].there \/ "disk" \in Faults
        /\ UNCHANGED <<dirs, put>>
  /\ UNCHANGED <<ticket, reply, client, final, deleted, crashes>>

\* MoveMessage takes the directory along with the files still open in it.
Move(m) ==
  /\ m \in loop
  /\ loop' = {}
  /\ \/ /\ incoming[m].there /\ ~queued[m].there
        /\ queued' = [queued EXCEPT ![m] = incoming[m]]
        /\ incoming' = [incoming EXCEPT ![m] = NoDir]
        /\ put' = [put EXCEPT ![m] = [p \in Parts |->
             IF put[m][p].home = "incoming" THEN [put[m][p] EXCEPT !.home = "processing"]
                                            ELSE put[m][p]]]
     \/ /\ ~incoming[m].there \/ queued[m].there \/ "disk" \in Faults
        /\ UNCHANGED <<dirs, put>>
  /\ UNCHANGED <<ticket, reply, client, final, deleted, crashes>>

\* The ticket is removed and the upload accepted.
Accept(m) ==
  /\ final[m] = "taken"
  /\ RemoveTicket(m)
  /\ FinalEnd(m, "accepted")
  /\ UNCHANGED <<dirs, put, reply, loop, deleted, crashes>>

-----------------------------------------------------------------------------
(***************************************************************************)
(* DeleteIncoming.                                                         *)
(***************************************************************************)
CheckDelete(m) ==
  /\ final[m] = "delete"
  /\ \/ ticket[m] = "valid" /\ incoming[m].there /\ FinalGoto(m, "unlink")
     \/ NoTicketFor(m) /\ FinalEnd(m, "failed")
     \/ ~incoming[m].there /\ FinalEnd(m, "failed")
  /\ UNCHANGED <<ticket, dirs, put, reply, loop, deleted, crashes>>

\* os.RemoveAll unlinks what it lists, then removes the directory, which
\* fails when a file was created meanwhile.
Unlink(m) ==
  /\ final[m] = "unlink"
  /\ FinalGoto(m, "rmdir")
  /\ incoming' = [incoming EXCEPT ![m].files = NoDir.files]
  /\ put' = [put EXCEPT ![m] = [p \in Parts |-> [put[m][p] EXCEPT !.home = "gone"]]]
  /\ UNCHANGED <<ticket, queued, reply, loop, deleted, crashes>>

Rmdir(m) ==
  /\ final[m] = "rmdir"
  /\ \/ /\ incoming[m].files = NoDir.files
        /\ incoming' = [incoming EXCEPT ![m] = NoDir]
        /\ FinalGoto(m, "forget")
     \/ /\ incoming[m].files # NoDir.files \/ "disk" \in Faults
        /\ FinalEnd(m, "failed")
        /\ UNCHANGED incoming
  /\ UNCHANGED <<ticket, queued, put, reply, loop, deleted, crashes>>

\* The ticket is removed, and the deletion reported.
Forget(m) ==
  /\ final[m] = "forget"
  /\ RemoveTicket(m)
  /\ deleted' = deleted \cup {m}
  /\ FinalEnd(m, "failed")
  /\ UNCHANGED <<dirs, put, reply, loop, crashes>>

-----------------------------------------------------------------------------
\* Redis drops a ticket 30 minutes after it was stored.
Expire(m) ==
  /\ "expiry" \in Faults
  /\ ticket[m] = "valid"
  /\ ticket' = [ticket EXCEPT ![m] = "none"]
  /\ UNCHANGED <<dirs, put, reply, client, final, loop, deleted, crashes>>

\* The server dies and is started again: its requests fail; spool and tickets stay.
Crash ==
  /\ crashes < MaxCrashes
  /\ crashes' = crashes + 1
  /\ put' = [m \in Msgs |-> [p \in Parts |->
       IF put[m][p].pc = "none" THEN NoPut ELSE [pc |-> "end", home |-> "gone"]]]
  /\ reply' = [m \in Msgs |-> [p \in Parts |->
       IF reply[m][p] = "none" /\ put[m][p].pc # "none" THEN "failed" ELSE reply[m][p]]]
  /\ client' = [m \in Msgs |-> IF client[m] \in {"completing", "deleting"} THEN "failed" ELSE client[m]]
  /\ final' = [m \in Msgs |-> "none"]
  /\ loop' = {}
  /\ UNCHANGED <<ticket, dirs, deleted>>

\* Header, catalog, blocks and attachments are stored alike.
StorePart(m, p) == PutMkdir(m, p) \/ PutCreate(m, p) \/ PutCopy(m, p)

Upload(m, p) == UploadTimeout(m, p) \/ PutCheck(m, p) \/ StorePart(m, p)

Next ==
  \/ Crash
  \/ \E m \in Msgs :
       \/ GetTicket(m) \/ UploadsReturn(m) \/ FinalTimeout(m) \/ Expire(m)
       \/ CheckComplete(m) \/ Queue(m) \/ Move(m) \/ Accept(m)
       \/ CheckDelete(m) \/ Unlink(m) \/ Rmdir(m) \/ Forget(m)
       \/ \E p \in Parts : Upload(m, p)

Spec == Init /\ [][Next]_vars
=============================================================================
