-------------------------- MODULE RegistrationProofs --------------------------
(***************************************************************************)
(* Theorems about the creation of an account, for any boxes, look-ups,     *)
(* faults, runs of the client and crashes of the server.                   *)
(***************************************************************************)
EXTENDS RegistrationProperties, TLAPS

USE RegistrationAssumption

-----------------------------------------------------------------------------
(***************************************************************************)
(* The client: each run sends one request, with a key that its vault has.  *)
(***************************************************************************)
ClientInv ==
  /\ client # "idle" => runs \in Runs
  /\ client \in {"send", "wait", "push"} => vault # NoKey
  /\ \A n \in Runs : request[n].pc # "none" =>
       /\ request[n].key # NoKey
       /\ n <= runs
       /\ client \in {"lookup", "prepare", "send"} => n # runs
  /\ \A n \in Runs : store[n].pc # "off" => request[n].pc # "none"

\* Between the look-up and the upload of a run nothing is registered, unless a
\* late upload has overtaken it.
KeyInv ==
  /\ RegisteredKeyIsHeld
  /\ client \in {"prepare", "send", "wait"} => registered = NoKey \/ registered \in overtaken

-----------------------------------------------------------------------------
(***************************************************************************)
(* The server, as long as no creation was disturbed.                       *)
(***************************************************************************)
\* A request that is not creating has no goroutine at work.
Resting(n) ==
  /\ store[n].pc \in {"off", "ok", "failed"}
  /\ \A b \in Boxes : boxer[n][b] # "run"

\* What the key goroutine of the only creation has made of the key file.
KeyStage(n) ==
  /\ store[n].pc \in {"lock", "read", "make"} => account.file = Broken("none")
  /\ store[n].pc \in {"open", "write"} => account.file = Broken("empty")
  /\ store[n].pc = "write" => store[n].own
  /\ store[n].pc \in {"stored", "ok"} =>
       account.file.state = "ok" /\ request[n].key \in account.file.keys

\* Where the only creation is, and what is on the disk then.
Stage(n) ==
  /\ request[n].pc = "mkdir" => account = NoAccount /\ Resting(n)
  /\ request[n].pc = "create" =>
       /\ account.there /\ KeyStage(n)
       /\ \A b \in Boxes : boxer[n][b] = "ok" => b \in account.boxes
  /\ request[n].pc \in {"unlink", "rmdir"} => Resting(n) /\ account.there
  /\ request[n].pc = "rmdir" => account = [NoAccount EXCEPT !.there = TRUE]

\* One creation at a time, away from the look-ups, and only before the first
\* success.
Alone ==
  /\ \A n, k \in Active : n = k
  /\ Active # {} => created = {} /\ \A f \in Fetchers : fetch[f] = "idle"
  /\ (\E f \in Fetchers : fetch[f] = "make") => created = {}

Calm ==
  /\ Alone
  /\ ~account.there => account = NoAccount
  /\ \A n \in Runs \ Active : Resting(n)
  /\ \A n \in Active : Stage(n)

\* The inductive invariant of the server.
ServerInv == disturbed \/ (Calm /\ CreatedIsComplete /\ RolledBack)

-----------------------------------------------------------------------------
(***************************************************************************)
(* The values.                                                             *)
(***************************************************************************)
LEMMA KeyFiles ==
  /\ \A s \in {"none", "empty", "garbled"} : Broken(s) \in KeyFile /\ Broken(s).state = s
  /\ \A s \in SUBSET Keys : KeysIn(s) \in KeyFile
  /\ \A s : KeysIn(s).state = "ok" /\ KeysIn(s).keys = s
  /\ \A k \in KeyFile : k.keys \in SUBSET Keys
  BY DEF Broken, KeysIn, KeyFile

LEMMA Accounts ==
  /\ NoAccount \in Account /\ ~NoAccount.there /\ NoAccount.boxes = {}
  /\ NoAccount.file = Broken("none") /\ NoAccount.lock = "none"
  /\ \A a \in Account : a.file \in KeyFile /\ a.boxes \subseteq Boxes /\ a.there \in BOOLEAN
  BY KeyFiles DEF NoAccount, Account

LEMMA AccountsChanged ==
  ASSUME NEW a \in Account
  PROVE  /\ \A t \in BOOLEAN : [a EXCEPT !.there = t] \in Account
         /\ \A l \in {"none", "live", "stale"} : [a EXCEPT !.lock = l] \in Account
         /\ \A k \in KeyFile : [a EXCEPT !.file = k] \in Account
         /\ \A b \in Boxes : [a EXCEPT !.there = TRUE, !.boxes = @ \cup {b}] \in Account
  BY DEF Account

RequestPCs == {"none", "invite", "exists", "mkdir", "create", "unlink", "rmdir", "end"}
StorePCs   == {"off", "lock", "read", "make", "open", "write", "stored", "broken", "ok", "failed"}

LEMMA Requests ==
  /\ NoRequest \in Request /\ NoRequest.pc = "none"
  /\ \A k \in Keys : [pc |-> "invite", key |-> k, reply |-> "none"] \in Request
  /\ \A r \in Request : r.key \in Keys \cup {NoKey} /\ r.pc \in RequestPCs
  BY DEF NoRequest, Request, RequestPCs

LEMMA RequestsChanged ==
  ASSUME NEW r \in Request
  PROVE  /\ \A pc \in RequestPCs :
              LET q == [r EXCEPT !.pc = pc] IN q \in Request /\ q.pc = pc /\ q.key = r.key
         /\ \A a \in {"none", "created", "refused"} :
              LET q == [r EXCEPT !.pc = "end", !.reply = a]
              IN  q \in Request /\ q.pc = "end" /\ q.key = r.key
  BY DEF Request, RequestPCs

LEMMA Stores ==
  /\ NoStore \in Store /\ NoStore.pc = "off"
  /\ \A pc \in StorePCs : [NoStore EXCEPT !.pc = pc] \in Store /\ [NoStore EXCEPT !.pc = pc].pc = pc
  /\ \A s \in Store : s.pc \in StorePCs /\ s.keys \in SUBSET Keys
  BY DEF NoStore, Store, StorePCs

LEMMA StoresChanged ==
  ASSUME NEW s \in Store
  PROVE  /\ \A pc \in StorePCs : LET t == [s EXCEPT !.pc = pc]
                                IN  t \in Store /\ t.pc = pc /\ t.keys = s.keys /\ t.own = s.own
         /\ \A k \in SUBSET Keys : LET t == [s EXCEPT !.pc = "open", !.keys = k]
                                   IN  t \in Store /\ t.pc = "open"
         /\ LET t == [s EXCEPT !.pc = "write", !.own = TRUE]
            IN  t \in Store /\ t.pc = "write" /\ t.own
         /\ [s EXCEPT !.own = FALSE] \in Store /\ [s EXCEPT !.own = FALSE].pc = s.pc
  BY DEF Store, StorePCs

\* The step moves request n to pc and keeps its key; the others stay.
Moves(n, pc) ==
  /\ request' \in [Runs -> Request]
  /\ request'[n].pc = pc /\ request'[n].key = request[n].key
  /\ \A k \in Runs \ {n} : request'[k] = request[k]

LEMMA GotoMoves ==
  ASSUME request \in [Runs -> Request], NEW n \in Runs, NEW pc \in RequestPCs, Goto(n, pc)
  PROVE  Moves(n, pc)
<1> DEFINE q == [request[n] EXCEPT !.pc = pc]
<1>2. q \in Request /\ q.pc = pc /\ q.key = request[n].key
  BY RequestsChanged
<1>3. request' = [request EXCEPT ![n] = q]
  BY DEF Goto
<1> HIDE DEF q
<1> QED BY <1>2, <1>3 DEF Moves

LEMMA ReplyMoves ==
  ASSUME request \in [Runs -> Request], NEW n \in Runs,
         NEW r \in {"none", "created", "refused"}, Reply(n, r)
  PROVE  Moves(n, "end")
<1> DEFINE q == [request[n] EXCEPT !.pc = "end", !.reply = r]
<1>0. request[n] \in Request
  OBVIOUS
<1>1. q \in Request /\ q.pc = "end" /\ q.key = request[n].key
  BY <1>0 DEF Request
<1>2. request' = [request EXCEPT ![n] = q]
  BY DEF Reply
<1> HIDE DEF q
<1> QED BY <1>1, <1>2 DEF Moves

\* The step moves the key goroutine of request n to pc; the others stay.
StoreMoves(n, pc) ==
  /\ store' \in [Runs -> Store]
  /\ store'[n].pc = pc
  /\ \A k \in Runs \ {n} : store'[k] = store[k]

LEMMA StoreGotoMoves ==
  ASSUME store \in [Runs -> Store], NEW n \in Runs, NEW pc \in StorePCs, StoreGoto(n, pc)
  PROVE  StoreMoves(n, pc) /\ store'[n].own = store[n].own
<1> DEFINE t == [store[n] EXCEPT !.pc = pc]
<1>0. store[n] \in Store
  OBVIOUS
<1>1. t \in Store /\ t.pc = pc /\ t.own = store[n].own
  BY <1>0 DEF Store, StorePCs
<1>2. store' = [store EXCEPT ![n] = t]
  BY DEF StoreGoto
<1> HIDE DEF t
<1> QED BY <1>1, <1>2 DEF StoreMoves

-----------------------------------------------------------------------------
(***************************************************************************)
(* Types, and the requests of the client.                                  *)
(***************************************************************************)
TypeInv == TypeOK /\ ClientInv

LEMMA InitTypes == Init => TypeInv
<1> SUFFICES ASSUME Init PROVE TypeInv
  OBVIOUS
<1>1. \A n \in Runs : request[n].pc = "none" /\ store[n].pc = "off"
  BY Requests, Stores DEF Init
<1>2. TypeOK
  <2>1. runs \in 0 .. MaxRuns /\ crashes \in 0 .. MaxCrashes
    BY DEF Init
  <2>2. request \in [Runs -> Request] /\ store \in [Runs -> Store] /\ account \in Account
    BY Requests, Stores, Accounts DEF Init
  <2>3. /\ boxer \in [Runs -> [Boxes -> {"off", "run", "ok", "failed"}]]
        /\ fetch \in [Fetchers -> {"idle", "read", "make"}]
    BY DEF Init
  <2> QED BY <2>1, <2>2, <2>3 DEF Init, TypeOK
<1>3. ClientInv
  BY <1>1 DEF Init, ClientInv
<1> QED BY <1>2, <1>3 DEF TypeInv

ClientNext ==
  StartRun \/ CheckResolver \/ PrepareKey \/ SendRequest \/ ReadAnswer \/ PushInfo \/ Quit
    \/ PushAccount \/ StoreUpload \/ ExpireInvite \/ NewInvite

LEMMA ClientTypes ==
  ASSUME TypeInv, ClientNext
  PROVE  TypeInv'
<1> USE DEF TypeInv, TypeOK, ClientInv, clientVars, resolver, serverVars
<1>1. CASE StartRun
  BY <1>1 DEF StartRun, Runs
<1>2. CASE CheckResolver
  BY <1>2 DEF CheckResolver
<1>3. CASE PrepareKey
  BY <1>3 DEF PrepareKey, Keys, Runs, NoKey
<1>4. CASE SendRequest
  <2>1. CASE UNCHANGED request
    BY <1>4, <2>1 DEF SendRequest, RemoveKey, NoKey, Keys
  <2>2. CASE client' = "wait" /\ UNCHANGED vault
             /\ request' = [request EXCEPT ![runs] = [pc |-> "invite", key |-> vault, reply |-> "none"]]
    <3>1. vault \in Keys /\ runs \in Runs
      BY <1>4 DEF SendRequest
    <3>2. request' \in [Runs -> Request]
      BY <2>2, <3>1, Requests
    <3>3. request'[runs].key = vault /\ \A n \in Runs \ {runs} : request'[n] = request[n]
      BY <2>2, <3>1
    <3>4. request'[runs].pc # "none"
      BY <2>2, <3>1
    <3> QED BY <1>4, <2>2, <3>1, <3>2, <3>3, <3>4 DEF SendRequest, Runs
  <2> QED BY <1>4, <2>1, <2>2 DEF SendRequest
<1>5. CASE ReadAnswer
  BY <1>5 DEF ReadAnswer, RemoveKey, NoKey, Keys
<1>6. CASE PushInfo
  BY <1>6 DEF PushInfo, UploadOK, UploadFailed, UnderWay
<1>7. CASE Quit
  BY <1>7 DEF Quit, UnderWay
<1>8. CASE PushAccount
  BY <1>8 DEF PushAccount, UploadOK, UploadFailed, UnderWay, NoKey, Keys
<1>9. CASE ExpireInvite \/ NewInvite
  BY <1>9 DEF ExpireInvite, NewInvite
<1>10. CASE StoreUpload
  BY <1>10 DEF StoreUpload
<1> QED BY <1>1, <1>2, <1>3, <1>4, <1>5, <1>6, <1>7, <1>8, <1>9, <1>10 DEF ClientNext

\* A step of the server or of a look-up, with its values in their types.
ServerStep ==
  /\ UNCHANGED <<clientVars, invite>>
  /\ request' \in [Runs -> Request] /\ store' \in [Runs -> Store] /\ account' \in Account
  /\ boxer' \in [Runs -> [Boxes -> {"off", "run", "ok", "failed"}]]
  /\ fetch' \in [Fetchers -> {"idle", "read", "make"}]
  /\ created' \in SUBSET Keys /\ disturbed' \in BOOLEAN /\ crashes' \in 0 .. MaxCrashes

LEMMA ServerTypes ==
  ASSUME TypeInv, ServerStep,
         \A k \in Runs :
           /\ request'[k].key = request[k].key
           /\ request'[k].pc = "none" <=> request[k].pc = "none"
           /\ store'[k].pc # "off" => request[k].pc # "none"
  PROVE  TypeInv'
<1>1. TypeOK'
  BY DEF TypeInv, TypeOK, ServerStep, clientVars, resolver
<1>2. ClientInv'
  <2>1. client' = client /\ vault' = vault /\ runs' = runs
    BY DEF ServerStep, clientVars
  <2>2. ASSUME NEW k \in Runs, request'[k].pc # "none"
        PROVE  /\ request'[k].key # NoKey
               /\ k <= runs'
               /\ client' \in {"lookup", "prepare", "send"} => k # runs'
    <3>1. request[k].pc # "none" /\ request'[k].key = request[k].key
      BY <2>2
    <3> QED BY <2>1, <3>1 DEF TypeInv, ClientInv
  <2>3. ASSUME NEW k \in Runs, store'[k].pc # "off"
        PROVE  request'[k].pc # "none"
    BY <2>3
  <2>4. ClientInv
    BY DEF TypeInv
  <2> QED BY <2>1, <2>2, <2>3, <2>4 DEF ClientInv
<1> QED BY <1>1, <1>2 DEF TypeInv

LEMMA HandlerTypes ==
  ASSUME TypeInv, NEW n \in Runs,
         \/ CheckInvite(n) \/ CheckExists(n) \/ MakeDirectory(n)
         \/ Wait(n) \/ Unlink(n) \/ Rmdir(n)
  PROVE  /\ TypeInv'
         /\ \E pc \in RequestPCs \ {"none"} : Moves(n, pc)
<1> USE DEF TypeInv, TypeOK
<1>1. PICK pc \in RequestPCs \ {"none"} : Moves(n, pc)
  <2>1. CASE CheckInvite(n)
    BY <2>1, GotoMoves, ReplyMoves DEF CheckInvite, RequestPCs
  <2>2. CASE CheckExists(n)
    BY <2>2, GotoMoves, ReplyMoves DEF CheckExists, RequestPCs
  <2>3. CASE MakeDirectory(n)
    BY <2>3, GotoMoves, ReplyMoves DEF MakeDirectory, RequestPCs
  <2>4. CASE Wait(n)
    BY <2>4, GotoMoves, ReplyMoves DEF Wait, RequestPCs
  <2>5. CASE Unlink(n)
    BY <2>5, GotoMoves DEF Unlink, RequestPCs
  <2>6. CASE Rmdir(n)
    BY <2>6, ReplyMoves DEF Rmdir, RequestPCs
  <2> QED BY <2>1, <2>2, <2>3, <2>4, <2>5, <2>6
<1>2. request[n].pc \notin {"none"} /\ request[n].key \in Keys
  BY Requests DEF CheckInvite, CheckExists, MakeDirectory, Wait, Unlink, Rmdir, ClientInv
<1>3. account' \in Account
  <2>1. CASE Unlink(n)
    BY <2>1, Accounts, AccountsChanged DEF Unlink
  <2>2. CASE Rmdir(n)
    BY <2>2, Accounts DEF Rmdir
  <2>3. CASE MakeDirectory(n)
    <3>1. [account EXCEPT !.there = TRUE] \in Account
      BY DEF Account
    <3> QED BY <2>3, <3>1 DEF MakeDirectory
  <2> QED BY <2>1, <2>2, <2>3 DEF CheckInvite, CheckExists, Wait
<1>4. store' \in [Runs -> Store] /\ \A k \in Runs \ {n} : store'[k].pc = store[k].pc
  <2>1. CASE MakeDirectory(n) /\ ~UNCHANGED store
    BY <2>1, StoreGotoMoves DEF MakeDirectory, StoreGoto, StoreMoves, StorePCs
  <2>2. CASE Unlink(n)
    BY <2>2, StoresChanged DEF Unlink
  <2>3. CASE UNCHANGED store
    BY <2>3
  <2> QED BY <2>1, <2>2, <2>3 DEF CheckInvite, CheckExists, MakeDirectory, Wait, Rmdir
<1>5. boxer' \in [Runs -> [Boxes -> {"off", "run", "ok", "failed"}]]
  BY DEF CheckInvite, CheckExists, MakeDirectory, Wait, Unlink, Rmdir
<1>6. created' \in SUBSET Keys /\ disturbed' \in BOOLEAN
  BY <1>2 DEF CheckInvite, CheckExists, MakeDirectory, Wait, Unlink, Rmdir
<1>7. ServerStep
  BY <1>1, <1>3, <1>4, <1>5, <1>6
     DEF ServerStep, Moves, CheckInvite, CheckExists, MakeDirectory, Wait, Unlink, Rmdir
<1>8. \A k \in Runs :
        /\ request'[k].key = request[k].key
        /\ request'[k].pc = "none" <=> request[k].pc = "none"
  BY <1>1, <1>2 DEF Moves
<1>9. \A k \in Runs : store'[k].pc # "off" => request[k].pc # "none"
  BY <1>2, <1>4 DEF ClientInv
<1> QED BY <1>1, <1>7, <1>8, <1>9, ServerTypes

\* A step of the key goroutine of request n.
LEMMA KeyTypes ==
  ASSUME TypeInv, NEW n \in Runs, StoreKey(n)
  PROVE  /\ TypeInv'
         /\ \E pc \in StorePCs : StoreMoves(n, pc)
         /\ UNCHANGED <<request, boxer, fetch, created, disturbed, crashes>>
         /\ request[n].pc # "none"
<1> USE DEF TypeInv, TypeOK
<1>1. /\ UNCHANGED <<clientVars, invite, request, boxer, fetch, created, disturbed, crashes>>
      /\ store[n].pc # "off" /\ store[n] \in Store /\ account.file \in KeyFile
  BY Accounts DEF StoreKey, TryLock, ReadKeys, MakeKeyFile, OpenKeyFile, WriteKeys, Unlock
<1>2. request[n].pc # "none" /\ request[n].key \in Keys
  BY <1>1, Requests DEF ClientInv
<1>3. KeysIn(store[n].keys \cup {request[n].key}) \in KeyFile
  BY <1>1, <1>2, KeyFiles, Stores
<1>4. PICK pc \in StorePCs : StoreMoves(n, pc)
  <2>1. CASE TryLock(n)
    BY <2>1, StoreGotoMoves DEF TryLock, StorePCs
  <2>2. CASE ReadKeys(n)
    <3>1. CASE account.file.state = "ok"
      <4> DEFINE t == [store[n] EXCEPT !.pc = "open", !.keys = account.file.keys]
      <4>1. t \in Store /\ t.pc = "open"
        BY <1>1, KeyFiles DEF Store
      <4>2. store' = [store EXCEPT ![n] = t]
        BY <2>2, <3>1 DEF ReadKeys
      <4> HIDE DEF t
      <4> QED BY <4>1, <4>2 DEF StoreMoves, StorePCs
    <3>2. CASE account.file.state # "ok"
      BY <2>2, <3>2, StoreGotoMoves DEF ReadKeys, StorePCs
    <3> QED BY <3>1, <3>2
  <2>3. CASE MakeKeyFile(n)
    BY <2>3, StoreGotoMoves DEF MakeKeyFile, StorePCs
  <2>4. CASE OpenKeyFile(n)
    <3>1. CASE StoreGoto(n, "broken")
      BY <3>1, StoreGotoMoves DEF StorePCs
    <3>2. CASE store' = [store EXCEPT ![n].pc = "write", ![n].own = TRUE]
      <4> DEFINE t == [store[n] EXCEPT !.pc = "write", !.own = TRUE]
      <4>1. t \in Store /\ t.pc = "write"
        BY <1>1, StoresChanged
      <4>2. store' = [store EXCEPT ![n] = t]
        BY <3>2
      <4> HIDE DEF t
      <4> QED BY <4>1, <4>2 DEF StoreMoves, StorePCs
    <3> QED BY <2>4, <3>1, <3>2 DEF OpenKeyFile
  <2>5. CASE WriteKeys(n)
    BY <2>5, StoreGotoMoves DEF WriteKeys, StorePCs
  <2>6. CASE Unlock(n)
    BY <2>6, Stores DEF Unlock, StoreMoves, StorePCs
  <2> QED BY <2>1, <2>2, <2>3, <2>4, <2>5, <2>6 DEF StoreKey
<1>5. account' \in Account
  <2> \A k \in KeyFile : [account EXCEPT !.file = k] \in Account
    BY DEF Account
  <2> Broken("empty") \in KeyFile /\ Broken("garbled") \in KeyFile
    BY KeyFiles
  <2>1. CASE UNCHANGED account
    BY <2>1
  <2>2. CASE TryLock(n) /\ ~UNCHANGED account
    BY <2>2, AccountsChanged DEF TryLock
  <2>3. CASE (MakeKeyFile(n) \/ OpenKeyFile(n)) /\ ~UNCHANGED account
    BY <2>3 DEF MakeKeyFile, OpenKeyFile
  <2>4. CASE WriteKeys(n) /\ ~UNCHANGED account
    <3> DEFINE new == KeysIn(store[n].keys \cup {request[n].key})
    <3>1. PICK f \in {new} \cup {Broken("garbled")} : account' = [account EXCEPT !.file = f]
      BY <2>4 DEF WriteKeys
    <3> QED BY <1>3, <3>1
  <2>5. CASE Unlock(n)
    BY <2>5, AccountsChanged DEF Unlock, Account
  <2> QED BY <2>1, <2>2, <2>3, <2>4, <2>5 DEF StoreKey, ReadKeys
<1>6. ServerStep
  BY <1>1, <1>4, <1>5 DEF ServerStep, StoreMoves
<1>7. \A k \in Runs : store'[k].pc # "off" => request[k].pc # "none"
  BY <1>2, <1>4 DEF ClientInv, StoreMoves
<1> QED BY <1>1, <1>2, <1>4, <1>6, <1>7, ServerTypes

LEMMA BoxTypes ==
  ASSUME TypeInv, NEW n \in Runs, NEW b \in Boxes, CreateBox(n, b)
  PROVE  TypeInv'
<1> USE DEF TypeInv, TypeOK
<1>1. account' \in Account
  <2>1. [account EXCEPT !.there = TRUE, !.boxes = @ \cup {b}] \in Account
    BY DEF Account
  <2> QED BY <2>1 DEF CreateBox
<1>2. boxer' \in [Runs -> [Boxes -> {"off", "run", "ok", "failed"}]]
  <2> DEFINE row(e) == [boxer[n] EXCEPT ![b] = e]
  <2>1. \A e \in {"ok", "failed"} : row(e) \in [Boxes -> {"off", "run", "ok", "failed"}]
    OBVIOUS
  <2>2. PICK e \in {"ok", "failed"} : boxer' = [boxer EXCEPT ![n] = row(e)]
    BY DEF CreateBox
  <2> HIDE DEF row
  <2> QED BY <2>1, <2>2
<1>3. ServerStep
  BY <1>1, <1>2 DEF ServerStep, CreateBox
<1> QED BY <1>3, ServerTypes DEF CreateBox, ClientInv

LEMMA FetchTypes ==
  ASSUME TypeInv, NEW f \in Fetchers, FetchExists(f) \/ FetchRead(f) \/ FetchMake(f)
  PROVE  TypeInv'
<1> USE DEF TypeInv, TypeOK
<1>1. account' \in Account
  <2>1. Broken("empty") \in KeyFile
    BY KeyFiles
  <2>2. [account EXCEPT !.file = Broken("empty")] \in Account
    BY <2>1 DEF Account
  <2> QED BY <2>2 DEF FetchExists, FetchRead, FetchMake, serverVars
<1>2. fetch' \in [Fetchers -> {"idle", "read", "make"}]
  BY DEF FetchExists, FetchRead, FetchMake
<1>3. ServerStep /\ UNCHANGED <<request, store>>
  BY <1>1, <1>2 DEF ServerStep, FetchExists, FetchRead, FetchMake, serverVars
<1> QED BY <1>3, ServerTypes DEF ClientInv

LEMMA CrashTypes ==
  ASSUME TypeInv, Crash
  PROVE  TypeInv'
<1> USE DEF TypeInv, TypeOK
<1>1. account' \in Account
  BY AccountsChanged DEF Crash, Account
<1>2. ASSUME NEW n \in Runs
      PROVE  /\ request'[n] \in Request /\ request'[n].key = request[n].key
             /\ request'[n].pc = "none" <=> request[n].pc = "none"
  <2>1. request[n] \in Request
    OBVIOUS
  <2>2. CASE request[n].pc \in {"none", "end"}
    BY <2>1, <2>2 DEF Crash
  <2>3. CASE request[n].pc \notin {"none", "end"}
    <3>1. request'[n] = [request[n] EXCEPT !.pc = "end", !.reply = "refused"]
      BY <2>3 DEF Crash
    <3> QED BY <2>1, <2>3, <3>1 DEF Request
  <2> QED BY <2>2, <2>3
<1>3. request' \in [Runs -> Request]
  BY <1>2 DEF Crash
<1>4. store' \in [Runs -> Store] /\ \A n \in Runs : store'[n].pc = "off"
  BY Stores DEF Crash
<1>5. crashes' \in 0 .. MaxCrashes
  <2>1. crashes \in 0 .. MaxCrashes /\ crashes < MaxCrashes /\ crashes' = crashes + 1
    BY DEF Crash
  <2> HIDE DEF TypeInv, TypeOK
  <2> QED BY <2>1
<1>6. ServerStep
  BY <1>1, <1>3, <1>4, <1>5 DEF ServerStep, Crash
<1> QED BY <1>2, <1>4, <1>6, ServerTypes

LEMMA StepTypes == TypeInv /\ [Next]_vars => TypeInv'
<1> SUFFICES ASSUME TypeInv, [Next]_vars PROVE TypeInv'
  OBVIOUS
<1>1. CASE UNCHANGED vars
  BY <1>1 DEF vars, resolver, TypeInv, TypeOK, ClientInv
<1>2. CASE ClientNext
  BY <1>2, ClientTypes
<1>3. ASSUME NEW n \in Runs, CreateAccount(n) PROVE TypeInv'
  BY <1>3, HandlerTypes, KeyTypes, BoxTypes DEF CreateAccount
<1>4. ASSUME NEW f \in Fetchers, FetchExists(f) \/ FetchRead(f) \/ FetchMake(f) PROVE TypeInv'
  BY <1>4, FetchTypes
<1>5. CASE Crash
  BY <1>5, CrashTypes
<1> QED BY <1>1, <1>2, <1>3, <1>4, <1>5 DEF Next, ClientNext

\* Every variable has its type, in every reachable state.
THEOREM TypeCorrect == Spec => []TypeOK
<1>1. TypeInv => TypeOK
  BY DEF TypeInv
<1> QED BY <1>1, InitTypes, StepTypes, PTL DEF Spec

-----------------------------------------------------------------------------
(***************************************************************************)
(* The key of the user.                                                    *)
(***************************************************************************)
\* The server never touches what the client knows.
LEMMA ServerKeepsClient ==
  ASSUME [Next]_vars, ~ClientNext
  PROVE  UNCHANGED clientVars
<1>1. CASE UNCHANGED vars
  BY <1>1 DEF vars, clientVars
<1>2. ASSUME NEW n \in Runs, CreateAccount(n) PROVE UNCHANGED clientVars
  BY <1>2 DEF CreateAccount, CheckInvite, CheckExists, MakeDirectory, StoreKey, TryLock, ReadKeys,
              MakeKeyFile, OpenKeyFile, WriteKeys, Unlock, CreateBox, Wait, Unlink, Rmdir
<1>3. ASSUME NEW f \in Fetchers, FetchExists(f) \/ FetchRead(f) \/ FetchMake(f)
      PROVE  UNCHANGED clientVars
  BY <1>3 DEF FetchExists, FetchRead, FetchMake
<1>4. CASE Crash
  BY <1>4 DEF Crash
<1> QED BY <1>1, <1>2, <1>3, <1>4 DEF Next, ClientNext

LEMMA StepKeys ==
  ASSUME "lookup" \notin Faults, ClientInv, KeyInv, [Next]_vars
  PROVE  KeyInv'
<1> USE DEF KeyInv, RegisteredKeyIsHeld, NoKey, resolver
<1>1. CASE ~ClientNext
  BY <1>1, ServerKeepsClient DEF clientVars
<1>2. CASE StartRun
  BY <1>2 DEF StartRun
<1>3. CASE CheckResolver
  BY <1>3 DEF CheckResolver
<1>4. CASE PrepareKey
  BY <1>4 DEF PrepareKey
<1>5. CASE SendRequest
  BY <1>5 DEF SendRequest, RemoveKey
<1>6. CASE ReadAnswer
  BY <1>6 DEF ReadAnswer, RemoveKey
<1>7. CASE PushInfo
  BY <1>7 DEF PushInfo, UploadOK, UploadFailed, UnderWay, ClientInv
<1>8. CASE PushAccount
  BY <1>8 DEF PushAccount, UploadOK, UploadFailed, UnderWay
<1>9. CASE Quit \/ ExpireInvite \/ NewInvite
  BY <1>9 DEF Quit, UnderWay, ExpireInvite, NewInvite, clientVars
<1>10. CASE StoreUpload
  BY <1>10 DEF StoreUpload
<1> QED BY <1>1, <1>2, <1>3, <1>4, <1>5, <1>6, <1>7, <1>8, <1>9, <1>10 DEF ClientNext

\* As long as the resolver can be asked, the key that the world learns for an
\* address is one the user still has, but for one that the resolver got after
\* its client had ended: the run that pushes it has looked the address up first,
\* and while a run may still drop its key nothing else is registered
\* (CreateAccount, cmd/bm-client/handlers/create_account.go).
THEOREM RegisteredIsHeld ==
  ASSUME "lookup" \notin Faults
  PROVE  Spec => []RegisteredKeyIsHeld
<1>1. Init => TypeInv /\ KeyInv
  BY InitTypes DEF Init, KeyInv, RegisteredKeyIsHeld
<1>2. TypeInv /\ KeyInv /\ [Next]_vars => (TypeInv /\ KeyInv)'
  BY StepTypes, StepKeys DEF TypeInv
<1>3. KeyInv => RegisteredKeyIsHeld
  BY DEF KeyInv
<1> QED BY <1>1, <1>2, <1>3, PTL DEF Spec

-----------------------------------------------------------------------------
(***************************************************************************)
(* The account, as long as no creation was disturbed.                      *)
(***************************************************************************)
Good == ~disturbed /\ Calm /\ CreatedIsComplete /\ RolledBack

Outside == {"none", "invite", "exists", "end"}

LEMMA ActiveMoves ==
  ASSUME NEW n \in Runs, NEW pc, Moves(n, pc)
  PROVE  /\ pc \in Outside => Active' = Active \ {n}
         /\ pc \notin Outside => Active' = Active \cup {n}
  BY DEF Moves, Active, Outside

LEMMA Single ==
  ASSUME Good, NEW n \in Active
  PROVE  /\ Active = {n} /\ n \in Runs /\ Stage(n)
         /\ created = {} /\ \A f \in Fetchers : fetch[f] = "idle"
         /\ \A k \in Runs \ {n} : Resting(k)
  BY DEF Good, Calm, Alone, Active

\* Only the goroutines of a request that is creating are at work.
LEMMA AtWork ==
  ASSUME TypeInv, Good, NEW n \in Runs, ~Resting(n)
  PROVE  n \in Active /\ request[n].pc = "create"
<1>1. n \in Active
  BY DEF Good, Calm
<1>2. Stage(n)
  BY <1>1, Single
<1>3. request[n].pc \in RequestPCs
  BY Requests DEF TypeInv, TypeOK
<1> QED BY <1>1, <1>2, <1>3 DEF Active, Stage, RequestPCs

\* A step before the creation, or after it, of the client or of a handler.
LEMMA OutsideKeeps ==
  ASSUME Good, UNCHANGED <<account, store, boxer, fetch, created, disturbed, crashes>>,
         \A k \in Runs :
           request'[k] = request[k] \/ (request[k].pc \in Outside /\ request'[k].pc \in Outside)
  PROVE  Good'
<1>1. Active' = Active /\ \A k \in Active : request'[k] = request[k]
  BY DEF Active, Outside
<1>2. \A k \in Runs : Resting(k)' <=> Resting(k)
  BY DEF Resting
<1>3. \A k \in Active : Stage(k)' <=> Stage(k)
  BY <1>1, <1>2 DEF Stage, KeyStage, Active
<1> QED BY <1>1, <1>2, <1>3 DEF Good, Calm, Alone, CreatedIsComplete, RolledBack

LEMMA CheckExistsKeeps ==
  ASSUME TypeInv, Good, NEW n \in Runs, CheckExists(n), ~disturbed'
  PROVE  Good'
<1>1. CASE account.there
  <2>1. Moves(n, "end")
    BY <1>1, ReplyMoves DEF CheckExists, TypeInv, TypeOK
  <2> QED BY <1>1, <2>1, OutsideKeeps DEF CheckExists, Moves, Outside
<1>2. CASE ~account.there
  <2>1. Moves(n, "mkdir") /\ request'[n].pc = "mkdir"
    BY <1>2, GotoMoves DEF CheckExists, TypeInv, TypeOK, RequestPCs, Moves
  <2>2. Active = {} /\ \A f \in Fetchers : fetch[f] = "idle"
    BY <1>2 DEF CheckExists
  <2>3. Active' = {n}
    BY <2>1, <2>2, ActiveMoves DEF Outside
  <2>4. UNCHANGED <<account, store, boxer, fetch, created, crashes>>
    BY <1>2 DEF CheckExists
  <2>5. account = NoAccount /\ created = {}
    BY <1>2 DEF Good, Calm, CreatedIsComplete
  <2>6. \A k \in Runs : Resting(k)'
    BY <2>2, <2>4 DEF Good, Calm, Resting
  <2>7. Stage(n)'
    BY <2>1, <2>4, <2>5, <2>6 DEF Stage
  <2>8. Alone'
    BY <2>2, <2>3, <2>4, <2>5 DEF Alone
  <2>9. CreatedIsComplete' /\ RolledBack'
    BY <1>2, <2>4, <2>5 DEF CreatedIsComplete, RolledBack
  <2> QED BY <2>3, <2>4, <2>5, <2>6, <2>7, <2>8, <2>9 DEF Good, Calm
<1> QED BY <1>1, <1>2

LEMMA MakeDirectoryKeeps ==
  ASSUME TypeInv, Good, NEW n \in Runs, MakeDirectory(n)
  PROVE  Good'
<1>1. n \in Active /\ request[n].pc = "mkdir"
  BY DEF MakeDirectory, Active
<1>2. account = NoAccount /\ Resting(n)
  BY <1>1, Single DEF Stage
<1>3. UNCHANGED <<fetch, created, disturbed, crashes>>
  BY DEF MakeDirectory
<1>4. CASE Reply(n, "refused") /\ UNCHANGED <<account, store, boxer>>
  <2>1. Moves(n, "end")
    BY <1>4, ReplyMoves DEF TypeInv, TypeOK
  <2>2. Active' = {}
    BY <1>1, <2>1, Single, ActiveMoves DEF Outside
  <2>3. \A k \in Runs : Resting(k)'
    BY <1>1, <1>2, <1>4, Single DEF Resting
  <2>4. CreatedIsComplete' /\ RolledBack'
    BY <1>1, <1>2, <1>3, <1>4, Accounts, Single DEF CreatedIsComplete, RolledBack
  <2> QED BY <1>1, <1>3, <1>4, <2>2, <2>3, <2>4, Single DEF Good, Calm, Alone
<1>5. CASE /\ account' = [account EXCEPT !.there = TRUE]
           /\ StoreGoto(n, "lock")
           /\ boxer' = [boxer EXCEPT ![n] = [b \in Boxes |-> "run"]]
           /\ Goto(n, "create")
  <2>1. Moves(n, "create") /\ StoreMoves(n, "lock")
    BY <1>5, GotoMoves, StoreGotoMoves DEF TypeInv, TypeOK, RequestPCs, StorePCs
  <2>2. Active' = {n}
    BY <1>1, <2>1, Single, ActiveMoves DEF Outside
  <2>3. \A k \in Runs \ {n} : Resting(k)'
    BY <1>1, <1>5, <2>1, Single DEF Resting, StoreMoves, TypeInv, TypeOK
  <2>4. account'.there /\ account'.file = Broken("none")
    BY <1>2, <1>5, Accounts DEF Account
  <2>5. \A b \in Boxes : boxer'[n][b] = "run"
    BY <1>5 DEF TypeInv, TypeOK
  <2>6. Stage(n)'
    BY <2>1, <2>4, <2>5 DEF Stage, KeyStage, Moves, StoreMoves
  <2>7. CreatedIsComplete' /\ RolledBack'
    BY <1>1, <1>3, <2>2, Single DEF CreatedIsComplete, RolledBack
  <2> QED BY <1>1, <1>3, <2>2, <2>3, <2>4, <2>6, <2>7, Single DEF Good, Calm, Alone
<1> QED BY <1>4, <1>5 DEF MakeDirectory, StoreGoto

\* A goroutine of the only creation has made a step.
LEMMA CreatingKeeps ==
  ASSUME Good, NEW n \in Active, request[n].pc = "create",
         UNCHANGED <<request, fetch, created, disturbed, crashes>>,
         account'.there, KeyStage(n)',
         \A b \in Boxes : boxer'[n][b] = "ok" => b \in account'.boxes,
         \A k \in Runs \ {n} : store'[k] = store[k] /\ boxer'[k] = boxer[k]
  PROVE  Good'
<1>1. Active' = {n}
  BY Single DEF Active
<1>2. \A k \in Runs \ {n} : Resting(k)'
  BY Single DEF Resting
<1>3. Stage(n)'
  BY DEF Stage
<1>4. Alone'
  BY <1>1, Single DEF Alone
<1>5. CreatedIsComplete' /\ RolledBack'
  BY <1>1, Single DEF CreatedIsComplete, RolledBack
<1> QED BY <1>1, <1>2, <1>3, <1>4, <1>5 DEF Good, Calm

LEMMA StoreKeyKeeps ==
  ASSUME TypeInv, Good, NEW n \in Runs, StoreKey(n)
  PROVE  Good'
<1> USE KeyFiles
<1>1. ~Resting(n)
  BY DEF StoreKey, TryLock, ReadKeys, MakeKeyFile, OpenKeyFile, WriteKeys, Unlock, Resting
<1>2. n \in Active /\ request[n].pc = "create"
  BY <1>1, AtWork
<1>3. /\ account.there /\ KeyStage(n)
      /\ \A b \in Boxes : boxer[n][b] = "ok" => b \in account.boxes
  BY <1>2, Single DEF Stage
<1>4. PICK pc \in StorePCs : StoreMoves(n, pc)
  BY KeyTypes
<1>5. UNCHANGED <<request, boxer, fetch, created, disturbed, crashes>>
  BY KeyTypes
<1>6. account'.there /\ account'.boxes = account.boxes /\ KeyStage(n)'
  <2> store \in [Runs -> Store] /\ account \in Account /\ account.file \in KeyFile
    BY Accounts DEF TypeInv, TypeOK
  <2>1. CASE TryLock(n)
    <3>1. account'.there /\ account'.boxes = account.boxes /\ account'.file = account.file
      BY <1>3, <2>1 DEF TryLock, Account
    <3>2. store[n].pc = "lock" /\ (StoreGoto(n, "read") \/ StoreGoto(n, "failed"))
      BY <2>1 DEF TryLock
    <3>3. store'[n].pc \in {"read", "failed"}
      BY <3>2, StoreGotoMoves DEF StoreMoves, StorePCs
    <3> QED BY <1>3, <3>1, <3>2, <3>3 DEF KeyStage
  <2>2. CASE ReadKeys(n)
    <3>1. store[n].pc = "read" /\ account.file.state = "none"
      BY <1>3, <2>2 DEF ReadKeys, KeyStage
    <3>2. StoreGoto(n, "make") /\ UNCHANGED account
      BY <2>2, <3>1 DEF ReadKeys
    <3>3. store'[n].pc = "make"
      BY <3>2, StoreGotoMoves DEF StoreMoves, StorePCs
    <3> QED BY <1>3, <3>1, <3>2, <3>3 DEF KeyStage
  <2>3. CASE MakeKeyFile(n)
    <3>1. CASE account' = [account EXCEPT !.file = Broken("empty")] /\ StoreGoto(n, "open")
      <4>1. store'[n].pc = "open"
        BY <3>1, StoreGotoMoves DEF StoreMoves, StorePCs
      <4>2. account'.there /\ account'.boxes = account.boxes /\ account'.file = Broken("empty")
        BY <1>3, <3>1 DEF Account
      <4> QED BY <4>1, <4>2 DEF KeyStage
    <3>2. CASE UNCHANGED account /\ StoreGoto(n, "broken")
      <4>1. store'[n].pc = "broken"
        BY <3>2, StoreGotoMoves DEF StoreMoves, StorePCs
      <4> QED BY <1>3, <3>2, <4>1 DEF KeyStage
    <3> QED BY <2>3, <3>1, <3>2 DEF MakeKeyFile
  <2>4. CASE OpenKeyFile(n)
    <3>1. CASE /\ account' = [account EXCEPT !.file = Broken("empty")]
               /\ store' = [store EXCEPT ![n].pc = "write", ![n].own = TRUE]
      <4>1. store'[n].pc = "write" /\ store'[n].own
        BY <3>1 DEF Store
      <4>2. account'.there /\ account'.boxes = account.boxes /\ account'.file = Broken("empty")
        BY <1>3, <3>1 DEF Account
      <4> QED BY <4>1, <4>2 DEF KeyStage
    <3>2. CASE UNCHANGED account /\ StoreGoto(n, "broken")
      <4>1. store'[n].pc = "broken"
        BY <3>2, StoreGotoMoves DEF StoreMoves, StorePCs
      <4> QED BY <1>3, <3>2, <4>1 DEF KeyStage
    <3> QED BY <2>4, <3>1, <3>2 DEF OpenKeyFile
  <2>5. CASE WriteKeys(n)
    <3> DEFINE new == KeysIn(store[n].keys \cup {request[n].key})
    <3>1. store[n].pc = "write" /\ store[n].own /\ account.file.state = "empty"
      BY <1>3, <2>5 DEF WriteKeys, KeyStage
    <3>2. CASE account' = [account EXCEPT !.file = new] /\ StoreGoto(n, "stored")
      <4>1. store'[n].pc = "stored"
        BY <3>2, StoreGotoMoves DEF StoreMoves, StorePCs
      <4>2. account'.there /\ account'.boxes = account.boxes /\ account'.file = new
        BY <1>3, <3>2 DEF Account
      <4>3. new.state = "ok" /\ request[n].key \in new.keys
        OBVIOUS
      <4> QED BY <1>5, <4>1, <4>2, <4>3 DEF KeyStage
    <3>3. CASE UNCHANGED account /\ StoreGoto(n, "broken")
      <4>1. store'[n].pc = "broken"
        BY <3>3, StoreGotoMoves DEF StoreMoves, StorePCs
      <4> QED BY <1>3, <3>3, <4>1 DEF KeyStage
    <3> QED BY <2>5, <3>1, <3>2, <3>3 DEF WriteKeys
  <2>6. CASE Unlock(n)
    <3>1. account'.there /\ account'.boxes = account.boxes /\ account'.file = account.file
      BY <1>3, <2>6 DEF Unlock, Account
    <3>2. store'[n].pc = IF store[n].pc = "stored" THEN "ok" ELSE "failed"
      BY <2>6 DEF Unlock, NoStore
    <3> QED BY <1>3, <1>5, <3>1, <3>2 DEF KeyStage
  <2> QED BY <2>1, <2>2, <2>3, <2>4, <2>5, <2>6 DEF StoreKey
<1>7. \A k \in Runs \ {n} : store'[k] = store[k] /\ boxer'[k] = boxer[k]
  BY <1>4, <1>5 DEF StoreMoves
<1> QED BY <1>2, <1>3, <1>5, <1>6, <1>7, CreatingKeeps

LEMMA CreateBoxKeeps ==
  ASSUME TypeInv, Good, NEW n \in Runs, NEW b \in Boxes, CreateBox(n, b)
  PROVE  Good'
<1>1. ~Resting(n)
  BY DEF CreateBox, Resting
<1>2. n \in Active /\ request[n].pc = "create"
  BY <1>1, AtWork
<1>3. /\ account.there /\ KeyStage(n)
      /\ \A c \in Boxes : boxer[n][c] = "ok" => c \in account.boxes
  BY <1>2, Single DEF Stage
<1>4. UNCHANGED <<request, store, fetch, created, disturbed, crashes>>
  BY DEF CreateBox
<1>5. /\ account'.there /\ account'.file = account.file
      /\ \A c \in Boxes : boxer'[n][c] = "ok" => c \in account'.boxes
  <2> account \in Account /\ boxer[n] \in [Boxes -> {"off", "run", "ok", "failed"}]
    BY DEF TypeInv, TypeOK
  <2>1. CASE /\ account' = [account EXCEPT !.there = TRUE, !.boxes = @ \cup {b}]
             /\ boxer' = [boxer EXCEPT ![n][b] = "ok"]
    <3>1. /\ account'.there /\ account'.file = account.file
          /\ account'.boxes = account.boxes \cup {b}
      BY <2>1 DEF Account
    <3>2. \A c \in Boxes \ {b} : boxer'[n][c] = boxer[n][c]
      BY <2>1 DEF TypeInv, TypeOK
    <3> QED BY <1>3, <3>1, <3>2
  <2>2. CASE UNCHANGED account /\ boxer' = [boxer EXCEPT ![n][b] = "failed"]
    <3>1. \A c \in Boxes : boxer'[n][c] = "ok" => boxer[n][c] = "ok"
      BY <2>2 DEF TypeInv, TypeOK
    <3> QED BY <1>3, <2>2, <3>1
  <2> QED BY <2>1, <2>2 DEF CreateBox
<1>6. KeyStage(n)'
  BY <1>3, <1>4, <1>5 DEF KeyStage
<1>7. \A k \in Runs \ {n} : store'[k] = store[k] /\ boxer'[k] = boxer[k]
  BY <1>4 DEF CreateBox, TypeInv, TypeOK
<1> QED BY <1>2, <1>4, <1>5, <1>6, <1>7, CreatingKeeps

LEMMA WaitKeeps ==
  ASSUME TypeInv, Good, NEW n \in Runs, Wait(n)
  PROVE  Good'
<1>1. n \in Active /\ request[n].pc = "create"
  BY DEF Wait, Active
<1>2. /\ account.there /\ KeyStage(n)
      /\ \A b \in Boxes : boxer[n][b] = "ok" => b \in account.boxes
  BY <1>1, Single DEF Stage
<1>3. UNCHANGED <<account, store, boxer, fetch, disturbed, crashes>>
  BY DEF Wait
<1>4. \A k \in Runs : Resting(k)'
  BY <1>1, <1>3, Single DEF Resting, Wait
<1>5. CASE Succeeded(n) /\ Reply(n, "created") /\ created' = created \cup {request[n].key}
  <2>1. Moves(n, "end")
    BY <1>5, ReplyMoves DEF TypeInv, TypeOK
  <2>2. Active' = {}
    BY <1>1, <2>1, Single, ActiveMoves DEF Outside
  <2>3. created' = {request[n].key}
    BY <1>1, <1>5, Single
  <2>4. account.boxes = Boxes
    BY <1>2, <1>5, Accounts DEF Succeeded, TypeInv, TypeOK
  <2>5. account.file.state = "ok" /\ request[n].key \in account.file.keys
    BY <1>2, <1>5 DEF KeyStage, Succeeded
  <2>6. CreatedIsComplete' /\ RolledBack'
    BY <1>2, <1>3, <2>3, <2>4, <2>5 DEF CreatedIsComplete, RolledBack
  <2>7. Alone'
    BY <1>1, <1>3, <2>2, Single DEF Alone
  <2> QED BY <1>2, <1>3, <1>4, <2>2, <2>6, <2>7 DEF Good, Calm
<1>6. CASE Failed(n) /\ Goto(n, "unlink") /\ UNCHANGED created
  <2>1. Moves(n, "unlink")
    BY <1>6, GotoMoves DEF TypeInv, TypeOK, RequestPCs
  <2>2. Active' = {n}
    BY <1>1, <2>1, Single, ActiveMoves DEF Outside
  <2>3. Stage(n)'
    BY <1>2, <1>3, <1>4, <2>1 DEF Stage, Moves
  <2>4. CreatedIsComplete' /\ RolledBack'
    BY <1>1, <1>6, <2>2, Single DEF CreatedIsComplete, RolledBack
  <2>5. Alone'
    BY <1>1, <1>3, <1>6, <2>2, Single DEF Alone
  <2> QED BY <1>2, <1>3, <1>4, <2>2, <2>3, <2>4, <2>5 DEF Good, Calm
<1> QED BY <1>5, <1>6 DEF Wait

LEMMA UnlinkKeeps ==
  ASSUME TypeInv, Good, NEW n \in Runs, Unlink(n)
  PROVE  Good'
<1>1. n \in Active /\ request[n].pc = "unlink"
  BY DEF Unlink, Active
<1>2. account.there /\ Resting(n)
  BY <1>1, Single DEF Stage
<1>3. Moves(n, "rmdir")
  BY GotoMoves DEF Unlink, TypeInv, TypeOK, RequestPCs
<1>4. Active' = {n}
  BY <1>1, <1>3, Single, ActiveMoves DEF Outside
<1>5. account' = [NoAccount EXCEPT !.there = TRUE] /\ account'.there
  BY <1>2, Accounts DEF Unlink, Account
<1>6. UNCHANGED <<boxer, fetch, created, disturbed, crashes>>
  BY DEF Unlink
<1>7. \A k \in Runs : store'[k].pc = store[k].pc
  BY StoresChanged DEF Unlink, TypeInv, TypeOK
<1>8. \A k \in Runs : Resting(k)'
  BY <1>1, <1>2, <1>6, <1>7, Single DEF Resting
<1>9. Stage(n)'
  BY <1>3, <1>5, <1>8 DEF Stage, Moves
<1>10. CreatedIsComplete' /\ RolledBack'
  BY <1>1, <1>4, <1>6, Single DEF CreatedIsComplete, RolledBack
<1>11. Alone'
  BY <1>1, <1>4, <1>6, Single DEF Alone
<1> QED BY <1>4, <1>5, <1>6, <1>8, <1>9, <1>10, <1>11 DEF Good, Calm

LEMMA RmdirKeeps ==
  ASSUME TypeInv, Good, NEW n \in Runs, Rmdir(n)
  PROVE  Good'
<1>1. n \in Active /\ request[n].pc = "rmdir"
  BY DEF Rmdir, Active
<1>2. account' = NoAccount /\ Resting(n)
  BY <1>1, Single DEF Stage, Rmdir
<1>3. UNCHANGED <<store, boxer, fetch, created, disturbed, crashes>> /\ Moves(n, "end")
  BY ReplyMoves DEF Rmdir, TypeInv, TypeOK
<1>4. Active' = {}
  BY <1>1, <1>3, Single, ActiveMoves DEF Outside
<1>5. \A k \in Runs : Resting(k)'
  BY <1>1, <1>2, <1>3, Single DEF Resting
<1>6. CreatedIsComplete' /\ RolledBack' /\ Alone'
  BY <1>1, <1>2, <1>3, <1>4, Accounts, Single DEF CreatedIsComplete, RolledBack, Alone
<1> QED BY <1>2, <1>3, <1>4, <1>5, <1>6 DEF Good, Calm

LEMMA FetchKeeps ==
  ASSUME TypeInv, Good, NEW f \in Fetchers,
         FetchExists(f) \/ FetchRead(f) \/ FetchMake(f), ~disturbed'
  PROVE  Good'
<1>1. Active = {}
  BY DEF FetchExists, FetchRead, FetchMake, Good, Calm, Alone
<1>2. UNCHANGED <<request, store, boxer, created, crashes>>
  BY DEF FetchExists, FetchRead, FetchMake, serverVars
<1>3. Active' = {} /\ \A k \in Runs : Resting(k)'
  BY <1>1, <1>2 DEF Active, Resting, Good, Calm
<1>4. (\E g \in Fetchers : fetch'[g] = "make") => created' = {}
  <2>1. CASE FetchRead(f)
    <3>1. \A g \in Fetchers \ {f} : fetch'[g] = fetch[g]
      BY <2>1 DEF FetchRead, TypeInv, TypeOK
    <3>2. fetch'[f] = "make" => account.file.state = "none"
      BY <2>1 DEF FetchRead, TypeInv, TypeOK
    <3>3. account.file.state = "none" => created = {}
      BY DEF Good, CreatedIsComplete
    <3> QED BY <1>2, <3>1, <3>2, <3>3 DEF Good, Calm, Alone
  <2>2. CASE FetchExists(f) \/ FetchMake(f)
    <3>1. \A g \in Fetchers : fetch'[g] = "make" => fetch[g] = "make"
      BY <2>2 DEF FetchExists, FetchMake, TypeInv, TypeOK
    <3> QED BY <1>2, <3>1 DEF Good, Calm, Alone
  <2> QED BY <2>1, <2>2
<1>5. /\ account'.there = account.there
      /\ ~account.there => account' = account
      /\ created # {} => account' = account
  <2>1. CASE FetchMake(f)
    BY <2>1, Accounts DEF FetchMake, Good, Calm, Alone, TypeInv, TypeOK, Account
  <2>2. CASE FetchExists(f) \/ FetchRead(f)
    BY <2>2 DEF FetchExists, FetchRead, serverVars
  <2> QED BY <2>1, <2>2
<1>6. CreatedIsComplete' /\ RolledBack' /\ Alone'
  BY <1>1, <1>2, <1>3, <1>4, <1>5 DEF Good, CreatedIsComplete, RolledBack, Alone
<1> QED BY <1>3, <1>5, <1>6 DEF Good, Calm

LEMMA CrashKeeps ==
  ASSUME TypeInv, Good, Crash
  PROVE  Good'
<1>1. UNCHANGED <<created, disturbed>> /\ crashes' > 0
  <2>1. crashes \in 0 .. MaxCrashes /\ crashes' = crashes + 1
    BY DEF Crash, TypeInv, TypeOK
  <2>2. crashes' > 0
    BY <2>1
  <2> QED BY <2>2 DEF Crash
<1>2. /\ account'.there = account.there /\ account'.boxes = account.boxes
      /\ account'.file = account.file
  BY DEF Crash, TypeInv, TypeOK, Account
<1>3. ~account.there => account' = NoAccount
  BY Accounts DEF Crash, Good, Calm, NoAccount
<1>4. ASSUME NEW k \in Runs PROVE request'[k].pc \in {"none", "end"}
  <2>1. request[k] \in Request
    BY DEF TypeInv, TypeOK
  <2>2. CASE request[k].pc \in {"none", "end"}
    BY <2>2 DEF Crash
  <2>3. CASE request[k].pc \notin {"none", "end"}
    <3>1. request'[k] = [request[k] EXCEPT !.pc = "end", !.reply = "refused"]
      BY <2>3 DEF Crash
    <3> QED BY <2>1, <3>1 DEF Request
  <2> QED BY <2>2, <2>3
<1>5. Active' = {}
  BY <1>4 DEF Active
<1>6. \A k \in Runs : Resting(k)'
  BY Stores DEF Crash, Resting
<1>7. \A f \in Fetchers : fetch'[f] = "idle"
  BY DEF Crash
<1>8. CreatedIsComplete' /\ RolledBack' /\ Alone'
  BY <1>1, <1>2, <1>5, <1>7 DEF Good, CreatedIsComplete, RolledBack, Alone
<1> QED BY <1>1, <1>2, <1>3, <1>5, <1>6, <1>8 DEF Good, Calm

LEMMA ClientKeeps ==
  ASSUME TypeInv, Good, ClientNext
  PROVE  Good'
<1>1. UNCHANGED <<account, store, boxer, fetch, created, disturbed, crashes>>
  BY DEF ClientNext, StartRun, CheckResolver, PrepareKey, SendRequest, ReadAnswer, PushInfo, Quit,
         PushAccount, StoreUpload, ExpireInvite, NewInvite, serverVars
<1>2. CASE UNCHANGED request
  BY <1>1, <1>2, OutsideKeeps
<1>3. CASE SendRequest /\ ~UNCHANGED request
  <2>1. request[runs].pc = "none" /\ runs \in Runs
    BY <1>3 DEF SendRequest, TypeInv, ClientInv
  <2>2. request' = [request EXCEPT ![runs] = [pc |-> "invite", key |-> vault, reply |-> "none"]]
    BY <1>3 DEF SendRequest
  <2>3. request'[runs].pc = "invite" /\ \A k \in Runs \ {runs} : request'[k] = request[k]
    BY <2>1, <2>2 DEF TypeInv, TypeOK
  <2> QED BY <1>1, <2>1, <2>3, OutsideKeeps DEF Outside
<1> QED BY <1>2, <1>3 DEF ClientNext, StartRun, CheckResolver, PrepareKey, ReadAnswer, PushInfo, Quit,
                          PushAccount, StoreUpload, ExpireInvite, NewInvite, serverVars

LEMMA DisturbedStays ==
  ASSUME [Next]_vars, disturbed
  PROVE  disturbed'
<1>1. CASE ClientNext \/ UNCHANGED vars
  BY <1>1 DEF ClientNext, StartRun, CheckResolver, PrepareKey, SendRequest, ReadAnswer, PushInfo,
              Quit, PushAccount, StoreUpload, ExpireInvite, NewInvite, vars
<1>2. ASSUME NEW n \in Runs, CreateAccount(n) PROVE disturbed'
  BY <1>2 DEF CreateAccount, CheckInvite, CheckExists, MakeDirectory, StoreKey, TryLock, ReadKeys,
              MakeKeyFile, OpenKeyFile, WriteKeys, Unlock, CreateBox, Wait, Unlink, Rmdir
<1>3. ASSUME NEW f \in Fetchers, FetchExists(f) \/ FetchRead(f) \/ FetchMake(f)
      PROVE  disturbed'
  BY <1>3 DEF FetchExists, FetchRead, FetchMake
<1>4. CASE Crash
  BY <1>4 DEF Crash
<1> QED BY <1>1, <1>2, <1>3, <1>4 DEF Next, ClientNext

LEMMA StepServer ==
  ASSUME TypeInv, ServerInv, [Next]_vars
  PROVE  ServerInv'
<1> SUFFICES ASSUME ~disturbed' PROVE Good'
  BY DEF ServerInv, Good
<1>1. Good
  BY DisturbedStays DEF ServerInv, Good
<1>2. CASE UNCHANGED vars
  <2>1. UNCHANGED <<request, account, store, boxer, fetch, created, disturbed, crashes>>
    BY <1>2 DEF vars
  <2> QED BY <1>1, <2>1, OutsideKeeps
<1>3. CASE ClientNext
  BY <1>1, <1>3, ClientKeeps
<1>4. ASSUME NEW n \in Runs, CreateAccount(n) PROVE Good'
  <2>1. CASE CheckInvite(n)
    <3>1. UNCHANGED <<account, store, boxer, fetch, created, disturbed, crashes>>
      BY <2>1 DEF CheckInvite
    <3>2. Moves(n, "exists") \/ Moves(n, "end")
      BY <2>1, GotoMoves, ReplyMoves DEF CheckInvite, TypeInv, TypeOK, RequestPCs
    <3> QED BY <1>1, <2>1, <3>1, <3>2, OutsideKeeps DEF CheckInvite, Moves, Outside
  <2>2. CASE CheckExists(n)
    BY <1>1, <2>2, CheckExistsKeeps
  <2>3. CASE MakeDirectory(n)
    BY <1>1, <2>3, MakeDirectoryKeeps
  <2>4. CASE StoreKey(n)
    BY <1>1, <2>4, StoreKeyKeeps
  <2>5. ASSUME NEW b \in Boxes, CreateBox(n, b) PROVE Good'
    BY <1>1, <2>5, CreateBoxKeeps
  <2>6. CASE Wait(n)
    BY <1>1, <2>6, WaitKeeps
  <2>7. CASE Unlink(n)
    BY <1>1, <2>7, UnlinkKeeps
  <2>8. CASE Rmdir(n)
    BY <1>1, <2>8, RmdirKeeps
  <2> QED BY <1>4, <2>1, <2>2, <2>3, <2>4, <2>5, <2>6, <2>7, <2>8 DEF CreateAccount
<1>5. ASSUME NEW f \in Fetchers, FetchExists(f) \/ FetchRead(f) \/ FetchMake(f) PROVE Good'
  BY <1>1, <1>5, FetchKeeps
<1>6. CASE Crash
  BY <1>1, <1>6, CrashKeeps
<1> QED BY <1>2, <1>3, <1>4, <1>5, <1>6 DEF Next, ClientNext

LEMMA ServerAlways == Spec => [](TypeInv /\ ServerInv)
<1>1. Init => ServerInv
  <2> SUFFICES ASSUME Init PROVE Good
    BY DEF ServerInv, Good
  <2>1. Active = {}
    BY Requests DEF Init, Active
  <2>2. \A n \in Runs : Resting(n)
    BY Stores DEF Init, Resting
  <2> QED BY <2>1, <2>2, Accounts DEF Init, Good, Calm, Alone, CreatedIsComplete, RolledBack
<1>2. TypeInv /\ ServerInv /\ [Next]_vars => (TypeInv /\ ServerInv)'
  BY StepTypes, StepServer
<1> QED BY <1>1, <1>2, InitTypes, PTL DEF Spec

\* An account that was reported as created has all its boxes and its key
\* (fileRepo.Create, whose errgroup waits for the boxes and for StoreKey),
\* unless another creation or a look-up came in between.
THEOREM CreatedStaysComplete == Spec => []CreatedIsComplete
<1>1. ServerInv => CreatedIsComplete
  BY DEF ServerInv, CreatedIsComplete
<1> QED BY <1>1, ServerAlways, PTL

\* A creation that failed leaves no directory behind (the roll-back of
\* fileRepo.Create), unless it was disturbed or the server died in it.
THEOREM FailedIsRolledBack == Spec => []RolledBack
<1>1. ServerInv => RolledBack
  BY DEF ServerInv, RolledBack
<1> QED BY <1>1, ServerAlways, PTL
=============================================================================
