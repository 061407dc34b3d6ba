----------------------------- MODULE Registration -----------------------------
(***************************************************************************)
(* The creation of an account: CreateAccount of the client with the vault, *)
(* the handler CreateAccount and the account repository of bm-server, the  *)
(* invite, the resolver, and RetrieveKeys next to it.  All is about one    *)
(* address and one user, who may run the client again; an account of       *)
(* another address lies in another directory.  A handler runs on when its  *)
(* client has stopped waiting, so that the requests of two runs overlap.   *)
(***************************************************************************)
EXTENDS Integers, FiniteSets

CONSTANTS
  Boxes,       \* the mandatory boxes
  Fetchers,    \* RetrieveKeys requests at once
  Faults,      \* what may go wrong, see RegistrationAssumption
  MaxRuns,     \* bound on the runs of the client
  MaxCrashes   \* bound on crashes of the server

ASSUME RegistrationAssumption ==
  /\ Faults \subseteq {"timeout", "quit", "vault", "network", "lookup", "push",
                       "expiry", "redis", "full"}
  /\ MaxRuns \in Nat /\ MaxCrashes \in Nat

Runs  == 1 .. MaxRuns
NoKey == 0
Keys  == Runs          \* the key generated in a run is named by the run

VARIABLES
  vault,       \* the key in the vault file, if any (persistent)
  client,      \* where the running client is
  runs,        \* runs of the client so far
  registered,  \* the key the resolver has for the address
  underway,    \* keys whose upload is under way although its client has ended
  overtaken,   \* history: keys the resolver got by such an upload
  invite,      \* the invite in Redis
  account,     \* the directory of the account (persistent)
  request,     \* request[n]: the CreateAccount handler of run n
  store,       \* store[n]: its StoreKey goroutine
  boxer,       \* boxer[n][b]: its CreateBox goroutines
  fetch,       \* the RetrieveKeys handlers
  created,     \* history: keys whose account was reported as created
  disturbed,   \* history: a creation overlapped with a look-up or a creation
  crashes

resolver   == <<registered, underway, overtaken>>
clientVars == <<vault, client, runs, resolver>>
serverVars == <<account, request, store, boxer>>
vars == <<vault, client, runs, resolver, invite, account, request, store, boxer,
          fetch, created, disturbed, crashes>>

\* .keys.json is empty between its creation or truncation and its write.
KeyFile   == [state : {"none", "empty", "garbled"}, keys : {{}}]
               \cup [state : {"ok"}, keys : SUBSET Keys]
KeysIn(s) == [state |-> "ok", keys |-> s]
Broken(s) == [state |-> s, keys |-> {}]

\* The lock file of a process that has died is `stale'.
Account   == [there : BOOLEAN, boxes : SUBSET Boxes, file : KeyFile,
              lock : {"none", "live", "stale"}]
NoAccount == [there |-> FALSE, boxes |-> {}, file |-> Broken("none"), lock |-> "none"]

Request   == [pc : {"none", "invite", "exists", "mkdir", "create", "unlink", "rmdir", "end"},
              key : Keys \cup {NoKey}, reply : {"none", "created", "refused"}]
NoRequest == [pc |-> "none", key |-> NoKey, reply |-> "none"]

\* keys: what StoreKey has read; own: its open file is still in the directory.
Store   == [pc : {"off", "lock", "read", "make", "open", "write", "stored", "broken", "ok", "failed"},
            keys : SUBSET Keys, own : BOOLEAN]
NoStore == [pc |-> "off", keys |-> {}, own |-> FALSE]

Init ==
  /\ vault = NoKey /\ client = "idle" /\ runs = 0
  /\ registered = NoKey /\ underway = {} /\ overtaken = {} /\ invite = "valid"
  /\ account = NoAccount
  /\ request = [n \in Runs |-> NoRequest]
  /\ store = [n \in Runs |-> NoStore]
  /\ boxer = [n \in Runs |-> [b \in Boxes |-> "off"]]
  /\ fetch = [f \in Fetchers |-> "idle"]
  /\ created = {} /\ disturbed = FALSE /\ crashes = 0

Active == {n \in Runs : request[n].pc \notin {"none", "invite", "exists", "end"}}

-----------------------------------------------------------------------------
(***************************************************************************)
(* The client.  Its copy of the vault is the file's, as it saves each      *)
(* change and exits when that fails.                                       *)
(***************************************************************************)
StartRun ==
  /\ client = "idle" /\ runs < MaxRuns
  /\ runs' = runs + 1
  /\ client' = "lookup"
  /\ UNCHANGED <<vault, resolver, invite, serverVars, fetch, created, disturbed, crashes>>

\* Mutant of CheckResolver: goes on with an address that is in use.
CheckResolverIgnored ==
  /\ client = "lookup"
  /\ client' = "prepare"
  /\ UNCHANGED <<vault, runs, resolver, invite, serverVars, fetch, created, disturbed, crashes>>

\* Any error of the resolver is taken for an unknown address.
CheckResolver ==
  /\ client = "lookup"
  /\ \/ registered # NoKey /\ client' = "idle"
     \/ registered = NoKey /\ client' = "prepare"
     \/ "lookup" \in Faults /\ client' = "prepare"
  /\ UNCHANGED <<vault, runs, resolver, invite, serverVars, fetch, created, disturbed, crashes>>

\* An account in the vault is used as it is; else a key is made and saved.
PrepareKey ==
  /\ client = "prepare"
  /\ \/ vault # NoKey /\ client' = "send" /\ UNCHANGED vault
     \/ vault = NoKey /\ client' = "send" /\ vault' = runs
     \/ vault = NoKey /\ "vault" \in Faults /\ client' = "idle" /\ UNCHANGED vault
  /\ UNCHANGED <<runs, resolver, invite, serverVars, fetch, created, disturbed, crashes>>

\* `as we could not store on the server'; an error of Save is ignored.
RemoveKey ==
  /\ vault' \in {NoKey} \cup (IF "vault" \in Faults THEN {vault} ELSE {})
  /\ client' = "idle"

SendRequest ==
  /\ client = "send"
  /\ \/ /\ request' = [request EXCEPT ![runs] = [pc |-> "invite", key |-> vault, reply |-> "none"]]
        /\ client' = "wait"
        /\ UNCHANGED vault
     \/ "network" \in Faults /\ RemoveKey /\ UNCHANGED request
  /\ UNCHANGED <<runs, resolver, invite, account, store, boxer, fetch, created, disturbed, crashes>>

ReadAnswer ==
  /\ client = "wait"
  /\ \/ request[runs].reply = "created" /\ client' = "push" /\ UNCHANGED vault
     \/ request[runs].reply = "refused" /\ RemoveKey
     \/ "timeout" \in Faults /\ RemoveKey
  /\ UNCHANGED <<runs, resolver, invite, serverVars, fetch, created, disturbed, crashes>>

\* UploadInfo: the chain of the client is the remote resolver, then dht, which
\* accepts everything.
UploadOK == registered' = vault /\ UNCHANGED <<underway, overtaken>>

UnderWay == underway' = underway \cup {vault} /\ UNCHANGED <<registered, overtaken>>

\* The resolver refused, or it stored what its answer was lost of, or will store
\* it yet (the client reports an error, or dies of logging an answer that is not
\* there).
UploadFailed ==
  /\ "push" \in Faults
  /\ UnderWay \/ (registered' \in {registered, vault} /\ UNCHANGED <<underway, overtaken>>)

\* The resolver stores an upload whose client has ended.
StoreUpload ==
  \E k \in underway :
    /\ registered' = k
    /\ underway' = underway \ {k}
    /\ overtaken' = overtaken \cup {k}
    /\ UNCHANGED <<vault, client, runs, invite, serverVars, fetch, created, disturbed, crashes>>

\* After it the removal of the invite, which reaches the server's Redis only
\* when the client runs next to it.
PushInfo ==
  /\ client = "push"
  /\ client' = "idle"
  /\ \/ UploadOK /\ invite' \in {invite, "none"}
     \/ UploadFailed /\ UNCHANGED invite
  /\ UNCHANGED <<vault, runs, serverVars, fetch, created, disturbed, crashes>>

\* tools/push-account uploads what the vault has.
PushAccount ==
  /\ client = "idle" /\ vault # NoKey
  /\ UploadOK \/ UploadFailed
  /\ UNCHANGED <<vault, client, runs, invite, serverVars, fetch, created, disturbed, crashes>>

Quit ==
  /\ "quit" \in Faults /\ client # "idle"
  /\ client' = "idle"
  /\ UNCHANGED resolver \/ (client = "push" /\ UnderWay)
  /\ UNCHANGED <<vault, runs, invite, serverVars, fetch, created, disturbed, crashes>>

-----------------------------------------------------------------------------
(***************************************************************************)
(* The handler CreateAccount up to fileRepo.Create.                        *)
(***************************************************************************)
Goto(n, pc) == request' = [request EXCEPT ![n].pc = pc]

Reply(n, r) == request' = [request EXCEPT ![n].pc = "end", ![n].reply = r]

CheckInvite(n) ==
  /\ request[n].pc = "invite"
  /\ \/ invite = "valid" /\ Goto(n, "exists")
     \/ (invite # "valid" \/ "redis" \in Faults) /\ Reply(n, "refused")
  /\ UNCHANGED <<clientVars, invite, account, store, boxer, fetch, created, disturbed, crashes>>

CheckExists(n) ==
  /\ request[n].pc = "exists"
  /\ IF account.there
     THEN Reply(n, "refused") /\ UNCHANGED disturbed
     ELSE /\ Goto(n, "mkdir")
          /\ disturbed' = (disturbed \/ Active # {} \/ \E f \in Fetchers : fetch[f] # "idle")
  /\ UNCHANGED <<clientVars, invite, account, store, boxer, fetch, created, crashes>>

\* os.MkdirAll, then one goroutine for the key and one for each box.
MakeDirectory(n) ==
  /\ request[n].pc = "mkdir"
  /\ \/ /\ account' = [account EXCEPT !.there = TRUE]
        /\ store' = [store EXCEPT ![n].pc = "lock"]
        /\ boxer' = [boxer EXCEPT ![n] = [b \in Boxes |-> "run"]]
        /\ Goto(n, "create")
     \/ /\ "full" \in Faults
        /\ Reply(n, "refused")
        /\ UNCHANGED <<account, store, boxer>>
  /\ UNCHANGED <<clientVars, invite, fetch, created, disturbed, crashes>>

-----------------------------------------------------------------------------
(***************************************************************************)
(* StoreKey.                                                               *)
(***************************************************************************)
StoreGoto(n, pc) == store' = [store EXCEPT ![n].pc = pc]

\* lockfile.TryLock: a stale lock is taken over; one of the process itself is
\* refused or taken over, since it names no goroutine.
TryLock(n) ==
  /\ store[n].pc = "lock"
  /\ \/ /\ account.there
        /\ account' = [account EXCEPT !.lock = "live"]
        /\ StoreGoto(n, "read")
     \/ /\ ~account.there \/ account.lock = "live" \/ "full" \in Faults
        /\ StoreGoto(n, "failed")
        /\ UNCHANGED account
  /\ UNCHANGED <<clientVars, invite, request, boxer, fetch, created, disturbed, crashes>>

\* fetchJSON: only a missing file is made; one that is not JSON is an error.
ReadKeys(n) ==
  /\ store[n].pc = "read"
  /\ CASE account.file.state = "ok"   -> store' = [store EXCEPT ![n].pc = "open", ![n].keys = account.file.keys]
       [] account.file.state = "none" -> StoreGoto(n, "make")
       [] OTHER                       -> StoreGoto(n, "broken")
  /\ UNCHANGED <<clientVars, invite, account, request, boxer, fetch, created, disturbed, crashes>>

\* createPubKeyFile of StoreKey: os.Create, which truncates.
MakeKeyFile(n) ==
  /\ store[n].pc = "make"
  /\ \/ /\ account.there
        /\ account' = [account EXCEPT !.file = Broken("empty")]
        /\ StoreGoto(n, "open")
     \/ /\ ~account.there \/ "full" \in Faults
        /\ StoreGoto(n, "broken")
        /\ UNCHANGED account
  /\ UNCHANGED <<clientVars, invite, request, boxer, fetch, created, disturbed, crashes>>

\* Mutant of OpenKeyFile: opens without truncating.
OpenKeyFileKeeping(n) ==
  /\ store[n].pc = "open"
  /\ account' = [account EXCEPT !.file.state = "empty"]
  /\ store' = [store EXCEPT ![n].pc = "write", ![n].own = TRUE]
  /\ UNCHANGED <<clientVars, invite, request, boxer, fetch, created, disturbed, crashes>>

\* ioutil.WriteFile opens and truncates ...
OpenKeyFile(n) ==
  /\ store[n].pc = "open"
  /\ \/ /\ account.there
        /\ account' = [account EXCEPT !.file = Broken("empty")]
        /\ store' = [store EXCEPT ![n].pc = "write", ![n].own = TRUE]
     \/ /\ ~account.there \/ "full" \in Faults
        /\ StoreGoto(n, "broken")
        /\ UNCHANGED account
  /\ UNCHANGED <<clientVars, invite, request, boxer, fetch, created, disturbed, crashes>>

\* ... and writes, over the text of another writer possibly a shorter one.
WriteKeys(n) ==
  LET new == KeysIn(store[n].keys \cup {request[n].key}) IN
  /\ store[n].pc = "write"
  /\ \/ /\ StoreGoto(n, "stored")
        /\ IF store[n].own
           THEN \E f \in {new} \cup (IF account.file.state = "empty" THEN {} ELSE {Broken("garbled")}) :
                  account' = [account EXCEPT !.file = f]
           ELSE UNCHANGED account
     \/ "full" \in Faults /\ StoreGoto(n, "broken") /\ UNCHANGED account
  /\ UNCHANGED <<clientVars, invite, request, boxer, fetch, created, disturbed, crashes>>

\* The deferred Unlock removes a lock file of this process.
Unlock(n) ==
  /\ store[n].pc \in {"stored", "broken"}
  /\ account' = [account EXCEPT !.lock = IF @ = "live" THEN "none" ELSE @]
  /\ store' = [store EXCEPT ![n] = [NoStore EXCEPT !.pc = IF store[n].pc = "stored" THEN "ok" ELSE "failed"]]
  /\ UNCHANGED <<clientVars, invite, request, boxer, fetch, created, disturbed, crashes>>

StoreKey(n) ==
  TryLock(n) \/ ReadKeys(n) \/ MakeKeyFile(n) \/ OpenKeyFile(n) \/ WriteKeys(n) \/ Unlock(n)

\* os.MkdirAll of a box makes the account's directory too.
CreateBox(n, b) ==
  /\ boxer[n][b] = "run"
  /\ \/ /\ account' = [account EXCEPT !.there = TRUE, !.boxes = @ \cup {b}]
        /\ boxer' = [boxer EXCEPT ![n][b] = "ok"]
     \/ /\ "full" \in Faults
        /\ boxer' = [boxer EXCEPT ![n][b] = "failed"]
        /\ UNCHANGED account
  /\ UNCHANGED <<clientVars, invite, request, store, fetch, created, disturbed, crashes>>

-----------------------------------------------------------------------------
(***************************************************************************)
(* The end of fileRepo.Create.                                             *)
(***************************************************************************)
Succeeded(n) == store[n].pc = "ok" /\ \A b \in Boxes : boxer[n][b] = "ok"
Failed(n)    == store[n].pc = "failed" \/ \E b \in Boxes : boxer[n][b] = "failed"

\* Mutant of Wait: rolls back at the first error, before the others ended.
WaitForFirstError(n) ==
  /\ request[n].pc = "create"
  /\ \/ Succeeded(n) /\ Reply(n, "created") /\ created' = created \cup {request[n].key}
     \/ Failed(n) /\ Goto(n, "unlink") /\ UNCHANGED created
  /\ UNCHANGED <<clientVars, invite, account, store, boxer, fetch, disturbed, crashes>>

\* Mutant of Wait: the boxes are made without looking at their errors.
WaitForKey(n) ==
  /\ request[n].pc = "create"
  /\ store[n].pc \in {"ok", "failed"} /\ \A b \in Boxes : boxer[n][b] # "run"
  /\ \/ store[n].pc = "ok" /\ Reply(n, "created") /\ created' = created \cup {request[n].key}
     \/ store[n].pc = "failed" /\ Goto(n, "unlink") /\ UNCHANGED created
  /\ UNCHANGED <<clientVars, invite, account, store, boxer, fetch, disturbed, crashes>>

\* errgroup.Wait returns when all goroutines have, with the first error.
Wait(n) ==
  /\ request[n].pc = "create"
  /\ store[n].pc \in {"ok", "failed"} /\ \A b \in Boxes : boxer[n][b] # "run"
  /\ \/ Succeeded(n) /\ Reply(n, "created") /\ created' = created \cup {request[n].key}
     \/ Failed(n) /\ Goto(n, "unlink") /\ UNCHANGED created
  /\ UNCHANGED <<clientVars, invite, account, store, boxer, fetch, disturbed, crashes>>

\* Delete: os.RemoveAll empties the directory and then removes it, which fails
\* when a file or a box was made in it meanwhile; the error is ignored.
Unlink(n) ==
  /\ request[n].pc = "unlink"
  /\ Goto(n, "rmdir")
  /\ account' = [NoAccount EXCEPT !.there = account.there]
  /\ store' = [k \in Runs |-> [store[k] EXCEPT !.own = FALSE]]
  /\ UNCHANGED <<clientVars, invite, boxer, fetch, created, disturbed, crashes>>

Rmdir(n) ==
  /\ request[n].pc = "rmdir"
  /\ Reply(n, "refused")
  /\ account' = IF account = [NoAccount EXCEPT !.there = TRUE] THEN NoAccount ELSE account
  /\ UNCHANGED <<clientVars, invite, store, boxer, fetch, created, disturbed, crashes>>

-----------------------------------------------------------------------------
(***************************************************************************)
(* RetrieveKeys with FetchKeys.                                            *)
(***************************************************************************)
FetchExists(f) ==
  /\ fetch[f] = "idle" /\ account.there
  /\ fetch' = [fetch EXCEPT ![f] = "read"]
  /\ disturbed' = (disturbed \/ Active # {})
  /\ UNCHANGED <<clientVars, invite, serverVars, created, crashes>>

FetchRead(f) ==
  /\ fetch[f] = "read"
  /\ fetch' = [fetch EXCEPT ![f] = IF account.file.state = "none" THEN "make" ELSE "idle"]
  /\ UNCHANGED <<clientVars, invite, serverVars, created, disturbed, crashes>>

\* createPubKeyFile of FetchKeys, which holds no lock.
FetchMake(f) ==
  /\ fetch[f] = "make"
  /\ fetch' = [fetch EXCEPT ![f] = "idle"]
  /\ account' = IF account.there THEN [account EXCEPT !.file = Broken("empty")] ELSE account
  /\ UNCHANGED <<clientVars, invite, request, store, boxer, created, disturbed, crashes>>

-----------------------------------------------------------------------------
ExpireInvite ==
  /\ "expiry" \in Faults /\ invite = "valid"
  /\ invite' = "none"
  /\ UNCHANGED <<clientVars, serverVars, fetch, created, disturbed, crashes>>

\* NewInvite refuses an address that has an invite.
NewInvite ==
  /\ invite = "none"
  /\ invite' = "valid"
  /\ UNCHANGED <<clientVars, serverVars, fetch, created, disturbed, crashes>>

\* The server dies; a client that waits sees its connection break.
Crash ==
  /\ crashes < MaxCrashes
  /\ crashes' = crashes + 1
  /\ request' = [n \in Runs |-> IF request[n].pc \in {"none", "end"} THEN request[n]
                                ELSE [request[n] EXCEPT !.pc = "end", !.reply = "refused"]]
  /\ store' = [n \in Runs |-> NoStore]
  /\ boxer' = [n \in Runs |-> [b \in Boxes |-> "off"]]
  /\ fetch' = [f \in Fetchers |-> "idle"]
  /\ account' = [account EXCEPT !.lock = IF @ = "live" THEN "stale" ELSE @]
  /\ UNCHANGED <<clientVars, invite, created, disturbed>>

CreateAccount(n) ==
  \/ CheckInvite(n) \/ CheckExists(n) \/ MakeDirectory(n) \/ StoreKey(n)
  \/ \E b \in Boxes : CreateBox(n, b)
  \/ Wait(n) \/ Unlink(n) \/ Rmdir(n)

Next ==
  \/ StartRun \/ CheckResolver \/ PrepareKey \/ SendRequest \/ ReadAnswer \/ PushInfo \/ Quit
  \/ PushAccount \/ StoreUpload
  \/ \E n \in Runs : CreateAccount(n)
  \/ \E f \in Fetchers : FetchExists(f) \/ FetchRead(f) \/ FetchMake(f)
  \/ ExpireInvite \/ NewInvite \/ Crash

Spec == Init /\ [][Next]_vars
=============================================================================
