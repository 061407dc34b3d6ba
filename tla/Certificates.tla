----------------------------- MODULE Certificates -----------------------------
(***************************************************************************)
(* The certificate of the mail server: `bm-config lets-encrypt' with its   *)
(* ACME account, its challenge server and the rotation of the files, and   *)
(* `bm-config generate-cert', which makes the first pair.  Several runs of *)
(* the tool (a cron job and an operator) share the files and port 80; the  *)
(* certificate authority is external.  A certificate and the private key   *)
(* it was issued for have the same number.                                 *)
(***************************************************************************)
EXTENDS Integers, FiniteSets

CONSTANTS
  Runs,        \* runs of the tool at once
  Faults,      \* what may go wrong, see CertificatesAssumption
  MaxFaults,   \* bound on faults
  MaxAges,     \* bound on renewals that are due without a fault before them
  MaxIssued,   \* numbers for certificates, never reached
  MaxSuffix    \* numbers for backups, never reached

ASSUME CertificatesAssumption ==
  /\ Faults \subseteq {"killed", "authority", "disk", "torn", "torncert", "late", "moving"}
  /\ MaxFaults \in Nat /\ MaxAges \in Nat /\ MaxIssued \in Nat /\ MaxSuffix \in Nat

Pairs    == 1 .. MaxIssued
Missing  == 0
Empty    == -1         \* created or truncated, but not written
Suffixes == 1 .. MaxSuffix
Nobody   == "nobody"

VARIABLES
  cert, key,   \* the configured files
  certBackup,  \* certBackup[n]: cert file .00n
  keyBackup,   \* keyBackup[n]: key file .00n
  issued,      \* certificates issued so far
  foreign,     \* those of another common name than the configured one
  due,         \* the renewal of the certificate in place is due
  account,     \* account.json: "none", "empty" or "ok"
  accountKey,  \* key.json: "none", "empty", "pem" or "typed"
  port,        \* the run whose server listens
  run,         \* the runs
  faults, ages,
  overlapped,  \* history: two runs were writing files at once
  stored       \* history: what has been whole in place, by file

files     == <<cert, key, certBackup, keyBackup, stored, due>>
authority == <<issued, foreign>>
accounts  == <<account, accountKey>>
vars == <<files, authority, accounts, port, run, faults, ages, overlapped>>

Run  == [pc : {"idle", "register", "saveaccount", "savekey", "check", "order", "authorize",
               "finalize", "suffix", "movecert", "movekey", "writecert", "writekey",
               "gencert", "genkey"},
         pair : {Missing} \cup Pairs, suffix : {0} \cup Suffixes,
         server : {"off", "starting", "up"}]
Idle == [pc |-> "idle", pair |-> Missing, suffix |-> 0, server |-> "off"]

Init ==
  /\ cert = Missing /\ key = Missing
  /\ certBackup = [n \in Suffixes |-> Missing] /\ keyBackup = [n \in Suffixes |-> Missing]
  /\ issued = 0 /\ foreign = {} /\ due = FALSE
  /\ account = "none" /\ accountKey = "none"
  /\ port = Nobody /\ run = [r \in Runs |-> Idle]
  /\ faults = 0 /\ ages = 0 /\ overlapped = FALSE
  /\ stored = [f \in {"cert", "key"} |-> {}]

Saving(r)  == run[r].pc \in {"suffix", "movecert", "movekey", "writecert", "writekey",
                             "gencert", "genkey"}
Goto(r, p) == run' = [run EXCEPT ![r].pc = p]

\* os.Exit, a panic, a signal or the end of do: the port is free again.
Exit(r) ==
  /\ run'  = [run EXCEPT ![r] = Idle]
  /\ port' = IF port = r THEN Nobody ELSE port

\* At most MaxFaults faults.
Fault(f) == f \in Faults /\ faults < MaxFaults /\ faults' = faults + 1
NoFault  == faults' = faults

-----------------------------------------------------------------------------
(***************************************************************************)
(* The ACME account.                                                       *)
(***************************************************************************)
\* The key is written as PKCS8 in PEM, and read as `<type> <base64>' only.
privKeyToPEM     == "pem"
NewPrivKey(data) == data = "typed"

getAccountFromAcmeDir == account = "ok" /\ NewPrivKey(accountKey)

\* An account that cannot be read is as good as none.
New(r) ==
  /\ run[r].pc = "idle"
  /\ Goto(r, IF getAccountFromAcmeDir THEN "check" ELSE "register")
  /\ UNCHANGED <<files, authority, accounts, port, faults, ages, overlapped>>

RegisterAccount(r) ==
  /\ run[r].pc = "register"
  /\ \/ NoFault /\ Goto(r, "saveaccount") /\ UNCHANGED port
     \/ Fault("authority") /\ Exit(r)
  /\ UNCHANGED <<files, authority, accounts, ages, overlapped>>

\* SaveAccount writes account.json and then key.json; a write is open with
\* truncation, then write.
SaveAccount(r) ==
  /\ run[r].pc = "saveaccount"
  /\ \/ NoFault /\ account' = "ok" /\ Goto(r, "savekey") /\ UNCHANGED port
     \/ Fault("disk") /\ Exit(r) /\ UNCHANGED account
     \/ Fault("torn") /\ Exit(r) /\ account' = "empty"
  /\ UNCHANGED <<files, authority, accountKey, ages, overlapped>>

SaveAccountKey(r) ==
  /\ run[r].pc = "savekey"
  /\ \/ NoFault /\ accountKey' = privKeyToPEM /\ Goto(r, "check") /\ UNCHANGED port
     \/ Fault("disk") /\ Exit(r) /\ UNCHANGED accountKey
     \/ Fault("torn") /\ Exit(r) /\ accountKey' = "empty"
  /\ UNCHANGED <<files, authority, account, ages, overlapped>>

-----------------------------------------------------------------------------
(***************************************************************************)
(* The decision to renew, the challenge server and the order.              *)
(***************************************************************************)
\* The goroutine that listens is started, and the order goes on without it.
StartHTTPServer(r) ==
  /\ run' = [run EXCEPT ![r].pc = "order", ![r].server = "starting"]
  /\ UNCHANGED port

\* Mutant of CheckRenewal: keeps a certificate when it is due.
CheckRenewalInverted == due

\* TRUE when the certificate in place need not be renewed yet.
CheckRenewal == ~due

\* A file that holds no PEM block ends the tool with a nil dereference; a
\* certificate of another name and one that is not due end it, too.  `moving'
\* is the look in the moment in which another run has moved the file away.
LoadCertificate(r) ==
  /\ run[r].pc = "check"
  /\ \/ cert = Missing /\ (\A o \in Runs : ~Saving(o)) /\ NoFault /\ StartHTTPServer(r)
     \/ cert = Missing /\ (\E o \in Runs : Saving(o)) /\ Fault("moving") /\ StartHTTPServer(r)
     \/ cert = Empty /\ NoFault /\ Exit(r)
     \/ cert \in foreign /\ NoFault /\ Exit(r)
     \/ cert \in Pairs \ foreign /\ CheckRenewal /\ NoFault /\ Exit(r)
     \/ cert \in Pairs \ foreign /\ ~CheckRenewal /\ NoFault /\ StartHTTPServer(r)
  /\ UNCHANGED <<files, authority, accounts, ages, overlapped>>

\* Port in use: the goroutine ends the process, wherever its main function is.
ListenAndServe(r) ==
  /\ run[r].server = "starting"
  /\ \/ port = Nobody /\ port' = r /\ run' = [run EXCEPT ![r].server = "up"]
     \/ port # Nobody /\ Exit(r)
  /\ UNCHANGED <<files, authority, accounts, faults, ages, overlapped>>

\* Two round trips to the authority; that the goroutine has not run by then
\* is the fault `late'.
AuthorizeOrder(r) ==
  /\ run[r].pc = "order"
  /\ \/ run[r].server = "up" /\ NoFault /\ Goto(r, "authorize") /\ UNCHANGED port
     \/ run[r].server = "starting" /\ Fault("late") /\ Goto(r, "authorize") /\ UNCHANGED port
     \/ Fault("authority") /\ Exit(r)
  /\ UNCHANGED <<files, authority, accounts, ages, overlapped>>

\* The authority calls port 80.  The answer depends on the account key, and
\* each run has registered one of its own.
Answered(r) == port = r

Authorize(r) ==
  /\ run[r].pc = "authorize"
  /\ \/ Answered(r) /\ NoFault /\ Goto(r, "finalize") /\ UNCHANGED port
     \/ ~Answered(r) /\ NoFault /\ Exit(r)
     \/ Fault("authority") /\ Exit(r)
  /\ UNCHANGED <<files, authority, accounts, ages, overlapped>>

\* Mutant of FinalizeOrder: an answer without a certificate is saved.
FinalizeOrderEmpty(r) ==
  /\ run[r].pc = "finalize" /\ issued < MaxIssued
  /\ NoFault /\ Goto(r, "suffix")
  /\ UNCHANGED <<files, authority, accounts, port, ages, overlapped>>

\* A new key, and a certificate for it.
FinalizeOrder(r) ==
  /\ run[r].pc = "finalize" /\ issued < MaxIssued
  /\ \/ /\ NoFault /\ UNCHANGED port
        /\ issued' = issued + 1
        /\ run' = [run EXCEPT ![r].pc = "suffix", ![r].pair = issued + 1]
        /\ overlapped' = (overlapped \/ \E o \in Runs \ {r} : Saving(o))
     \/ Fault("authority") /\ Exit(r) /\ UNCHANGED <<issued, overlapped>>
  /\ UNCHANGED <<files, foreign, accounts, ages>>

-----------------------------------------------------------------------------
(***************************************************************************)
(* SaveCertFiles.                                                          *)
(***************************************************************************)
Least(s) == CHOOSE n \in s : \A o \in s : n <= o

\* Mutant of findHighestSuffix: looks at the certificate files only.
findHighestSuffixOfCert == Least({n \in Suffixes : certBackup[n] = Missing})

\* The suffixes that neither file has; the program does not run out of them.
Free == {n \in Suffixes : certBackup[n] = Missing /\ keyBackup[n] = Missing}

findHighestSuffix == Least(Free)

\* MaxSuffix is a bound of the model: the code tries suffixes without end.
FindSuffix(r) ==
  /\ run[r].pc = "suffix" /\ Free # {}
  /\ run' = [run EXCEPT ![r].pc = "movecert", ![r].suffix = findHighestSuffix]
  /\ UNCHANGED <<files, authority, accounts, port, faults, ages, overlapped>>

\* Stat and rename; a failed rename ends the tool.
MoveCert(r) ==
  /\ run[r].pc = "movecert"
  /\ \/ /\ NoFault /\ Goto(r, "movekey")
        /\ cert' = Missing
        /\ certBackup' = IF cert = Missing THEN certBackup ELSE [certBackup EXCEPT ![run[r].suffix] = cert]
        /\ UNCHANGED port
     \/ Fault("disk") /\ Exit(r) /\ UNCHANGED <<cert, certBackup>>
  /\ UNCHANGED <<key, keyBackup, stored, due, authority, accounts, ages, overlapped>>

\* Mutant of MoveKey: leaves the key for the write to replace.
MoveKeyNot(r) ==
  /\ run[r].pc = "movekey"
  /\ NoFault /\ Goto(r, "writecert")
  /\ UNCHANGED <<files, authority, accounts, port, ages, overlapped>>

MoveKey(r) ==
  /\ run[r].pc = "movekey"
  /\ \/ /\ NoFault /\ Goto(r, "writecert")
        /\ key' = Missing
        /\ keyBackup' = IF key = Missing THEN keyBackup ELSE [keyBackup EXCEPT ![run[r].suffix] = key]
        /\ UNCHANGED port
     \/ Fault("disk") /\ Exit(r) /\ UNCHANGED <<key, keyBackup>>
  /\ UNCHANGED <<cert, certBackup, stored, due, authority, accounts, ages, overlapped>>

\* The file is truncated, then written; `torn' is the end of the process in
\* between or a full disk.
Stored(f, p) == stored' = [stored EXCEPT ![f] = @ \cup {p}]

WriteCert(r) ==
  /\ run[r].pc = "writecert"
  /\ \/ /\ NoFault /\ Goto(r, "writekey") /\ UNCHANGED port
        /\ cert' = run[r].pair /\ Stored("cert", cert') /\ due' = FALSE
     \/ Fault("disk") /\ Exit(r) /\ UNCHANGED <<cert, stored, due>>
     \/ Fault("torncert") /\ Exit(r) /\ cert' = Empty /\ UNCHANGED <<stored, due>>
  /\ UNCHANGED <<key, certBackup, keyBackup, authority, accounts, ages, overlapped>>

WriteKey(r) ==
  /\ run[r].pc = "writekey"
  /\ \/ NoFault /\ key' = run[r].pair /\ Stored("key", key') /\ Exit(r)
     \/ Fault("disk") /\ Exit(r) /\ UNCHANGED <<key, stored>>
     \/ Fault("torn") /\ Exit(r) /\ key' = Empty /\ UNCHANGED stored
  /\ UNCHANGED <<cert, certBackup, keyBackup, due, authority, accounts, ages, overlapped>>

-----------------------------------------------------------------------------
(***************************************************************************)
(* generate-cert, in the directory of the configured files; it keeps no    *)
(* backups and is used for a first installation.  Its domain defaults to   *)
(* localhost.                                                              *)
(***************************************************************************)
generateCert(r) ==
  /\ run[r].pc = "idle" /\ issued = 0 /\ MaxIssued > 0 /\ cert = Missing /\ key = Missing
  /\ issued' = issued + 1
  /\ foreign' \in {{}, {issued + 1}}
  /\ run' = [run EXCEPT ![r].pc = "gencert", ![r].pair = issued + 1]
  /\ overlapped' = (overlapped \/ \E o \in Runs \ {r} : Saving(o))
  /\ UNCHANGED <<files, accounts, port, faults, ages>>

CreateCert(r) ==
  /\ run[r].pc = "gencert"
  /\ \/ /\ NoFault /\ Goto(r, "genkey") /\ UNCHANGED port
        /\ cert' = run[r].pair /\ Stored("cert", cert') /\ due' = FALSE
     \/ Fault("torncert") /\ Exit(r) /\ cert' = Empty /\ UNCHANGED <<stored, due>>
  /\ UNCHANGED <<key, certBackup, keyBackup, authority, accounts, ages, overlapped>>

CreateKey(r) ==
  /\ run[r].pc = "genkey"
  /\ \/ NoFault /\ key' = run[r].pair /\ Stored("key", key') /\ Exit(r)
     \/ Fault("torn") /\ Exit(r) /\ key' = Empty /\ UNCHANGED stored
  /\ UNCHANGED <<cert, certBackup, keyBackup, due, authority, accounts, ages, overlapped>>

-----------------------------------------------------------------------------
(***************************************************************************)
(* The environment.                                                        *)
(***************************************************************************)
\* The tool is ended by a signal or by the end of the machine.
Killed(r) ==
  /\ run[r].pc # "idle" /\ Fault("killed")
  /\ Exit(r)
  /\ UNCHANGED <<files, authority, accounts, ages, overlapped>>

\* tls.LoadX509KeyPair of the server takes the files.
Usable == cert \in Pairs /\ cert = key

\* A certificate comes within RenewBeforeDays of its end, months after it was
\* saved.  One that has no key next to it does so whatever the bound.
Age ==
  /\ cert \in Pairs /\ ~due
  /\ \A r \in Runs : ~Saving(r)
  /\ \/ Usable /\ ages < MaxAges /\ ages' = ages + 1
     \/ ~Usable /\ UNCHANGED ages
  /\ due' = TRUE
  /\ UNCHANGED <<cert, key, certBackup, keyBackup, stored, authority, accounts, port, run, faults, overlapped>>

Work(r) ==
  \/ RegisterAccount(r) \/ SaveAccount(r) \/ SaveAccountKey(r)
  \/ LoadCertificate(r) \/ AuthorizeOrder(r) \/ Authorize(r)
  \/ FinalizeOrder(r) \/ FindSuffix(r) \/ MoveCert(r) \/ MoveKey(r)
  \/ WriteCert(r) \/ WriteKey(r) \/ CreateCert(r) \/ CreateKey(r)

Next ==
  \/ \E r \in Runs : New(r) \/ generateCert(r) \/ Work(r) \/ ListenAndServe(r) \/ Killed(r)
  \/ Age

Spec == Init /\ [][Next]_vars

\* A run that was started goes on, the tool is started again and again (as by
\* cron), and certificates grow old.
Fairness ==
  /\ \A r \in Runs : WF_vars(New(r)) /\ WF_vars(Work(r)) /\ WF_vars(ListenAndServe(r))
  /\ WF_vars(Age)

FairSpec == Spec /\ Fairness
=============================================================================
