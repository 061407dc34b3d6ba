-------------------------- MODULE CertificatesProofs --------------------------
(***************************************************************************)
(* Theorems about the certificate of the mail server, for any runs of the  *)
(* tool, faults and bounds.                                                *)
(***************************************************************************)
EXTENDS CertificatesProperties, WellFoundedInduction, TLAPS

USE CertificatesAssumption

\* What a run carries: a pair once it has one, and a suffix once it has looked
\* for one.
RunInv(r) ==
  /\ Saving(r) => run[r].pair \in Pairs
  /\ run[r].pc \in {"movecert", "movekey"} => run[r].suffix \in Suffixes

\* What a run finds in place at each step of SaveCertFiles and generateCert,
\* when no other saves.
Place(r) ==
  /\ run[r].pc = "movecert" =>
       certBackup[run[r].suffix] = Missing /\ keyBackup[run[r].suffix] = Missing
  /\ run[r].pc = "movekey" =>
       /\ keyBackup[run[r].suffix] = Missing /\ cert = Missing
       /\ certBackup[run[r].suffix] \in Pairs /\ key \in Pairs => certBackup[run[r].suffix] = key
  /\ run[r].pc \in {"writecert", "gencert"} => cert = Missing /\ key = Missing
  /\ run[r].pc \in {"writekey", "genkey"} => cert = run[r].pair /\ key = Missing

\* Until two runs saved at once: one saves at a time, and nothing is lost.
FilesInv ==
  /\ \A r, o \in Runs : Saving(r) /\ Saving(o) => r = o
  /\ \A r \in Runs : Place(r)
  /\ NothingOverwritten /\ PairsMatch

\* The inductive invariant.
Inv ==
  /\ TypeOK /\ \A r \in Runs : RunInv(r)
  /\ overlapped \/ FilesInv

-----------------------------------------------------------------------------
(***************************************************************************)
(* How a run moves.                                                        *)
(***************************************************************************)
PCs == {"idle", "register", "saveaccount", "savekey", "check", "order", "authorize", "finalize",
        "suffix", "movecert", "movekey", "writecert", "writekey", "gencert", "genkey"}

\* Only run r moves, and the port is its own or as it was.
Moves(r) ==
  /\ run' \in [Runs -> Run] /\ port' \in Runs \cup {Nobody} /\ faults' \in 0 .. MaxFaults
  /\ \A o \in Runs \ {r} : run'[o] = run[o]

LEMMA FaultCounts ==
  ASSUME faults \in 0 .. MaxFaults, NEW f, Fault(f) \/ NoFault
  PROVE  faults' \in 0 .. MaxFaults
  BY DEF Fault, NoFault

LEMMA RecordMoves ==
  ASSUME TypeOK, NEW r \in Runs, NEW q \in Run, run' = [run EXCEPT ![r] = q],
         port' \in Runs \cup {Nobody}, faults' \in 0 .. MaxFaults
  PROVE  Moves(r) /\ run'[r] = q
<1>1. run \in [Runs -> Run]
  BY DEF TypeOK
<1> QED BY <1>1 DEF Moves

LEMMA ExitMoves ==
  ASSUME TypeOK, NEW r \in Runs, Exit(r), faults' \in 0 .. MaxFaults
  PROVE  Moves(r) /\ run'[r] = Idle
<1>1. Idle \in Run
  BY DEF Idle, Run
<1>2. run' = [run EXCEPT ![r] = Idle] /\ port' \in Runs \cup {Nobody}
  BY DEF Exit, TypeOK
<1> QED BY <1>1, <1>2 DEF Moves, TypeOK

LEMMA GotoMoves ==
  ASSUME TypeOK, NEW r \in Runs, NEW p \in PCs, Goto(r, p), UNCHANGED port,
         faults' \in 0 .. MaxFaults
  PROVE  /\ Moves(r)
         /\ run'[r].pc = p
         /\ run'[r].pair = run[r].pair /\ run'[r].suffix = run[r].suffix
<1> DEFINE q == [run[r] EXCEPT !.pc = p]
<1>1. run[r] \in Run
  BY DEF TypeOK
<1>2. q \in Run /\ q.pc = p /\ q.pair = run[r].pair /\ q.suffix = run[r].suffix
  BY <1>1 DEF Run, PCs
<1>3. run' = [run EXCEPT ![r] = q]
  BY DEF Goto
<1> HIDE DEF q
<1> QED BY <1>2, <1>3 DEF Moves, TypeOK

Values == <<cert, key, certBackup, keyBackup, stored>>

\* The step of run r leaves everything in its type, and r has what it needs.
LEMMA TypesKeep ==
  ASSUME TypeOK, \A o \in Runs : RunInv(o), NEW r \in Runs, Moves(r), RunInv(r)',
         cert' \in File, key' \in File,
         certBackup' \in [Suffixes -> File], keyBackup' \in [Suffixes -> File],
         issued' \in 0 .. MaxIssued, foreign' \subseteq Pairs, due' \in BOOLEAN,
         account' \in {"none", "empty", "ok"}, accountKey' \in {"none", "empty", "pem", "typed"},
         ages' = ages, overlapped' \in BOOLEAN,
         stored' \in [{"cert", "key"} -> SUBSET Pairs]
  PROVE  TypeOK' /\ \A o \in Runs : RunInv(o)'
<1>1. TypeOK'
  BY DEF TypeOK, Moves
<1>2. \A o \in Runs \ {r} : RunInv(o)'
  BY DEF RunInv, Moves, TypeOK, Saving
<1> QED BY <1>1, <1>2

\* The same when no file of the server changes.
LEMMA QuietTypes ==
  ASSUME TypeOK, \A o \in Runs : RunInv(o), NEW r \in Runs, Moves(r), RunInv(r)',
         UNCHANGED <<files, authority, accounts, ages, overlapped>>
  PROVE  TypeOK' /\ \A o \in Runs : RunInv(o)'
<1>1. UNCHANGED <<cert, key, certBackup, keyBackup, stored, due, issued, foreign, account,
                  accountKey, ages, overlapped>>
  BY DEF files, authority, accounts
<1> QED BY <1>1, TypesKeep DEF TypeOK

\* Run r does not save after the step, or it is where it was.
Quiet(r) ==
  /\ Moves(r) /\ UNCHANGED <<Values, overlapped>>
  /\ \/ ~Saving(r)'
     \/ /\ run'[r].pc = run[r].pc
        /\ run'[r].pair = run[r].pair /\ run'[r].suffix = run[r].suffix

LEMMA QuietKeeps ==
  ASSUME FilesInv, NEW r \in Runs, Quiet(r)
  PROVE  FilesInv'
<1>1. UNCHANGED <<cert, key, certBackup, keyBackup, stored, overlapped>>
  BY DEF Quiet, Values
<1>2. \A o \in Runs : Saving(o)' => Saving(o)
  BY DEF Quiet, Moves, Saving
<1>3. ASSUME NEW o \in Runs PROVE Place(o)'
  <2>1. CASE o # r
    BY <1>1, <2>1 DEF FilesInv, Place, Quiet, Moves
  <2>2. CASE o = r /\ ~Saving(r)'
    BY <2>2 DEF Place, Saving
  <2>3. CASE /\ o = r /\ run'[r].pc = run[r].pc
             /\ run'[r].pair = run[r].pair /\ run'[r].suffix = run[r].suffix
    BY <1>1, <2>3 DEF FilesInv, Place
  <2> QED BY <2>1, <2>2, <2>3 DEF Quiet
<1>4. NothingOverwritten' /\ PairsMatch'
  BY <1>1 DEF FilesInv, NothingOverwritten, PairsMatch
<1> QED BY <1>2, <1>3, <1>4 DEF FilesInv

\* A run that ends, by whatever error.
LEMMA EndsKeep ==
  ASSUME Inv, NEW r \in Runs, Exit(r), faults' \in 0 .. MaxFaults,
         UNCHANGED <<files, authority, accounts, ages, overlapped>>
  PROVE  Inv'
<1>1. Moves(r) /\ run'[r].pc = "idle"
  BY ExitMoves DEF Inv, Idle
<1>2. RunInv(r)'
  BY <1>1 DEF RunInv, Saving
<1>3. TypeOK' /\ \A o \in Runs : RunInv(o)'
  BY <1>1, <1>2, QuietTypes DEF Inv
<1>4. Quiet(r) /\ overlapped' = overlapped
  BY <1>1 DEF Quiet, Values, files, Saving
<1> QED BY <1>3, <1>4, QuietKeeps DEF Inv

\* A run that goes on, away from the files.
LEMMA GoesOn ==
  ASSUME Inv, NEW r \in Runs, NEW p \in PCs, Goto(r, p), UNCHANGED port,
         p \in {"register", "saveaccount", "check", "order", "authorize", "finalize"}, faults' \in 0 .. MaxFaults,
         UNCHANGED <<files, authority, accounts, ages, overlapped>>
  PROVE  Inv'
<1>1. Moves(r) /\ run'[r].pc = p
  BY GotoMoves DEF Inv
<1>2. RunInv(r)'
  BY <1>1 DEF RunInv, Saving
<1>3. TypeOK' /\ \A o \in Runs : RunInv(o)'
  BY <1>1, <1>2, QuietTypes DEF Inv
<1>4. Quiet(r) /\ overlapped' = overlapped
  BY <1>1 DEF Quiet, Values, files, Saving
<1> QED BY <1>3, <1>4, QuietKeeps DEF Inv

-----------------------------------------------------------------------------
(***************************************************************************)
(* The account, the challenge and the order.                               *)
(***************************************************************************)
LEMMA InitInv == Init => Inv
<1> SUFFICES ASSUME Init PROVE Inv
  OBVIOUS
<1>1. Idle \in Run /\ Idle.pc = "idle"
  BY DEF Idle, Run
<1>2. TypeOK
  <2>1. issued \in 0 .. MaxIssued /\ faults \in 0 .. MaxFaults /\ ages \in 0 .. MaxAges
    BY DEF Init
  <2>2. certBackup \in [Suffixes -> File] /\ keyBackup \in [Suffixes -> File]
    BY DEF Init, File
  <2>3. run \in [Runs -> Run] /\ stored \in [{"cert", "key"} -> SUBSET Pairs]
    BY <1>1 DEF Init
  <2> QED BY <2>1, <2>2, <2>3 DEF Init, TypeOK, File
<1>3. \A r \in Runs : run[r].pc = "idle"
  BY <1>1 DEF Init
<1>4. \A r \in Runs : RunInv(r) /\ Place(r) /\ ~Saving(r)
  BY <1>3 DEF RunInv, Place, Saving
<1>5. NothingOverwritten /\ PairsMatch
  BY DEF Init, NothingOverwritten, PairsMatch, Missing, Pairs
<1> QED BY <1>2, <1>4, <1>5 DEF Inv, FilesInv

\* A run that goes on to q, which is not saving.
LEMMA NewRecordKeeps ==
  ASSUME Inv, NEW r \in Runs, NEW q \in Run, run' = [run EXCEPT ![r] = q],
         port' \in Runs \cup {Nobody}, faults' \in 0 .. MaxFaults,
         \/ q.pc \in {"register", "check", "order"}
         \/ q.pc = run[r].pc /\ q.pair = run[r].pair /\ q.suffix = run[r].suffix,
         UNCHANGED <<files, authority, accounts, ages, overlapped>>
  PROVE  Inv'
<1>1. Moves(r) /\ run'[r] = q
  BY DEF Moves, Inv, TypeOK
<1>2. RunInv(r)'
  BY <1>1 DEF RunInv, Saving, Inv
<1>3. TypeOK' /\ \A o \in Runs : RunInv(o)'
  BY <1>1, <1>2, QuietTypes DEF Inv
<1>4. Quiet(r) /\ overlapped' = overlapped
  BY <1>1 DEF Quiet, Values, files, Saving
<1> QED BY <1>3, <1>4, QuietKeeps DEF Inv

LEMMA NewKeeps ==
  ASSUME Inv, NEW r \in Runs, New(r)
  PROVE  Inv'
<1>1. port' = port /\ faults' \in 0 .. MaxFaults
  BY DEF New, Inv, TypeOK
<1>2. UNCHANGED <<files, authority, accounts, ages, overlapped>>
  BY DEF New
<1>3. Goto(r, "check") \/ Goto(r, "register")
  BY DEF New
<1> QED BY <1>1, <1>2, <1>3, GoesOn DEF PCs

LEMMA RegisterAccountKeeps ==
  ASSUME Inv, NEW r \in Runs, RegisterAccount(r)
  PROVE  Inv'
<1>1. faults' \in 0 .. MaxFaults
  BY FaultCounts DEF RegisterAccount, Inv, TypeOK
<1>2. UNCHANGED <<files, authority, accounts, ages, overlapped>>
  BY DEF RegisterAccount
<1>3. CASE Exit(r)
  BY <1>1, <1>2, <1>3, EndsKeep
<1>4. CASE Goto(r, "saveaccount") /\ UNCHANGED port
  BY <1>1, <1>2, <1>4, GoesOn DEF PCs
<1> QED BY <1>3, <1>4 DEF RegisterAccount

\* Both files of the account, whole or not.
LEMMA SaveAccountKeeps ==
  ASSUME Inv, NEW r \in Runs, SaveAccount(r) \/ SaveAccountKey(r)
  PROVE  Inv'
<1>1. faults' \in 0 .. MaxFaults
  BY FaultCounts DEF SaveAccount, SaveAccountKey, Inv, TypeOK
<1>2. UNCHANGED <<files, authority, ages, overlapped>>
  BY DEF SaveAccount, SaveAccountKey
<1>3. account' \in {"none", "empty", "ok"} /\ accountKey' \in {"none", "empty", "pem", "typed"}
  BY DEF SaveAccount, SaveAccountKey, privKeyToPEM, Inv, TypeOK
<1>4. Moves(r) /\ RunInv(r)' /\ ~Saving(r)'
  <2>1. CASE Exit(r)
    BY <1>1, <2>1, ExitMoves DEF Inv, Idle, RunInv, Saving
  <2>2. CASE (Goto(r, "savekey") \/ Goto(r, "check")) /\ UNCHANGED port
    <3>1. Moves(r) /\ run'[r].pc \in {"savekey", "check"}
      BY <1>1, <2>2, GotoMoves DEF Inv, PCs
    <3> QED BY <3>1 DEF RunInv, Saving
  <2> QED BY <2>1, <2>2 DEF SaveAccount, SaveAccountKey
<1>5. UNCHANGED <<cert, key, certBackup, keyBackup, stored, due, issued, foreign>>
  BY <1>2 DEF files, authority
<1>6. TypeOK' /\ \A o \in Runs : RunInv(o)'
  BY <1>2, <1>3, <1>4, <1>5, TypesKeep DEF Inv, TypeOK
<1>7. Quiet(r)
  BY <1>2, <1>4, <1>5 DEF Quiet, Values
<1> QED BY <1>2, <1>6, <1>7, QuietKeeps DEF Inv

LEMMA LoadCertificateKeeps ==
  ASSUME Inv, NEW r \in Runs, LoadCertificate(r)
  PROVE  Inv'
<1>1. faults' \in 0 .. MaxFaults
  BY FaultCounts DEF LoadCertificate, Inv, TypeOK
<1>2. UNCHANGED <<files, authority, accounts, ages, overlapped>>
  BY DEF LoadCertificate
<1>3. CASE Exit(r)
  BY <1>1, <1>2, <1>3, EndsKeep
<1>4. CASE StartHTTPServer(r)
  <2> DEFINE q == [run[r] EXCEPT !.pc = "order", !.server = "starting"]
  <2>1. run[r] \in Run
    BY DEF Inv, TypeOK
  <2>2. q \in Run /\ q.pc = "order"
    BY <2>1 DEF Run
  <2>3. run' = [run EXCEPT ![r] = q] /\ port' \in Runs \cup {Nobody}
    BY <1>4 DEF StartHTTPServer, Inv, TypeOK
  <2> HIDE DEF q
  <2> QED BY <1>1, <1>2, <2>2, <2>3, NewRecordKeeps
<1> QED BY <1>3, <1>4 DEF LoadCertificate

LEMMA ListenAndServeKeeps ==
  ASSUME Inv, NEW r \in Runs, ListenAndServe(r)
  PROVE  Inv'
<1>1. faults' \in 0 .. MaxFaults
  BY DEF ListenAndServe, Inv, TypeOK
<1>2. UNCHANGED <<files, authority, accounts, ages, overlapped>>
  BY DEF ListenAndServe
<1>3. CASE Exit(r)
  BY <1>1, <1>2, <1>3, EndsKeep
<1>4. CASE port' = r /\ run' = [run EXCEPT ![r].server = "up"]
  <2> DEFINE q == [run[r] EXCEPT !.server = "up"]
  <2>1. run[r] \in Run
    BY DEF Inv, TypeOK
  <2>2. /\ q \in Run /\ q.pc = run[r].pc /\ q.pair = run[r].pair
        /\ q.suffix = run[r].suffix
    BY <2>1 DEF Run
  <2>3. run' = [run EXCEPT ![r] = q]
    BY <1>4
  <2> HIDE DEF q
  <2> QED BY <1>1, <1>2, <1>4, <2>2, <2>3, NewRecordKeeps
<1> QED BY <1>3, <1>4 DEF ListenAndServe

LEMMA OrderKeeps ==
  ASSUME Inv, NEW r \in Runs, AuthorizeOrder(r) \/ Authorize(r)
  PROVE  Inv'
<1>1. faults' \in 0 .. MaxFaults
  BY FaultCounts DEF AuthorizeOrder, Authorize, Inv, TypeOK
<1>2. UNCHANGED <<files, authority, accounts, ages, overlapped>>
  BY DEF AuthorizeOrder, Authorize
<1>3. CASE Exit(r)
  BY <1>1, <1>2, <1>3, EndsKeep
<1>4. CASE (Goto(r, "authorize") \/ Goto(r, "finalize")) /\ UNCHANGED port
  BY <1>1, <1>2, <1>4, GoesOn DEF PCs
<1> QED BY <1>3, <1>4 DEF AuthorizeOrder, Authorize

LEMMA KilledKeeps ==
  ASSUME Inv, NEW r \in Runs, Killed(r)
  PROVE  Inv'
<1>1. faults' \in 0 .. MaxFaults
  BY FaultCounts DEF Killed, Inv, TypeOK
<1> QED BY <1>1, EndsKeep DEF Killed

LEMMA AgeKeeps ==
  ASSUME Inv, Age
  PROVE  Inv'
<1>1. UNCHANGED <<Values, issued, foreign, accounts, port, run, faults, overlapped>>
  BY DEF Age, Values, authority
<1>2. ages' \in 0 .. MaxAges
  <2>1. ages \in 0 .. MaxAges /\ ((ages < MaxAges /\ ages' = ages + 1) \/ ages' = ages)
    BY DEF Age, Inv, TypeOK
  <2> QED BY <2>1
<1>3. TypeOK'
  BY <1>1, <1>2 DEF Age, Inv, TypeOK, Values, accounts
<1>4. \A r \in Runs : RunInv(r)' /\ (Place(r) => Place(r)')
  BY <1>1 DEF Inv, RunInv, Place, Saving, Values, accounts
<1>5. FilesInv => FilesInv'
  BY <1>1, <1>4 DEF FilesInv, Saving, NothingOverwritten, PairsMatch, Values
<1> QED BY <1>1, <1>3, <1>4, <1>5 DEF Inv

-----------------------------------------------------------------------------
(***************************************************************************)
(* The files.                                                              *)
(***************************************************************************)
\* A step of the only run that saves.
LEMMA AloneKeeps ==
  ASSUME NEW r \in Runs, Moves(r), \A o \in Runs \ {r} : ~Saving(o),
         Place(r)', NothingOverwritten', PairsMatch'
  PROVE  FilesInv'
<1>1. \A o \in Runs \ {r} : ~Saving(o)'
  BY DEF Moves, Saving
<1>2. \A o \in Runs \ {r} : Place(o)'
  BY <1>1 DEF Place, Saving
<1> QED BY <1>1, <1>2 DEF FilesInv

\* A run gets a pair and starts to save it.
LEMMA IssuedKeeps ==
  ASSUME Inv, NEW r \in Runs, NEW q \in Run, run' = [run EXCEPT ![r] = q],
         q.pc = "suffix" \/ (q.pc = "gencert" /\ cert = Missing /\ key = Missing),
         q.pair = issued + 1, issued < MaxIssued, issued' = issued + 1,
         overlapped' = (overlapped \/ \E o \in Runs \ {r} : Saving(o)),
         port' = port, faults' \in 0 .. MaxFaults, foreign' \subseteq Pairs,
         UNCHANGED <<files, accounts, ages>>
  PROVE  Inv'
<1>1. Moves(r) /\ run'[r] = q
  BY DEF Moves, Inv, TypeOK
<1>2. issued + 1 \in Pairs /\ issued + 1 \in 0 .. MaxIssued
  BY DEF Inv, TypeOK, Pairs
<1>3. RunInv(r)'
  BY <1>1, <1>2 DEF RunInv, Saving
<1>4. UNCHANGED <<cert, key, certBackup, keyBackup, stored, due, account, accountKey>>
  BY DEF files, accounts
<1>5. overlapped' \in BOOLEAN
  OBVIOUS
<1>6. TypeOK' /\ \A o \in Runs : RunInv(o)'
  BY <1>1, <1>2, <1>3, <1>4, <1>5, TypesKeep DEF Inv, TypeOK
<1>7. ASSUME ~overlapped' PROVE FilesInv'
  <2>1. FilesInv /\ \A o \in Runs \ {r} : ~Saving(o)
    BY <1>7 DEF Inv
  <2>2. Place(r)'
    BY <1>1, <1>4 DEF Place
  <2>3. NothingOverwritten' /\ PairsMatch'
    <3>1. NothingOverwritten /\ PairsMatch /\ ~overlapped
      BY <1>7, <2>1 DEF FilesInv
    <3>2. NothingOverwritten'
      BY <1>4, <3>1 DEF NothingOverwritten
    <3>3. PairsMatch'
      BY <1>4, <3>1 DEF PairsMatch
    <3> QED BY <3>2, <3>3
  <2> QED BY <1>1, <2>1, <2>2, <2>3, AloneKeeps
<1> QED BY <1>6, <1>7 DEF Inv

LEMMA FinalizeOrderKeeps ==
  ASSUME Inv, NEW r \in Runs, FinalizeOrder(r)
  PROVE  Inv'
<1>1. faults' \in 0 .. MaxFaults
  BY FaultCounts DEF FinalizeOrder, Inv, TypeOK
<1>2. CASE Exit(r) /\ UNCHANGED <<issued, overlapped>>
  BY <1>1, <1>2, EndsKeep DEF FinalizeOrder, authority
<1>3. CASE /\ UNCHANGED port /\ issued' = issued + 1
           /\ run' = [run EXCEPT ![r].pc = "suffix", ![r].pair = issued + 1]
           /\ overlapped' = (overlapped \/ \E o \in Runs \ {r} : Saving(o))
  <2> DEFINE q == [run[r] EXCEPT !.pc = "suffix", !.pair = issued + 1]
  <2>1. run[r] \in Run /\ issued + 1 \in Pairs
    BY DEF FinalizeOrder, Inv, TypeOK, Pairs
  <2>2. q \in Run /\ q.pc = "suffix" /\ q.pair = issued + 1
    BY <2>1 DEF Run
  <2>3. run' = [run EXCEPT ![r] = q]
    BY <1>3
  <2>4. foreign' \subseteq Pairs /\ UNCHANGED <<files, accounts, ages>> /\ issued < MaxIssued
    BY DEF FinalizeOrder, Inv, TypeOK
  <2> HIDE DEF q
  <2> QED BY <1>1, <1>3, <2>2, <2>3, <2>4, IssuedKeeps
<1> QED BY <1>2, <1>3 DEF FinalizeOrder

LEMMA generateCertKeeps ==
  ASSUME Inv, NEW r \in Runs, generateCert(r)
  PROVE  Inv'
<1> DEFINE q == [run[r] EXCEPT !.pc = "gencert", !.pair = issued + 1]
<1>1. run[r] \in Run /\ issued + 1 \in Pairs /\ issued < MaxIssued
  BY DEF generateCert, Inv, TypeOK, Pairs
<1>2. q \in Run /\ q.pc = "gencert" /\ q.pair = issued + 1
  BY <1>1 DEF Run
<1>3. run' = [run EXCEPT ![r] = q]
  BY DEF generateCert
<1>4. /\ foreign' \subseteq Pairs /\ faults' \in 0 .. MaxFaults /\ port' = port
      /\ UNCHANGED <<files, accounts, ages>> /\ cert = Missing /\ key = Missing
      /\ issued' = issued + 1
      /\ overlapped' = (overlapped \/ \E o \in Runs \ {r} : Saving(o))
  BY <1>1 DEF generateCert, Inv, TypeOK
<1> HIDE DEF q
<1> QED BY <1>1, <1>2, <1>3, <1>4, IssuedKeeps

\* Any numbers have a least one, as < is well-founded.
Lesser == {ss \in Nat \X Nat : ss[1] < ss[2]}

LEMMA LeastIsLeast ==
  ASSUME NEW T \in SUBSET Nat, T # {}
  PROVE  Least(T) \in T
<1>1. IsWellFoundedOn(Lesser, Nat)
  BY NatLessThanWellFounded DEF OpToRel, Lesser
<1>2. PICK m \in T : \A n \in T : <<n, m>> \notin Lesser
  BY <1>1, WFMin
<1>3. \A n \in T : ~(n < m)
  BY <1>2 DEF Lesser
<1>4. \A n \in T : m <= n
  BY <1>3
<1> QED BY <1>4 DEF Least

LEMMA FirstFree ==
  ASSUME Free # {}
  PROVE  findHighestSuffix \in Free
<1>1. Free \in SUBSET Nat
  BY DEF Free, Suffixes
<1> QED BY <1>1, LeastIsLeast DEF findHighestSuffix

LEMMA FindSuffixKeeps ==
  ASSUME Inv, NEW r \in Runs, FindSuffix(r)
  PROVE  Inv'
<1> DEFINE q == [run[r] EXCEPT !.pc = "movecert", !.suffix = findHighestSuffix]
<1>1. findHighestSuffix \in Free /\ findHighestSuffix \in Suffixes
  BY FirstFree DEF FindSuffix, Free
<1>2. run[r] \in Run /\ Saving(r)
  BY DEF FindSuffix, Inv, TypeOK, Saving
<1>3. q \in Run /\ q.pc = "movecert" /\ q.suffix = findHighestSuffix /\ q.pair = run[r].pair
  BY <1>1, <1>2 DEF Run
<1>4. run' = [run EXCEPT ![r] = q]
  BY DEF FindSuffix
<1> HIDE DEF q
<1>5. Moves(r) /\ run'[r] = q
  <2>1. TypeOK /\ port' \in Runs \cup {Nobody} /\ faults' \in 0 .. MaxFaults
    BY DEF FindSuffix, Inv, TypeOK
  <2> QED BY <1>3, <1>4, <2>1, RecordMoves
<1>6. UNCHANGED <<files, authority, accounts, ages, overlapped>>
  BY DEF FindSuffix
<1>7. RunInv(r)'
  BY <1>1, <1>2, <1>3, <1>5 DEF RunInv, Inv
<1>8. TypeOK' /\ \A o \in Runs : RunInv(o)'
  BY <1>5, <1>6, <1>7, QuietTypes DEF Inv
<1>9. ASSUME ~overlapped PROVE FilesInv'
  <2>1. FilesInv /\ \A o \in Runs \ {r} : ~Saving(o)
    BY <1>2, <1>9 DEF Inv, FilesInv
  <2>2. Place(r)'
    BY <1>1, <1>3, <1>5, <1>6 DEF Place, Free, files
  <2>3. NothingOverwritten' /\ PairsMatch'
    BY <1>6, <2>1 DEF FilesInv, NothingOverwritten, PairsMatch, files
  <2> QED BY <1>5, <2>1, <2>2, <2>3, AloneKeeps
<1> QED BY <1>6, <1>8, <1>9 DEF Inv

LEMMA MoveCertKeeps ==
  ASSUME Inv, NEW r \in Runs, MoveCert(r)
  PROVE  Inv'
<1>1. faults' \in 0 .. MaxFaults /\ Saving(r)
  BY FaultCounts DEF MoveCert, Inv, TypeOK, Saving
<1>2. UNCHANGED <<key, keyBackup, stored, due, authority, accounts, ages, overlapped>>
  BY DEF MoveCert
<1>3. CASE Exit(r) /\ UNCHANGED <<cert, certBackup>>
  BY <1>1, <1>2, <1>3, EndsKeep DEF files
<1>4. CASE /\ Goto(r, "movekey") /\ UNCHANGED port /\ cert' = Missing
           /\ certBackup' = IF cert = Missing THEN certBackup
                            ELSE [certBackup EXCEPT ![run[r].suffix] = cert]
  <2> DEFINE n == run[r].suffix
  <2>1. Moves(r) /\ run'[r].pc = "movekey" /\ run'[r].pair = run[r].pair /\ run'[r].suffix = n
    BY <1>1, <1>4, GotoMoves DEF Inv, PCs
  <2>2. n \in Suffixes /\ run[r].pair \in Pairs /\ run[r].pc = "movecert"
    BY <1>1 DEF MoveCert, Inv, RunInv
  <2>3. RunInv(r)'
    BY <2>1, <2>2 DEF RunInv
  <2>4. /\ certBackup' \in [Suffixes -> File] /\ cert' \in File
        /\ \A k \in Suffixes \ {n} : certBackup'[k] = certBackup[k]
        /\ certBackup'[n] = IF cert = Missing THEN certBackup[n] ELSE cert
    BY <1>4, <2>2 DEF Inv, TypeOK, File
  <2>5. TypeOK' /\ \A o \in Runs : RunInv(o)'
    BY <1>2, <2>1, <2>3, <2>4, TypesKeep DEF Inv, TypeOK, authority, accounts
  <2>6. ASSUME ~overlapped PROVE FilesInv'
    <3>1. FilesInv /\ Place(r) /\ \A o \in Runs \ {r} : ~Saving(o)
      BY <1>1, <2>6 DEF Inv, FilesInv
    <3>2. certBackup[n] = Missing /\ keyBackup[n] = Missing
      BY <2>2, <3>1 DEF Place
    <3>3. cert \in Pairs /\ key \in Pairs => cert = key
      BY <2>6, <3>1 DEF FilesInv, PairsMatch
    <3>4. Missing \notin Pairs
      BY DEF Missing, Pairs
    <3>5. Place(r)'
      BY <1>2, <1>4, <2>1, <2>4, <3>2, <3>3, <3>4 DEF Place
    <3>6. PairsMatch'
      BY <1>2, <1>4, <2>2, <2>4, <2>6, <3>1, <3>2, <3>4 DEF FilesInv, PairsMatch
    <3>7. stored["cert"] \subseteq {cert} \cup {certBackup[k] : k \in Suffixes}
      BY <2>6, <3>1 DEF FilesInv, NothingOverwritten
    <3>8. ASSUME NEW p \in stored["cert"] PROVE p \in {certBackup'[k] : k \in Suffixes}
      <4>1. p \in Pairs
        BY DEF Inv, TypeOK
      <4>2. CASE p = cert
        BY <2>2, <2>4, <3>4, <4>1, <4>2
      <4>3. CASE p # cert
        <5>1. PICK k \in Suffixes : p = certBackup[k]
          BY <3>7, <4>3
        <5>2. k # n
          BY <3>2, <3>4, <4>1, <5>1
        <5> QED BY <2>4, <5>1, <5>2
      <4> QED BY <4>2, <4>3
    <3>9. NothingOverwritten'
      BY <1>2, <2>6, <3>1, <3>8 DEF FilesInv, NothingOverwritten
    <3> QED BY <2>1, <3>1, <3>5, <3>6, <3>9, AloneKeeps
  <2> QED BY <1>2, <2>5, <2>6 DEF Inv
<1> QED BY <1>3, <1>4 DEF MoveCert

LEMMA MoveKeyKeeps ==
  ASSUME Inv, NEW r \in Runs, MoveKey(r)
  PROVE  Inv'
<1>1. faults' \in 0 .. MaxFaults /\ Saving(r)
  BY FaultCounts DEF MoveKey, Inv, TypeOK, Saving
<1>2. UNCHANGED <<cert, certBackup, stored, due, authority, accounts, ages, overlapped>>
  BY DEF MoveKey
<1>3. CASE Exit(r) /\ UNCHANGED <<key, keyBackup>>
  BY <1>1, <1>2, <1>3, EndsKeep DEF files
<1>4. CASE /\ Goto(r, "writecert") /\ UNCHANGED port /\ key' = Missing
           /\ keyBackup' = IF key = Missing THEN keyBackup
                           ELSE [keyBackup EXCEPT ![run[r].suffix] = key]
  <2> DEFINE n == run[r].suffix
  <2>1. Moves(r) /\ run'[r].pc = "writecert" /\ run'[r].pair = run[r].pair
    BY <1>1, <1>4, GotoMoves DEF Inv, PCs
  <2>2. n \in Suffixes /\ run[r].pair \in Pairs /\ run[r].pc = "movekey"
    BY <1>1 DEF MoveKey, Inv, RunInv
  <2>3. RunInv(r)'
    BY <2>1, <2>2 DEF RunInv
  <2>4. /\ keyBackup' \in [Suffixes -> File] /\ key' \in File
        /\ \A k \in Suffixes \ {n} : keyBackup'[k] = keyBackup[k]
        /\ keyBackup'[n] = IF key = Missing THEN keyBackup[n] ELSE key
    BY <1>4, <2>2 DEF Inv, TypeOK, File
  <2>5. TypeOK' /\ \A o \in Runs : RunInv(o)'
    BY <1>2, <2>1, <2>3, <2>4, TypesKeep DEF Inv, TypeOK, authority, accounts
  <2>6. ASSUME ~overlapped PROVE FilesInv'
    <3>1. FilesInv /\ Place(r) /\ \A o \in Runs \ {r} : ~Saving(o)
      BY <1>1, <2>6 DEF Inv, FilesInv
    <3>2. /\ keyBackup[n] = Missing /\ cert = Missing
          /\ certBackup[n] \in Pairs /\ key \in Pairs => certBackup[n] = key
      BY <2>2, <3>1 DEF Place
    <3>3. Missing \notin Pairs
      BY DEF Missing, Pairs
    <3>4. Place(r)'
      BY <1>2, <1>4, <2>1, <3>2 DEF Place
    <3>5. PairsMatch'
      BY <1>2, <1>4, <2>2, <2>4, <2>6, <3>1, <3>2, <3>3 DEF FilesInv, PairsMatch
    <3>6. stored["key"] \subseteq {key} \cup {keyBackup[k] : k \in Suffixes}
      BY <2>6, <3>1 DEF FilesInv, NothingOverwritten
    <3>7. ASSUME NEW p \in stored["key"] PROVE p \in {keyBackup'[k] : k \in Suffixes}
      <4>1. p \in Pairs
        BY DEF Inv, TypeOK
      <4>2. CASE p = key
        BY <2>2, <2>4, <3>3, <4>1, <4>2
      <4>3. CASE p # key
        <5>1. PICK k \in Suffixes : p = keyBackup[k]
          BY <3>6, <4>3
        <5>2. k # n
          BY <3>2, <3>3, <4>1, <5>1
        <5> QED BY <2>4, <5>1, <5>2
      <4> QED BY <4>2, <4>3
    <3>8. NothingOverwritten'
      BY <1>2, <2>6, <3>1, <3>7 DEF FilesInv, NothingOverwritten
    <3> QED BY <2>1, <3>1, <3>4, <3>5, <3>8, AloneKeeps
  <2> QED BY <1>2, <2>5, <2>6 DEF Inv
<1> QED BY <1>3, <1>4 DEF MoveKey

\* The certificate is written where none is, whole or not.
LEMMA CertWritten ==
  ASSUME Inv, NEW r \in Runs, run[r].pc \in {"writecert", "gencert"}, Moves(r),
         \/ /\ run'[r].pc \in {"writekey", "genkey"} /\ run'[r].pair = run[r].pair
            /\ cert' = run[r].pair /\ Stored("cert", cert') /\ due' = FALSE
         \/ run'[r].pc = "idle" /\ cert' = Empty /\ UNCHANGED <<stored, due>>,
         UNCHANGED <<key, certBackup, keyBackup, authority, accounts, ages, overlapped>>
  PROVE  Inv'
<1>1. Saving(r) /\ run[r].pair \in Pairs
  BY DEF Inv, RunInv, Saving
<1>2. RunInv(r)'
  BY <1>1 DEF RunInv, Saving
<1>3. cert' \in File /\ due' \in BOOLEAN /\ stored' \in [{"cert", "key"} -> SUBSET Pairs]
  <2>1. cert' \in File /\ cert' \in Pairs \cup {Empty}
    BY <1>1 DEF File
  <2>2. CASE UNCHANGED <<stored, due>>
    BY <2>1, <2>2 DEF Inv, TypeOK
  <2>3. CASE cert' \in Pairs /\ due' = FALSE /\ stored' = [stored EXCEPT !["cert"] = @ \cup {cert'}]
    BY <2>1, <2>3 DEF Inv, TypeOK
  <2> QED BY <1>1, <2>1, <2>2, <2>3 DEF Stored
<1>4. TypeOK' /\ \A o \in Runs : RunInv(o)'
  BY <1>2, <1>3, TypesKeep DEF Inv, TypeOK, authority, accounts
<1>5. ASSUME ~overlapped PROVE FilesInv'
  <2>1. FilesInv /\ Place(r) /\ \A o \in Runs \ {r} : ~Saving(o)
    BY <1>1, <1>5 DEF Inv, FilesInv
  <2>2. cert = Missing /\ key = Missing /\ Missing \notin Pairs
    BY <2>1 DEF Place, Missing, Pairs
  <2>3. Place(r)'
    BY <2>2 DEF Place
  <2>4. PairsMatch'
    BY <1>5, <2>1, <2>2 DEF FilesInv, PairsMatch
  <2>5. stored'["key"] = stored["key"] /\ stored'["cert"] \subseteq stored["cert"] \cup {cert'}
    BY DEF Stored, Inv, TypeOK
  <2>6. stored["cert"] \subseteq {certBackup[k] : k \in Suffixes}
    BY <1>5, <2>1, <2>2 DEF FilesInv, NothingOverwritten, Inv, TypeOK
  <2>7. NothingOverwritten'
    BY <1>5, <2>1, <2>5, <2>6 DEF FilesInv, NothingOverwritten
  <2> QED BY <2>1, <2>3, <2>4, <2>7, AloneKeeps
<1> QED BY <1>4, <1>5 DEF Inv

\* The key is written where none is, whole or not, next to its certificate.
LEMMA KeyWritten ==
  ASSUME Inv, NEW r \in Runs, run[r].pc \in {"writekey", "genkey"}, Moves(r), run'[r].pc = "idle",
         \/ key' = run[r].pair /\ Stored("key", key')
         \/ key' = Empty /\ UNCHANGED stored,
         UNCHANGED <<cert, certBackup, keyBackup, due, authority, accounts, ages, overlapped>>
  PROVE  Inv'
<1>1. Saving(r) /\ run[r].pair \in Pairs
  BY DEF Inv, RunInv, Saving
<1>2. RunInv(r)'
  BY DEF RunInv, Saving
<1>3. key' \in File /\ stored' \in [{"cert", "key"} -> SUBSET Pairs]
  <2>1. key' \in File /\ key' \in Pairs \cup {Empty}
    BY <1>1 DEF File
  <2>2. CASE UNCHANGED stored
    BY <2>1, <2>2 DEF Inv, TypeOK
  <2>3. CASE key' \in Pairs /\ stored' = [stored EXCEPT !["key"] = @ \cup {key'}]
    BY <2>1, <2>3 DEF Inv, TypeOK
  <2> QED BY <1>1, <2>1, <2>2, <2>3 DEF Stored
<1>4. TypeOK' /\ \A o \in Runs : RunInv(o)'
  BY <1>2, <1>3, TypesKeep DEF Inv, TypeOK, authority, accounts
<1>5. ASSUME ~overlapped PROVE FilesInv'
  <2>1. FilesInv /\ Place(r) /\ \A o \in Runs \ {r} : ~Saving(o)
    BY <1>1, <1>5 DEF Inv, FilesInv
  <2>2. cert = run[r].pair /\ key = Missing /\ Missing \notin Pairs /\ Empty \notin Pairs
    BY <2>1 DEF Place, Missing, Empty, Pairs
  <2>3. Place(r)'
    BY DEF Place
  <2>4. PairsMatch'
    BY <1>5, <2>1, <2>2 DEF FilesInv, PairsMatch
  <2>5. stored'["cert"] = stored["cert"] /\ stored'["key"] \subseteq stored["key"] \cup {key'}
    BY DEF Stored, Inv, TypeOK
  <2>6. stored["key"] \subseteq {keyBackup[k] : k \in Suffixes}
    BY <1>5, <2>1, <2>2 DEF FilesInv, NothingOverwritten, Inv, TypeOK
  <2>7. NothingOverwritten'
    BY <1>5, <2>1, <2>5, <2>6 DEF FilesInv, NothingOverwritten
  <2> QED BY <2>1, <2>3, <2>4, <2>7, AloneKeeps
<1> QED BY <1>4, <1>5 DEF Inv

LEMMA WriteCertKeeps ==
  ASSUME Inv, NEW r \in Runs, WriteCert(r) \/ CreateCert(r)
  PROVE  Inv'
<1>1. faults' \in 0 .. MaxFaults /\ run[r].pc \in {"writecert", "gencert"}
  BY FaultCounts DEF WriteCert, CreateCert, Inv, TypeOK
<1>2. UNCHANGED <<key, certBackup, keyBackup, authority, accounts, ages, overlapped>>
  BY DEF WriteCert, CreateCert
<1>3. CASE Exit(r) /\ UNCHANGED <<cert, stored, due>>
  BY <1>1, <1>2, <1>3, EndsKeep DEF files
<1>4. CASE Exit(r) /\ cert' = Empty /\ UNCHANGED <<stored, due>>
  <2>1. Moves(r) /\ run'[r].pc = "idle"
    BY <1>1, <1>4, ExitMoves DEF Inv, Idle
  <2> QED BY <1>1, <1>2, <1>4, <2>1, CertWritten
<1>5. CASE /\ Goto(r, "writekey") \/ Goto(r, "genkey")
           /\ UNCHANGED port
           /\ cert' = run[r].pair /\ Stored("cert", cert') /\ due' = FALSE
  <2>1. Moves(r) /\ run'[r].pc \in {"writekey", "genkey"} /\ run'[r].pair = run[r].pair
    BY <1>1, <1>5, GotoMoves DEF Inv, PCs
  <2> QED BY <1>1, <1>2, <1>5, <2>1, CertWritten
<1> QED BY <1>3, <1>4, <1>5 DEF WriteCert, CreateCert

LEMMA WriteKeyKeeps ==
  ASSUME Inv, NEW r \in Runs, WriteKey(r) \/ CreateKey(r)
  PROVE  Inv'
<1>1. faults' \in 0 .. MaxFaults /\ run[r].pc \in {"writekey", "genkey"} /\ Exit(r)
  BY FaultCounts DEF WriteKey, CreateKey, Inv, TypeOK
<1>2. UNCHANGED <<cert, certBackup, keyBackup, due, authority, accounts, ages, overlapped>>
  BY DEF WriteKey, CreateKey
<1>3. CASE UNCHANGED <<key, stored>>
  BY <1>1, <1>2, <1>3, EndsKeep DEF files
<1>4. CASE \/ key' = run[r].pair /\ Stored("key", key')
           \/ key' = Empty /\ UNCHANGED stored
  <2>1. Moves(r) /\ run'[r].pc = "idle"
    BY <1>1, ExitMoves DEF Inv, Idle
  <2> QED BY <1>1, <1>2, <1>4, <2>1, KeyWritten
<1> QED BY <1>3, <1>4 DEF WriteKey, CreateKey

-----------------------------------------------------------------------------
LEMMA StepInv == Inv /\ [Next]_vars => Inv'
<1> SUFFICES ASSUME Inv, [Next]_vars PROVE Inv'
  OBVIOUS
<1>1. CASE UNCHANGED vars
  <2>1. UNCHANGED <<Values, issued, foreign, due, account, accountKey, port, run,
                    faults, ages, overlapped>>
    BY <1>1 DEF vars, files, authority, accounts, Values
  <2>2. TypeOK' /\ \A r \in Runs : RunInv(r)' /\ (Place(r) => Place(r)')
    BY <2>1 DEF Inv, TypeOK, RunInv, Place, Saving, Values
  <2>3. FilesInv => FilesInv'
    BY <2>1, <2>2 DEF FilesInv, Saving, NothingOverwritten, PairsMatch, Values
  <2> QED BY <2>1, <2>2, <2>3 DEF Inv
<1>2. ASSUME NEW r \in Runs, New(r) \/ generateCert(r) \/ ListenAndServe(r) \/ Killed(r) PROVE Inv'
  BY <1>2, NewKeeps, generateCertKeeps, ListenAndServeKeeps, KilledKeeps
<1>3. ASSUME NEW r \in Runs, Work(r) PROVE Inv'
  BY <1>3, RegisterAccountKeeps, SaveAccountKeeps, LoadCertificateKeeps,
     OrderKeeps, FinalizeOrderKeeps, FindSuffixKeeps, MoveCertKeeps, MoveKeyKeeps,
     WriteCertKeeps, WriteKeyKeeps DEF Work
<1>4. CASE Age
  BY <1>4, AgeKeeps
<1> QED BY <1>1, <1>2, <1>3, <1>4 DEF Next

LEMMA Always == Spec => []Inv
  BY InitInv, StepInv, PTL DEF Spec

\* Every variable has its type, in every reachable state.
THEOREM TypeCorrect == Spec => []TypeOK
  BY Always, PTL DEF Inv

\* SaveCertFiles and generate-cert lose no certificate and no key that was in
\* place, wherever the run is interrupted, unless two runs save at once.
THEOREM NothingIsLost == Spec => []NothingOverwritten
<1>1. Inv => NothingOverwritten
  BY DEF Inv, FilesInv, NothingOverwritten
<1> QED BY <1>1, Always, PTL

\* The key in place and the key of every backup belong to the certificate next
\* to them, unless two runs save at once.
THEOREM PairsStayTogether == Spec => []PairsMatch
<1>1. Inv => PairsMatch
  BY DEF Inv, FilesInv, PairsMatch
<1> QED BY <1>1, Always, PTL
=============================================================================
