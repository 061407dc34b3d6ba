------------------------------ MODULE VaultProofs ------------------------------
(***************************************************************************)
(* Theorems about the vault of the client, for any processes, accounts,    *)
(* commands and faults.                                                    *)
(***************************************************************************)
EXTENDS VaultProperties, FiniteSetTheorems, TLAPS

\* A process is between lock and unlock exactly when it holds the lock on the
\* file it has opened, and each file has one holder.  As long as no lock file was
\* unlinked under a process, the one at the path is the only one that is open.
LockInv ==
  /\ \A p \in Procs :
       /\ Inside(p) <=> proc[p].holds
       /\ Inside(p) \/ proc[p].pc = "flock" <=> proc[p].inode # NoInode
  /\ \A p, q \in Procs :
       proc[p].holds /\ proc[q].holds /\ proc[p].inode = proc[q].inode => p = q
  /\ raced \/ \A p \in Procs : proc[p].inode \in {NoInode, lockFile}

\* The temporary file is what the process inside has made of it.
FileInv ==
  raced \/ /\ vault.state = "whole"
           /\ \A p \in Procs :
                /\ proc[p].pc = "write" => proc[p].out = "tmp" /\ tmp = Broken("empty")
                /\ proc[p].pc = "rename" => tmp = Whole(proc[p].local)

\* A process starts afresh, and one that ends after its save has said so before
\* it gives the lock back.
EndInv ==
  \A p \in Procs :
    /\ proc[p].pc = "idle" => proc[p] = Idle
    /\ proc[p].pc = "read" => ~proc[p].saving
    /\ proc[p].pc \in {"unlock", "remove"} /\ proc[p].ok /\ proc[p].saving => AfterSave(p) # "idle"

\* A copy that is not outdated has what is saved, and what its command changes.
Copied(p) ==
  /\ proc[p].pc \in {"command", "request"} \/ (proc[p].pc \in {"unlock", "remove"} /\ proc[p].ok) =>
       \A a \in Accounts : saved[a] \subseteq proc[p].local[a]
  /\ proc[p].pc \in {"lock", "create", "write", "rename"} \/ (proc[p].pc = "flock" /\ proc[p].saving) =>
       \A a \in Accounts : Apply(saved, p)[a] \subseteq proc[p].local[a]

CopyInv ==
  raced \/ stale \/ /\ \A a \in Accounts : saved[a] \subseteq vault.content[a]
                    /\ \A p \in Procs : ~proc[p].old => Copied(p)

\* The inductive invariant.
Inv == TypeOK /\ LockInv /\ FileInv /\ EndInv /\ CopyInv

-----------------------------------------------------------------------------
\* There are more inodes than processes and the path: one is free.
LEMMA FreshInodeExists ==
  ASSUME TypeOK, lockFile = NoInode
  PROVE  /\ FreshInode \in Inodes /\ FreshInode # NoInode
         /\ \A q \in Procs : proc[q].inode # FreshInode
<1> DEFINE Used == {proc[q].inode : q \in Procs}
<1>1. IsFiniteSet(Procs) /\ Cardinality(Procs) \in Nat
  BY VaultAssumption, FS_CardinalityType
<1>2. IsFiniteSet(Used) /\ Cardinality(Used) <= Cardinality(Procs) /\ Cardinality(Used) \in Nat
  <2> DEFINE f == [q \in Procs |-> proc[q].inode]
  <2>1. f \in Surjection(Procs, Used)
    BY DEF Surjection
  <2> HIDE DEF f, Used
  <2> QED BY <1>1, <2>1, FS_Surjection, FS_CardinalityType
<1>3. IsFiniteSet(Inodes) /\ Cardinality(Inodes) = Cardinality(Procs) + 1
  BY <1>1, FS_Interval DEF Inodes
<1>4. ~(Inodes \subseteq Used)
  BY <1>1, <1>2, <1>3, FS_Subset
<1>5. \A i \in Inodes : i # NoInode
  BY <1>1 DEF Inodes, NoInode
<1>6. \E i \in Inodes : i # lockFile /\ \A q \in Procs : proc[q].inode # i
  BY <1>4, <1>5
<1> QED BY <1>5, <1>6 DEF FreshInode

LEMMA OpenedType ==
  ASSUME TypeOK, Opened
  PROVE  lockFile' \in Inodes /\ lockFile' # NoInode
<1>1. \A i \in Inodes : i # NoInode
  BY VaultAssumption, FS_CardinalityType DEF Inodes, NoInode
<1> QED BY <1>1, FreshInodeExists DEF Opened, TypeOK

LEMMA Contents ==
  /\ NoChange \in Content
  /\ \A c \in Content : \A a \in Accounts : \A v \in SUBSET Attributes : [c EXCEPT ![a] = v] \in Content
  /\ \A c, d \in Content : [a \in Accounts |-> c[a] \ d[a]] \in Content
  /\ \A c, d, e \in Content : [a \in Accounts |-> (c[a] \cup d[a]) \ e[a]] \in Content
  BY DEF NoChange, Content

LEMMA Files ==
  /\ \A c \in Content : Whole(c) \in File
  /\ \A s \in {"none", "empty", "garbled"} : Broken(s) \in File
  /\ \A f \in File : f.content \in Content
  /\ \A f \in File : \A c \in Content : Overwritten(f, c) \subseteq File
  BY Contents DEF Whole, Broken, File, Overwritten

LEMMA IdleType == Idle \in Proc
  BY Contents DEF Idle, Proc

LEMMA EndingType ==
  ASSUME TypeOK, NEW p \in Procs
  PROVE  Ending(p) \in Proc
  BY IdleType DEF TypeOK, Ending, Idle, Proc

LEMMA SaveAsType ==
  ASSUME TypeOK, NEW p \in Procs, NEW c \in Content, SaveAs(p, c)
  PROVE  proc' \in [Procs -> Proc]
<1> DEFINE a == [x \in Accounts |-> c[x] \ proc[p].local[x]]
           d == [x \in Accounts |-> proc[p].local[x] \ c[x]]
<1>1. proc[p] \in Proc /\ proc[p].local \in Content
  BY DEF TypeOK, Proc
<1>2. a \in Content /\ d \in Content
  BY <1>1, Contents
<1> HIDE DEF a, d
<1>3. [proc[p] EXCEPT !.pc = "lock", !.saving = TRUE, !.local = c, !.add = a, !.del = d] \in Proc
  BY <1>1, <1>2 DEF Proc
<1>4. proc' = [proc EXCEPT ![p] = [proc[p] EXCEPT !.pc = "lock", !.saving = TRUE, !.local = c, !.add = a, !.del = d]]
  BY DEF SaveAs, TypeOK, a, d
<1> QED BY <1>3, <1>4 DEF TypeOK

\* What a step does to one process.
Only(p, r) == proc' = [proc EXCEPT ![p] = r]

LEMMA OnlyType ==
  ASSUME TypeOK, NEW p \in Procs, NEW r \in Proc, Only(p, r)
  PROVE  proc' \in [Procs -> Proc]
  BY DEF TypeOK, Only

LEMMA ProcType ==
  ASSUME TypeOK, NEW p \in Procs
  PROVE  proc[p] \in Proc /\ proc[p].local \in Content /\ proc[p].inode \in {NoInode} \cup Inodes
  BY DEF TypeOK, Proc

LEMMA LockType ==
  ASSUME TypeOK, NEW p \in Procs,
         OpenVault(p) \/ OpenLock(p) \/ TryLock(p) \/ Unlock(p) \/ RemoveLock(p)
  PROVE  TypeOK'
<1>1. proc[p] \in Proc
  BY ProcType
<1>2. CASE OpenVault(p)
  <2>1. lockFile' \in Inodes
    BY <1>2, OpenedType DEF OpenVault
  <2>2. PICK c \in Commands :
          Only(p, [proc[p] EXCEPT !.pc = "flock", !.cmd = c, !.inode = lockFile'])
    BY <1>2 DEF OpenVault, TypeOK, Only
  <2>3. [proc[p] EXCEPT !.pc = "flock", !.cmd = c, !.inode = lockFile'] \in Proc
    BY <1>1, <2>1 DEF Proc
  <2>4. proc' \in [Procs -> Proc]
    BY <2>2, <2>3, OnlyType
  <2>5. commands' \in 0 .. MaxCommands
    <3>1. commands < MaxCommands /\ commands' = commands + 1
      BY <1>2 DEF OpenVault
    <3> QED BY <3>1, VaultAssumption DEF TypeOK
  <2> QED BY <1>2, <2>1, <2>4, <2>5 DEF OpenVault, TypeOK
<1>3. CASE OpenLock(p)
  <2>1. lockFile' \in Inodes
    BY <1>3, OpenedType DEF OpenLock
  <2>2. Only(p, [proc[p] EXCEPT !.pc = "flock", !.inode = lockFile'])
    BY <1>3 DEF OpenLock, TypeOK, Only
  <2>3. [proc[p] EXCEPT !.pc = "flock", !.inode = lockFile'] \in Proc
    BY <1>1, <2>1 DEF Proc
  <2> QED BY <1>3, <2>1, <2>2, <2>3, OnlyType DEF OpenLock, TypeOK
<1>4. CASE TryLock(p)
  <2>1. PICK l \in {"create", "read"} :
          \/ Only(p, [proc[p] EXCEPT !.pc = l, !.holds = TRUE])
          \/ Only(p, Idle)
    BY <1>4 DEF TryLock, TypeOK, Only, Exit
  <2>2. [proc[p] EXCEPT !.pc = l, !.holds = TRUE] \in Proc
    BY <1>1 DEF Proc
  <2>3. proc' \in [Procs -> Proc]
    BY <2>1, <2>2, IdleType, OnlyType
  <2> QED BY <1>4, <2>3 DEF TryLock, TypeOK
<1>5. CASE Unlock(p)
  <2>1. Only(p, [proc[p] EXCEPT !.pc = "remove", !.inode = NoInode, !.holds = FALSE])
    BY <1>5 DEF Unlock, TypeOK, Only
  <2>2. [proc[p] EXCEPT !.pc = "remove", !.inode = NoInode, !.holds = FALSE] \in Proc
    BY <1>1 DEF Proc
  <2>3. proc' \in [Procs -> Proc]
    BY <2>1, <2>2, OnlyType
  <2> QED BY <1>5, <2>3 DEF Unlock, TypeOK
<1>6. CASE RemoveLock(p)
  <2>1. PICK l \in {"command", "request", "idle"} :
          Only(p, Idle) \/ Only(p, [proc[p] EXCEPT !.pc = l])
    BY <1>6 DEF RemoveLock, TypeOK, Only, Exit, Goto, AfterSave
  <2>2. [proc[p] EXCEPT !.pc = l] \in Proc
    BY <1>1 DEF Proc
  <2>3. proc' \in [Procs -> Proc]
    BY <2>1, <2>2, IdleType, OnlyType
  <2> QED BY <1>6, <2>3 DEF RemoveLock, TypeOK
<1> QED BY <1>2, <1>3, <1>4, <1>5, <1>6

LEMMA FileType ==
  ASSUME TypeOK, NEW p \in Procs, unlockVault(p) \/ CreateTmp(p) \/ WriteTmp(p) \/ RenameTmp(p)
  PROVE  TypeOK'
<1>1. proc[p] \in Proc /\ proc[p].local \in Content
  BY ProcType
<1>f. Fault("password") \/ Fault("disk") \/ NoFault => faults' \in 0 .. MaxFaults
  BY VaultAssumption DEF Fault, NoFault, TypeOK
<1>2. CASE unlockVault(p)
  <2>1. \/ Only(p, [proc[p] EXCEPT !.pc = "unlock", !.local = vault.content, !.old = FALSE])
        \/ Only(p, Ending(p))
    BY <1>2 DEF unlockVault, TypeOK, Only
  <2>2. vault.content \in Content
    BY Files DEF TypeOK
  <2>3. [proc[p] EXCEPT !.pc = "unlock", !.local = vault.content, !.old = FALSE] \in Proc
    BY <1>1, <2>2 DEF Proc
  <2>4. proc' \in [Procs -> Proc]
    BY <2>1, <2>3, EndingType, OnlyType
  <2> QED BY <1>2, <1>f, <2>4 DEF unlockVault, TypeOK
<1>3. CASE CreateTmp(p)
  <2>1. Only(p, [proc[p] EXCEPT !.pc = "write", !.out = "tmp"])
    BY <1>3 DEF CreateTmp, TypeOK, Only
  <2>2. [proc[p] EXCEPT !.pc = "write", !.out = "tmp"] \in Proc
    BY <1>1 DEF Proc
  <2>3. proc' \in [Procs -> Proc]
    BY <2>1, <2>2, OnlyType
  <2> QED BY <1>3, <2>3, Files DEF CreateTmp, TypeOK
<1>4. CASE WriteTmp(p)
  <2>1. Only(p, [proc[p] EXCEPT !.pc = "rename"]) \/ Only(p, Ending(p))
    BY <1>4 DEF WriteTmp, TypeOK, Only, Goto
  <2>p. [proc[p] EXCEPT !.pc = "rename"] \in Proc
    BY <1>1 DEF Proc
  <2>2. proc' \in [Procs -> Proc]
    BY <2>1, <2>p, EndingType, OnlyType
  <2>3. tmp' \in File /\ vault' \in File
    BY <1>1, <1>4, Files DEF WriteTmp, TypeOK
  <2> QED BY <1>4, <1>f, <2>2, <2>3 DEF WriteTmp, TypeOK
<1>5. CASE RenameTmp(p)
  <2>1. CASE Only(p, Ending(p)) /\ UNCHANGED <<vault, tmp, saved, stale>>
    <3>1. proc' \in [Procs -> Proc]
      BY <2>1, EndingType, OnlyType
    <3> QED BY <1>5, <2>1, <3>1 DEF RenameTmp, TypeOK
  <2>2. CASE ~(Only(p, Ending(p)) /\ UNCHANGED <<vault, tmp, saved, stale>>)
    <3>1. /\ vault' = tmp /\ tmp' = Broken("none")
          /\ proc' = [q \in Procs |->
               IF q = p THEN (IF AfterSave(p) = "idle" THEN Ending(p)
                              ELSE [proc[p] EXCEPT !.pc = "unlock", !.out = "none", !.old = FALSE])
               ELSE [proc[q] EXCEPT !.out = Moved(@), !.old = proc[q].pc # "idle"]]
          /\ saved' = Apply(saved, p)
          /\ stale' = (stale \/ proc[p].old)
      BY <1>5, <2>2 DEF RenameTmp, Only
    <3>2. ASSUME NEW q \in Procs PROVE proc'[q] \in Proc
      <4>1. proc[q] \in Proc
        BY ProcType
      <4>2. Moved(proc[q].out) \in {"none", "tmp", "vault", "gone"}
        BY <4>1 DEF Moved, Proc
      <4>3. [proc[q] EXCEPT !.out = Moved(proc[q].out), !.old = proc[q].pc # "idle"] \in Proc
        <5> DEFINE old == proc[q].pc # "idle"
        <5>1. old \in BOOLEAN
          OBVIOUS
        <5> HIDE DEF old
        <5>2. [proc[q] EXCEPT !.out = Moved(proc[q].out), !.old = old] \in Proc
          BY <4>1, <4>2, <5>1 DEF Proc
        <5> QED BY <5>2 DEF old
      <4>4. [proc[p] EXCEPT !.pc = "unlock", !.out = "none", !.old = FALSE] \in Proc
        BY <1>1 DEF Proc
      <4> QED BY <3>1, <4>3, <4>4, EndingType
    <3>3. proc' \in [Procs -> Proc]
      BY <3>1, <3>2
    <3>4. saved' \in Content
      <4>1. proc[p].add \in Content /\ proc[p].del \in Content /\ saved \in Content
        BY <1>1 DEF Proc, TypeOK
      <4> QED BY <3>1, <4>1, Contents DEF Apply
    <3>5. stale' \in BOOLEAN
      BY <1>1, <3>1 DEF Proc, TypeOK
    <3> QED BY <1>5, <3>1, <3>3, <3>4, <3>5, Files DEF RenameTmp, TypeOK
  <2> QED BY <2>1, <2>2
<1> QED BY <1>2, <1>3, <1>4, <1>5

LEMMA CommandType ==
  ASSUME TypeOK, NEW p \in Procs, Command(p) \/ CreateAccount(p) \/ Requested(p) \/ Killed(p)
  PROVE  TypeOK'
<1>1. proc[p] \in Proc /\ proc[p].local \in Content
  BY ProcType
<1>2. \A c \in Content : SaveAs(p, c) => proc' \in [Procs -> Proc]
  BY SaveAsType
<1>3. Exit(p) => proc' \in [Procs -> Proc]
  BY IdleType DEF Exit, TypeOK
<1>4. \A a \in Accounts : proc[p].local[a] \subseteq Attributes
  BY <1>1 DEF Content
<1>5. CASE Killed(p)
  <2>1. faults' \in 0 .. MaxFaults
    BY <1>5, VaultAssumption DEF Killed, Fault, TypeOK
  <2> QED BY <1>5, <1>3, <2>1 DEF Killed, TypeOK
<1>6. ListAccounts(p) \/ SaveAgain(p) => proc' \in [Procs -> Proc]
  BY <1>1, <1>2, <1>3 DEF ListAccounts, SaveAgain
<1>7. Set(p) => proc' \in [Procs -> Proc]
  <2>1. \A a \in Accounts : \A v \in {proc[p].local[a] \cup {"setting"}, proc[p].local[a] \ {"setting"}} :
          [proc[p].local EXCEPT ![a] = v] \in Content
    BY <1>1, <1>4, Contents DEF Attributes
  <2> QED BY <1>2, <1>3, <2>1 DEF Set, In
<1>8. SetDefault(p) => proc' \in [Procs -> Proc]
  <2>1. \A a \in Accounts :
          [b \in Accounts |-> IF b = a THEN proc[p].local[b] \cup {"default"}
                              ELSE proc[p].local[b] \ {"default"}] \in Content
    BY <1>4 DEF Content, Attributes
  <2> QED BY <1>2, <1>3, <2>1 DEF SetDefault, In
<1>9. UpdatePow(p) => proc' \in [Procs -> Proc]
  <2>1. \A a \in Accounts :
          [proc[p].local EXCEPT ![a] = proc[p].local[a] \cup {"pow"}] \in Content
    BY <1>1, <1>4, Contents DEF Attributes
  <2> QED BY <1>1, <1>2, <1>3, <2>1 DEF UpdatePow, In, Content
<1>10. CASE CreateAccount(p)
  <2>1. CASE \E a \in Accounts \ In(proc[p].local) :
               SaveAs(p, [proc[p].local EXCEPT ![a] = {"key", "pow"}])
    <3>1. \A a \in Accounts : [proc[p].local EXCEPT ![a] = {"key", "pow"}] \in Content
      BY <1>1, Contents DEF Attributes
    <3> QED BY <1>2, <1>10, <2>1, <3>1 DEF CreateAccount, TypeOK
  <2>2. ASSUME NEW a \in In(proc[p].local),
               proc' = [proc EXCEPT ![p].pc = "request",
                                    ![p].add = [NoChange EXCEPT ![a] = proc[p].local[a]]]
        PROVE  TypeOK'
    <3> DEFINE d == [NoChange EXCEPT ![a] = proc[p].local[a]]
    <3>1. d \in Content
      BY <1>4, Contents DEF In
    <3> HIDE DEF d
    <3>2. [proc[p] EXCEPT !.pc = "request", !.add = d] \in Proc
      BY <1>1, <3>1 DEF Proc
    <3>3. Only(p, [proc[p] EXCEPT !.pc = "request", !.add = d])
      BY <2>2 DEF Only, TypeOK, d
    <3>4. proc' \in [Procs -> Proc]
      BY <3>2, <3>3, OnlyType
    <3> QED BY <1>10, <3>4 DEF CreateAccount, TypeOK
  <2> QED BY <1>10, <2>1, <2>2 DEF CreateAccount
<1>11. CASE Requested(p)
  <2>1. \A a \in Accounts : RemoveAccount(proc[p].local, a) \in Content
    BY <1>1, Contents DEF RemoveAccount
  <2> QED BY <1>2, <1>3, <1>11, <2>1 DEF Requested, In, TypeOK
<1>12. CASE Command(p)
  <2>1. proc' \in [Procs -> Proc]
    BY <1>6, <1>7, <1>8, <1>9, <1>12 DEF Command
  <2> QED BY <1>12, <2>1 DEF Command, TypeOK
<1> QED BY <1>5, <1>10, <1>11, <1>12

-----------------------------------------------------------------------------
(***************************************************************************)
(* The lock.                                                               *)
(***************************************************************************)
\* What a step that leaves the locks of the others alone must see to.
LEMMA LockKeeps ==
  ASSUME LockInv, NEW p \in Procs,
         \A q \in Procs \ {p} : /\ proc'[q].pc = proc[q].pc
                                /\ proc'[q].holds = proc[q].holds
                                /\ proc'[q].inode = proc[q].inode,
         Inside(p)' <=> proc'[p].holds,
         Inside(p)' \/ proc'[p].pc = "flock" <=> proc'[p].inode # NoInode,
         proc'[p].holds => \A q \in Procs \ {p} : ~(proc[q].holds /\ proc[q].inode = proc'[p].inode),
         raced' \/ \A q \in Procs : proc'[q].inode \in {NoInode, lockFile'}
  PROVE  LockInv'
<1>1. \A q \in Procs \ {p} : Inside(q)' <=> Inside(q)
  BY DEF Inside
<1>2. \A q \in Procs : /\ Inside(q)' <=> proc'[q].holds
                       /\ Inside(q)' \/ proc'[q].pc = "flock" <=> proc'[q].inode # NoInode
  BY <1>1 DEF LockInv
<1>3. \A q, r \in Procs :
        proc'[q].holds /\ proc'[r].holds /\ proc'[q].inode = proc'[r].inode => q = r
  BY DEF LockInv
<1> QED BY <1>2, <1>3 DEF LockInv

\* A step of p that neither opens nor closes the lock file.
LEMMA SameLock ==
  ASSUME LockInv, NEW p \in Procs, UNCHANGED <<lockFile, raced>>,
         \A q \in Procs \ {p} : /\ proc'[q].pc = proc[q].pc
                                /\ proc'[q].holds = proc[q].holds
                                /\ proc'[q].inode = proc[q].inode,
         proc'[p].holds = proc[p].holds, proc'[p].inode = proc[p].inode,
         Inside(p)' <=> Inside(p), proc[p].pc # "flock" /\ proc'[p].pc # "flock"
  PROVE  LockInv'
<1>1. \A q \in Procs : proc'[q].inode = proc[q].inode
  OBVIOUS
<1>2. proc'[p].holds => \A q \in Procs \ {p} : ~(proc[q].holds /\ proc[q].inode = proc'[p].inode)
  BY DEF LockInv
<1>3. Inside(p)' <=> proc'[p].holds
  BY DEF LockInv
<1>4. Inside(p)' \/ proc'[p].pc = "flock" <=> proc'[p].inode # NoInode
  BY DEF LockInv
<1>5. raced' \/ \A q \in Procs : proc'[q].inode \in {NoInode, lockFile'}
  BY <1>1 DEF LockInv
<1> QED BY <1>2, <1>3, <1>4, <1>5, LockKeeps

\* A process that ends gives back the lock and the lock file.
LEMMA ExitLock ==
  ASSUME TypeOK, LockInv, NEW p \in Procs, Only(p, Idle), UNCHANGED <<lockFile, raced>>
  PROVE  LockInv'
<1>1. proc'[p] = Idle /\ \A q \in Procs \ {p} : proc'[q] = proc[q]
  BY DEF TypeOK, Only
<1>2. proc'[p].inode = NoInode /\ ~proc'[p].holds /\ proc'[p].pc = "idle"
  BY <1>1 DEF Idle
<1>3. \A q \in Procs \ {p} : /\ proc'[q].pc = proc[q].pc
                             /\ proc'[q].holds = proc[q].holds
                             /\ proc'[q].inode = proc[q].inode
  BY <1>1
<1>4. raced' \/ \A q \in Procs : proc'[q].inode \in {NoInode, lockFile'}
  BY <1>1, <1>2 DEF LockInv
<1>5. ~Inside(p)'
  BY <1>2 DEF Inside
<1> QED BY <1>2, <1>3, <1>4, <1>5, LockKeeps

LEMMA OpenKeepsLock ==
  ASSUME TypeOK, LockInv, NEW p \in Procs, OpenVault(p) \/ OpenLock(p)
  PROVE  LockInv'
<1>1. Opened /\ UNCHANGED raced /\ proc[p].pc \in {"idle", "lock"}
  BY DEF OpenVault, OpenLock
<1>2. proc[p] \in Proc
  BY ProcType
<1>3. /\ proc'[p].pc = "flock" /\ proc'[p].inode = lockFile' /\ proc'[p].holds = proc[p].holds
      /\ \A q \in Procs \ {p} : proc'[q] = proc[q]
  <2>1. CASE OpenVault(p)
    <3>1. PICK c \in Commands :
            proc' = [proc EXCEPT ![p].pc = "flock", ![p].cmd = c, ![p].inode = lockFile']
      BY <2>1 DEF OpenVault
    <3> QED BY <1>2, <3>1 DEF TypeOK, Proc
  <2>2. CASE OpenLock(p)
    BY <1>2, <2>2 DEF OpenLock, TypeOK, Proc
  <2> QED BY <2>1, <2>2
<1>4. lockFile' # NoInode
  BY <1>1, OpenedType
<1>5. ~proc'[p].holds /\ ~Inside(p)'
  BY <1>1, <1>3 DEF LockInv, Inside
<1>6. ASSUME ~raced, NEW q \in Procs PROVE proc'[q].inode \in {NoInode, lockFile'}
  BY <1>1, <1>3, <1>6 DEF LockInv, Opened
<1> QED BY <1>1, <1>3, <1>4, <1>5, <1>6, LockKeeps

LEMMA TryLockKeepsLock ==
  ASSUME TypeOK, LockInv, NEW p \in Procs, TryLock(p)
  PROVE  LockInv'
<1>1. UNCHANGED <<lockFile, raced>> /\ proc[p].pc = "flock" /\ proc[p] \in Proc
  BY ProcType DEF TryLock
<1>2. CASE Only(p, Idle)
  BY <1>1, <1>2, ExitLock
<1>3. ASSUME Free(proc[p].inode), NEW l \in {"create", "read"},
             Only(p, [proc[p] EXCEPT !.pc = l, !.holds = TRUE])
      PROVE  LockInv'
  <2>1. /\ proc'[p].pc = l /\ proc'[p].inode = proc[p].inode /\ proc'[p].holds
        /\ \A q \in Procs \ {p} : proc'[q] = proc[q]
    BY <1>1, <1>3 DEF TypeOK, Proc, Only
  <2>2. Inside(p)' /\ proc'[p].inode # NoInode
    BY <1>1, <2>1 DEF Inside, LockInv
  <2>3. \A q \in Procs : proc'[q].inode = proc[q].inode
    BY <2>1
  <2>4. raced' \/ \A q \in Procs : proc'[q].inode \in {NoInode, lockFile'}
    BY <1>1, <2>3 DEF LockInv
  <2>5. \A q \in Procs \ {p} : ~(proc[q].holds /\ proc[q].inode = proc'[p].inode)
    BY <1>3, <2>1 DEF Free
  <2> QED BY <2>1, <2>2, <2>4, <2>5, LockKeeps
<1>4. \/ Only(p, Idle)
      \/ Free(proc[p].inode) /\ \E l \in {"create", "read"} : Only(p, [proc[p] EXCEPT !.pc = l, !.holds = TRUE])
  BY DEF TryLock, TypeOK, Only, Exit
<1> QED BY <1>2, <1>3, <1>4

LEMMA UnlockKeepsLock ==
  ASSUME TypeOK, LockInv, NEW p \in Procs, Unlock(p)
  PROVE  LockInv'
<1>1. UNCHANGED <<lockFile, raced>> /\ proc[p] \in Proc
  BY ProcType DEF Unlock
<1>2. /\ proc'[p].pc = "remove" /\ proc'[p].inode = NoInode /\ ~proc'[p].holds
      /\ \A q \in Procs \ {p} : proc'[q] = proc[q]
  BY <1>1 DEF Unlock, TypeOK, Proc
<1>3. ~Inside(p)'
  BY <1>2 DEF Inside
<1>4. raced' \/ \A q \in Procs : proc'[q].inode \in {NoInode, lockFile'}
  BY <1>1, <1>2 DEF LockInv
<1> QED BY <1>2, <1>3, <1>4, LockKeeps

LEMMA RemoveKeepsLock ==
  ASSUME TypeOK, LockInv, NEW p \in Procs, RemoveLock(p)
  PROVE  LockInv'
<1>1. /\ proc[p].pc = "remove" /\ lockFile' = NoInode /\ proc[p] \in Proc
      /\ raced' = (raced \/ \E q \in Procs \ {p} : lockFile # NoInode /\ proc[q].inode = lockFile)
  BY ProcType DEF RemoveLock
<1>2. PICK l \in {"command", "request", "idle"} :
        Only(p, Idle) \/ Only(p, [proc[p] EXCEPT !.pc = l])
  BY DEF RemoveLock, TypeOK, Only, Exit, Goto, AfterSave
<1>3. ~proc[p].holds /\ proc[p].inode = NoInode
  BY <1>1 DEF LockInv, Inside
<1>4. /\ proc'[p].pc \in {"command", "request", "idle"} /\ ~proc'[p].holds /\ proc'[p].inode = NoInode
      /\ \A q \in Procs \ {p} : proc'[q] = proc[q]
  BY <1>1, <1>2, <1>3 DEF TypeOK, Only, Idle, Proc
<1>5. ~Inside(p)'
  BY <1>4 DEF Inside
<1>6. raced' \/ \A q \in Procs : proc'[q].inode \in {NoInode, lockFile'}
  BY <1>1, <1>4 DEF LockInv
<1> QED BY <1>4, <1>5, <1>6, LockKeeps

\* A rename touches other processes only in where their open file is, and in
\* that what they have read is old now.
LEMMA RenameOthers ==
  ASSUME TypeOK, NEW p \in Procs, RenameTmp(p), NEW q \in Procs \ {p}
  PROVE  /\ proc'[q].pc = proc[q].pc /\ proc'[q].cmd = proc[q].cmd
         /\ proc'[q].saving = proc[q].saving /\ proc'[q].ok = proc[q].ok
         /\ proc'[q].local = proc[q].local
         /\ proc'[q].add = proc[q].add /\ proc'[q].del = proc[q].del
         /\ proc'[q].inode = proc[q].inode /\ proc'[q].holds = proc[q].holds
         /\ proc'[q] = proc[q] \/ proc'[q].old \/ proc[q].pc = "idle"
<1>1. proc[q] \in Proc
  BY ProcType
<1>2. CASE Only(p, Ending(p))
  BY <1>2 DEF Only, TypeOK
<1>3. CASE ~Only(p, Ending(p))
  <2> DEFINE o == Moved(proc[q].out)
  <2>1. proc'[q] = [proc[q] EXCEPT !.out = o, !.old = proc[q].pc # "idle"]
    BY <1>3 DEF RenameTmp, Only
  <2> HIDE DEF o
  <2> QED BY <1>1, <2>1 DEF Proc
<1> QED BY <1>2, <1>3

LEMMA FileKeepsLock ==
  ASSUME TypeOK, LockInv, NEW p \in Procs,
         unlockVault(p) \/ CreateTmp(p) \/ WriteTmp(p) \/ RenameTmp(p)
  PROVE  LockInv'
<1>1. UNCHANGED <<lockFile, raced>> /\ proc[p].pc \in {"read", "create", "write", "rename"}
  BY DEF unlockVault, CreateTmp, WriteTmp, RenameTmp
<1>2. \A q \in Procs : proc[q] \in Proc
  BY ProcType
<1>3. /\ Ending(p).pc = "unlock" /\ Ending(p).holds = proc[p].holds /\ Ending(p).inode = proc[p].inode
  BY DEF Ending, Idle
<1>4. \A q \in Procs \ {p} : /\ proc'[q].pc = proc[q].pc
                             /\ proc'[q].holds = proc[q].holds
                             /\ proc'[q].inode = proc[q].inode
  <2>1. CASE unlockVault(p) \/ CreateTmp(p) \/ WriteTmp(p)
    BY <2>1 DEF unlockVault, CreateTmp, WriteTmp, Goto, TypeOK
  <2>2. CASE RenameTmp(p)
    BY <2>2, RenameOthers
  <2> QED BY <2>1, <2>2
<1>5. /\ proc'[p].pc \in {"unlock", "write", "rename"}
      /\ proc'[p].holds = proc[p].holds /\ proc'[p].inode = proc[p].inode
  <2>1. CASE unlockVault(p)
    BY <1>2, <1>3, <2>1 DEF unlockVault, TypeOK, Proc
  <2>2. CASE CreateTmp(p)
    BY <1>2, <2>2 DEF CreateTmp, TypeOK, Proc
  <2>3. CASE WriteTmp(p)
    BY <1>2, <1>3, <2>3 DEF WriteTmp, TypeOK, Proc, Goto
  <2>4. CASE RenameTmp(p)
    <3> DEFINE r == [proc[p] EXCEPT !.pc = "unlock", !.out = "none", !.old = FALSE]
    <3>1. proc'[p] = Ending(p) \/ proc'[p] = r
      BY <2>4 DEF RenameTmp, TypeOK
    <3>2. r.pc = "unlock" /\ r.holds = proc[p].holds /\ r.inode = proc[p].inode
      BY <1>2 DEF Proc
    <3> QED BY <1>3, <3>1, <3>2
  <2> QED BY <2>1, <2>2, <2>3, <2>4
<1>6. Inside(p) /\ Inside(p)'
  BY <1>1, <1>5 DEF Inside
<1> QED BY <1>1, <1>4, <1>5, <1>6, SameLock

\* What a step of a command does: it ends, saves, or goes on with an account
\* that is in the vault already.
UsesAccount(p, a) ==
  proc' = [proc EXCEPT ![p].pc = "request", ![p].add = [NoChange EXCEPT ![a] = proc[p].local[a]]]

LEMMA CommandSteps ==
  ASSUME TypeOK, NEW p \in Procs,
         Command(p) \/ CreateAccount(p) \/ Requested(p) \/ Killed(p)
  PROVE  \/ Only(p, Idle)
         \/ proc[p].pc \in {"command", "request"} /\ \E c : SaveAs(p, c)
         \/ proc[p].pc = "command" /\ \E a \in In(proc[p].local) : UsesAccount(p, a)
  BY DEF Command, ListAccounts, SaveAgain, Set, SetDefault, UpdatePow, CreateAccount,
         Requested, Killed, Exit, Only, Running, UsesAccount

LEMMA CommandKeepsLock ==
  ASSUME TypeOK, LockInv, NEW p \in Procs,
         Command(p) \/ CreateAccount(p) \/ Requested(p) \/ Killed(p)
  PROVE  LockInv'
<1>1. UNCHANGED <<lockFile, raced>> /\ proc[p] \in Proc
  BY ProcType DEF Command, CreateAccount, Requested, Killed
<1>2. CASE Only(p, Idle)
  BY <1>1, <1>2, ExitLock
<1>3. ASSUME proc[p].pc \in {"command", "request"}, proc'[p].pc \in {"lock", "request"},
             proc'[p].holds = proc[p].holds, proc'[p].inode = proc[p].inode,
             \A q \in Procs \ {p} : proc'[q] = proc[q]
      PROVE  LockInv'
  <2>1. ~Inside(p) /\ ~Inside(p)'
    BY <1>3 DEF Inside
  <2> QED BY <1>1, <1>3, <2>1, SameLock
<1>4. ASSUME NEW c, SaveAs(p, c), proc[p].pc \in {"command", "request"} PROVE LockInv'
  <2>1. /\ proc'[p].pc = "lock"
        /\ proc'[p].holds = proc[p].holds /\ proc'[p].inode = proc[p].inode
        /\ \A q \in Procs \ {p} : proc'[q] = proc[q]
    BY <1>1, <1>4 DEF SaveAs, TypeOK, Proc
  <2> QED BY <1>3, <1>4, <2>1
<1>5. ASSUME NEW a \in In(proc[p].local), UsesAccount(p, a), proc[p].pc = "command" PROVE LockInv'
  <2>1. /\ proc'[p].pc = "request"
        /\ proc'[p].holds = proc[p].holds /\ proc'[p].inode = proc[p].inode
        /\ \A q \in Procs \ {p} : proc'[q] = proc[q]
    BY <1>1, <1>5 DEF UsesAccount, TypeOK, Proc
  <2> QED BY <1>3, <1>5, <2>1
<1> QED BY <1>2, <1>4, <1>5, CommandSteps

\* Until a lock file was unlinked under a process, one is inside at a time.
LEMMA Alone ==
  ASSUME LockInv, ~raced, NEW p \in Procs, NEW q \in Procs, Inside(p), Inside(q)
  PROVE  p = q
  BY DEF LockInv

-----------------------------------------------------------------------------
(***************************************************************************)
(* The files.                                                              *)
(***************************************************************************)
\* The steps outside the files: every process but p stays as it is, and p is
\* not about to write or to rename afterwards.
Outside(p) ==
  /\ \A q \in Procs \ {p} : proc'[q] = proc[q]
  /\ proc'[p].pc \notin {"write", "rename"}
  /\ UNCHANGED <<vault, tmp, saved, stale>>
  /\ raced => raced'

LEMMA OutsideKeepsFiles ==
  ASSUME FileInv, NEW p \in Procs, Outside(p)
  PROVE  FileInv'
  BY DEF FileInv, Outside

LEMMA LockIsOutside ==
  ASSUME TypeOK, NEW p \in Procs,
         OpenVault(p) \/ OpenLock(p) \/ TryLock(p) \/ Unlock(p) \/ RemoveLock(p)
  PROVE  Outside(p)
<1>1. proc[p] \in Proc
  BY ProcType
<1>2. \A q \in Procs \ {p} : proc'[q] = proc[q]
  BY DEF OpenVault, OpenLock, TryLock, Unlock, RemoveLock, Exit, Goto, TypeOK
<1>3. CASE OpenVault(p)
  <2>1. PICK c \in Commands :
          proc' = [proc EXCEPT ![p].pc = "flock", ![p].cmd = c, ![p].inode = lockFile']
    BY <1>3 DEF OpenVault
  <2> QED BY <1>1, <1>2, <1>3, <2>1 DEF OpenVault, Outside, TypeOK, Proc
<1>4. CASE OpenLock(p)
  BY <1>1, <1>2, <1>4 DEF OpenLock, Outside, TypeOK, Proc
<1>5. CASE TryLock(p)
  BY <1>1, <1>2, <1>5 DEF TryLock, Outside, TypeOK, Proc, Exit, Idle
<1>6. CASE Unlock(p)
  BY <1>1, <1>2, <1>6 DEF Unlock, Outside, TypeOK, Proc
<1>7. CASE RemoveLock(p)
  BY <1>1, <1>2, <1>7 DEF RemoveLock, Outside, TypeOK, Proc, Exit, Idle, Goto, AfterSave
<1> QED BY <1>3, <1>4, <1>5, <1>6, <1>7

LEMMA CommandIsOutside ==
  ASSUME TypeOK, NEW p \in Procs,
         Command(p) \/ CreateAccount(p) \/ Requested(p) \/ Killed(p)
  PROVE  Outside(p)
<1>1. proc[p] \in Proc /\ UNCHANGED <<vault, tmp, saved, stale, raced>>
  BY ProcType DEF Command, CreateAccount, Requested, Killed
<1>2. CASE Only(p, Idle)
  BY <1>1, <1>2 DEF Only, Outside, TypeOK, Idle
<1>3. ASSUME NEW c, SaveAs(p, c) PROVE Outside(p)
  BY <1>1, <1>3 DEF SaveAs, Outside, TypeOK, Proc
<1>4. ASSUME NEW a \in In(proc[p].local), UsesAccount(p, a) PROVE Outside(p)
  BY <1>1, <1>4 DEF UsesAccount, Outside, TypeOK, Proc
<1> QED BY <1>2, <1>3, <1>4, CommandSteps

LEMMA FileKeepsFiles ==
  ASSUME TypeOK, LockInv, FileInv, NEW p \in Procs,
         unlockVault(p) \/ CreateTmp(p) \/ WriteTmp(p) \/ RenameTmp(p)
  PROVE  FileInv'
<1>1. UNCHANGED raced /\ Inside(p)
  BY DEF unlockVault, CreateTmp, WriteTmp, RenameTmp, Inside
<1>2. SUFFICES ASSUME ~raced PROVE FileInv'
  BY <1>1 DEF FileInv
<1>3. \A q \in Procs \ {p} : proc[q].pc \notin {"write", "rename"}
  BY <1>1, <1>2, Alone DEF Inside
<1>4. proc[p] \in Proc /\ Ending(p).pc = "unlock"
  BY ProcType DEF Ending, Idle
<1>5. CASE unlockVault(p)
  <2>1. proc'[p].pc = "unlock" /\ \A q \in Procs \ {p} : proc'[q] = proc[q]
    BY <1>4, <1>5 DEF unlockVault, TypeOK, Proc
  <2> QED BY <1>2, <1>3, <1>5, <2>1 DEF unlockVault, FileInv
<1>6. CASE CreateTmp(p)
  <2>1. /\ proc'[p].pc = "write" /\ proc'[p].out = "tmp"
        /\ \A q \in Procs \ {p} : proc'[q] = proc[q]
    BY <1>4, <1>6 DEF CreateTmp, TypeOK, Proc
  <2>2. vault' = vault /\ tmp' = Broken("empty")
    BY <1>6 DEF CreateTmp
  <2>3. \A q \in Procs \ {p} : proc'[q].pc \notin {"write", "rename"}
    BY <1>3, <2>1
  <2> QED BY <1>2, <2>1, <2>2, <2>3 DEF FileInv
<1>7. CASE WriteTmp(p)
  <2>1. CASE Only(p, Ending(p)) /\ UNCHANGED <<vault, tmp>>
    <3>1. proc'[p].pc = "unlock" /\ \A q \in Procs \ {p} : proc'[q] = proc[q]
      BY <1>4, <2>1 DEF Only, TypeOK
    <3> QED BY <1>2, <1>3, <2>1, <3>1 DEF FileInv
  <2>2. CASE ~(Only(p, Ending(p)) /\ UNCHANGED <<vault, tmp>>)
    <3>1. proc[p].out = "tmp" /\ tmp = Broken("empty")
      BY <1>2, <1>7 DEF FileInv, WriteTmp
    <3>2. Goto(p, "rename") /\ UNCHANGED vault /\ tmp' \in Overwritten(tmp, proc[p].local)
      BY <1>7, <2>2, <3>1 DEF WriteTmp, Only
    <3>3. tmp' = Whole(proc[p].local)
      BY <3>1, <3>2 DEF Overwritten, Broken
    <3>4. /\ proc'[p].pc = "rename" /\ proc'[p].local = proc[p].local
          /\ \A q \in Procs \ {p} : proc'[q] = proc[q]
      BY <1>4, <3>2 DEF Goto, TypeOK, Proc
    <3> QED BY <1>2, <1>3, <3>2, <3>3, <3>4 DEF FileInv
  <2> QED BY <2>1, <2>2
<1>8. CASE RenameTmp(p)
  <2>1. tmp = Whole(proc[p].local) /\ tmp.state = "whole"
    <3>1. tmp = Whole(proc[p].local)
      BY <1>2, <1>8 DEF FileInv, RenameTmp
    <3> QED BY <3>1 DEF Whole
  <2>2. vault' = tmp
    BY <1>8, <2>1 DEF RenameTmp
  <2>3. proc'[p].pc = "unlock"
    <3>1. CASE AfterSave(p) = "idle"
      <4>1. proc'[p] = Ending(p)
        BY <1>8, <2>1, <3>1 DEF RenameTmp
      <4> QED BY <1>4, <4>1
    <3>2. CASE AfterSave(p) # "idle"
      <4>1. proc'[p] = [proc[p] EXCEPT !.pc = "unlock", !.out = "none", !.old = FALSE]
        BY <1>8, <2>1, <3>2 DEF RenameTmp
      <4> QED BY <1>4, <4>1 DEF Proc
    <3> QED BY <3>1, <3>2
  <2>4. \A q \in Procs : proc'[q].pc \notin {"write", "rename"}
    BY <1>3, <1>8, <2>3, RenameOthers
  <2> QED BY <1>2, <2>1, <2>2, <2>4 DEF FileInv
<1> QED BY <1>5, <1>6, <1>7, <1>8

-----------------------------------------------------------------------------
(***************************************************************************)
(* How commands begin and end.                                             *)
(***************************************************************************)
LEMMA IdleFields == Idle.pc = "idle" /\ Idle.out = "none" /\ ~Idle.old
  BY DEF Idle

LEMMA EndKeeps ==
  ASSUME EndInv, NEW p \in Procs, \A q \in Procs \ {p} : proc'[q] = proc[q],
         proc'[p].pc = "idle" => proc'[p] = Idle,
         proc'[p].pc = "read" => ~proc'[p].saving,
         proc'[p].pc \in {"unlock", "remove"} /\ proc'[p].ok /\ proc'[p].saving => AfterSave(p)' # "idle"
  PROVE  EndInv'
  BY DEF EndInv, AfterSave

LEMMA LockKeepsEnd ==
  ASSUME TypeOK, EndInv, NEW p \in Procs,
         OpenVault(p) \/ OpenLock(p) \/ TryLock(p) \/ Unlock(p) \/ RemoveLock(p)
  PROVE  EndInv'
<1>1. proc[p] \in Proc /\ \A q \in Procs \ {p} : proc'[q] = proc[q]
  BY ProcType, LockIsOutside DEF Outside
<1>2. CASE OpenVault(p) \/ OpenLock(p)
  <2>1. proc'[p].pc = "flock"
    <3>1. CASE OpenVault(p)
      <4>1. PICK c \in Commands :
              proc' = [proc EXCEPT ![p].pc = "flock", ![p].cmd = c, ![p].inode = lockFile']
        BY <3>1 DEF OpenVault
      <4> QED BY <1>1, <4>1 DEF TypeOK, Proc
    <3>2. CASE OpenLock(p)
      BY <1>1, <3>2 DEF OpenLock, TypeOK, Proc
    <3> QED BY <1>2, <3>1, <3>2
  <2> QED BY <1>1, <2>1, EndKeeps
<1>3. CASE TryLock(p)
  <2>1. \/ proc'[p] = Idle
        \/ proc'[p].pc = "create"
        \/ proc'[p].pc = "read" /\ ~proc'[p].saving
    BY <1>1, <1>3 DEF TryLock, TypeOK, Proc, Exit
  <2> QED BY <1>1, <2>1, EndKeeps, IdleFields
<1>4. CASE Unlock(p)
  <2>1. /\ proc'[p].pc = "remove" /\ proc[p].pc = "unlock"
        /\ proc'[p].ok = proc[p].ok /\ proc'[p].saving = proc[p].saving
        /\ proc'[p].cmd = proc[p].cmd /\ proc'[p].add = proc[p].add
    BY <1>1, <1>4 DEF Unlock, TypeOK, Proc
  <2>2. AfterSave(p)' = AfterSave(p)
    BY <2>1 DEF AfterSave
  <2>3. proc'[p].ok /\ proc'[p].saving => AfterSave(p)' # "idle"
    BY <2>1, <2>2 DEF EndInv
  <2> QED BY <1>1, <2>1, <2>3, EndKeeps
<1>5. CASE RemoveLock(p)
  <2>1. proc[p].pc = "remove" /\ (proc[p].ok /\ proc[p].saving => AfterSave(p) # "idle")
    BY <1>5 DEF RemoveLock, EndInv
  <2>2. proc'[p] = Idle \/ proc'[p].pc \in {"command", "request"}
    BY <1>1, <1>5, <2>1 DEF RemoveLock, TypeOK, Proc, Exit, Goto, AfterSave
  <2> QED BY <1>1, <2>2, EndKeeps, IdleFields
<1> QED BY <1>2, <1>3, <1>4, <1>5

LEMMA CommandKeepsEnd ==
  ASSUME TypeOK, EndInv, NEW p \in Procs,
         Command(p) \/ CreateAccount(p) \/ Requested(p) \/ Killed(p)
  PROVE  EndInv'
<1>1. proc[p] \in Proc /\ \A q \in Procs \ {p} : proc'[q] = proc[q]
  BY ProcType, CommandIsOutside DEF Outside
<1>2. proc'[p] = Idle \/ proc'[p].pc \in {"lock", "request"}
  <2>1. CASE Only(p, Idle)
    BY <2>1 DEF Only, TypeOK
  <2>2. ASSUME NEW c, SaveAs(p, c) PROVE proc'[p].pc = "lock"
    BY <1>1, <2>2 DEF SaveAs, TypeOK, Proc
  <2>3. ASSUME NEW a \in In(proc[p].local), UsesAccount(p, a) PROVE proc'[p].pc = "request"
    BY <1>1, <2>3 DEF UsesAccount, TypeOK, Proc
  <2> QED BY <2>1, <2>2, <2>3, CommandSteps
<1> QED BY <1>1, <1>2, EndKeeps, IdleFields

LEMMA FileKeepsEnd ==
  ASSUME TypeOK, EndInv, NEW p \in Procs,
         unlockVault(p) \/ CreateTmp(p) \/ WriteTmp(p) \/ RenameTmp(p)
  PROVE  EndInv'
<1>1. proc[p] \in Proc
  BY ProcType
<1>2. Ending(p).pc = "unlock" /\ ~Ending(p).ok
  BY DEF Ending, Idle
<1>3. CASE unlockVault(p)
  <2>1. /\ proc[p].pc = "read" /\ proc'[p].pc = "unlock"
        /\ ~proc'[p].ok \/ proc'[p].saving = proc[p].saving
        /\ \A q \in Procs \ {p} : proc'[q] = proc[q]
    BY <1>1, <1>2, <1>3 DEF unlockVault, TypeOK, Proc
  <2>2. ~(proc'[p].ok /\ proc'[p].saving)
    BY <2>1 DEF EndInv
  <2> QED BY <2>1, <2>2, EndKeeps
<1>4. CASE CreateTmp(p)
  <2>1. proc'[p].pc = "write" /\ \A q \in Procs \ {p} : proc'[q] = proc[q]
    BY <1>1, <1>4 DEF CreateTmp, TypeOK, Proc
  <2> QED BY <2>1, EndKeeps
<1>5. CASE WriteTmp(p)
  <2>1. /\ proc'[p].pc = "rename" \/ proc'[p] = Ending(p)
        /\ \A q \in Procs \ {p} : proc'[q] = proc[q]
    BY <1>1, <1>5 DEF WriteTmp, Goto, TypeOK, Proc
  <2> QED BY <1>2, <2>1, EndKeeps
<1>6. CASE RenameTmp(p)
  <2>1. \/ proc'[p] = Ending(p)
        \/ /\ proc'[p].pc = "unlock" /\ proc'[p].cmd = proc[p].cmd /\ proc'[p].add = proc[p].add
           /\ AfterSave(p) # "idle"
    <3>1. \/ proc'[p] = Ending(p)
          \/ /\ proc'[p] = [proc[p] EXCEPT !.pc = "unlock", !.out = "none", !.old = FALSE]
             /\ AfterSave(p) # "idle"
      BY <1>6 DEF RenameTmp, TypeOK
    <3> QED BY <1>1, <3>1 DEF Proc
  <2>2. /\ proc'[p].pc \notin {"idle", "read"}
        /\ proc'[p].ok => AfterSave(p)' # "idle"
    BY <1>2, <2>1 DEF AfterSave
  <2>3. ASSUME NEW q \in Procs \ {p}
        PROVE  /\ proc'[q].pc = "idle" => proc'[q] = Idle
               /\ proc'[q].pc = "read" => ~proc'[q].saving
               /\ proc'[q].pc \in {"unlock", "remove"} /\ proc'[q].ok /\ proc'[q].saving =>
                    AfterSave(q)' # "idle"
    <3>1. AfterSave(q)' = AfterSave(q)
      BY <1>6, RenameOthers DEF AfterSave
    <3>2. ASSUME proc[q] = Idle PROVE proc'[q] = Idle
      <4>1. \/ proc'[q] = proc[q]
            \/ proc'[q] = [proc[q] EXCEPT !.out = Moved(proc[q].out), !.old = proc[q].pc # "idle"]
        BY <1>6 DEF RenameTmp, TypeOK
      <4>2. Moved(proc[q].out) = "none" /\ (proc[q].pc # "idle") = FALSE
        BY <3>2, IdleFields DEF Moved
      <4>3. [Idle EXCEPT !.out = "none", !.old = FALSE] = Idle
        BY IdleFields, IdleType DEF Proc
      <4> QED BY <3>2, <4>1, <4>2, <4>3
    <3> QED BY <1>6, <3>1, <3>2, RenameOthers DEF EndInv
  <2> QED BY <2>2, <2>3 DEF EndInv
<1> QED BY <1>3, <1>4, <1>5, <1>6

-----------------------------------------------------------------------------
(***************************************************************************)
(* The copies of the vault.                                                *)
(***************************************************************************)
\* The step of p leaves the vault, what is saved, and the other processes alone.
LEMMA CopyKeeps ==
  ASSUME CopyInv, NEW p \in Procs, \A q \in Procs \ {p} : proc'[q] = proc[q],
         UNCHANGED <<vault, saved, stale>>, raced => raced',
         ~raced' /\ ~stale /\ ~proc'[p].old => Copied(p)'
  PROVE  CopyInv'
<1>1. SUFFICES ASSUME ~raced', ~stale' PROVE CopyInv'
  BY DEF CopyInv
<1>2. ~raced /\ ~stale
  BY <1>1
<1>3. ASSUME NEW q \in Procs \ {p}, ~proc'[q].old PROVE Copied(q)'
  <2>1. Copied(q)
    BY <1>2, <1>3 DEF CopyInv
  <2> QED BY <2>1 DEF Copied, Apply
<1> QED BY <1>1, <1>2, <1>3 DEF CopyInv

\* What p has copied stays so as long as it goes on with the same copy.
SameCopy(p) ==
  /\ proc'[p].local = proc[p].local /\ proc'[p].add = proc[p].add /\ proc'[p].del = proc[p].del
  /\ proc'[p].old = proc[p].old /\ proc'[p].ok = proc[p].ok /\ proc'[p].saving = proc[p].saving

LEMMA LockKeepsCopy ==
  ASSUME TypeOK, EndInv, CopyInv, NEW p \in Procs,
         OpenVault(p) \/ OpenLock(p) \/ TryLock(p) \/ Unlock(p) \/ RemoveLock(p)
  PROVE  CopyInv'
<1>1. proc[p] \in Proc /\ Outside(p)
  BY ProcType, LockIsOutside
<1>2. SUFFICES ASSUME ~raced', ~stale, ~proc'[p].old PROVE Copied(p)'
  BY <1>1, CopyKeeps DEF Outside
<1>3. ~raced /\ UNCHANGED saved
  BY <1>1, <1>2 DEF Outside
<1>4. CASE proc'[p] = Idle
  BY <1>4, IdleFields DEF Copied
<1>5. CASE OpenVault(p)
  <2>1. PICK c \in Commands :
          proc' = [proc EXCEPT ![p].pc = "flock", ![p].cmd = c, ![p].inode = lockFile']
    BY <1>5 DEF OpenVault
  <2>2. proc[p] = Idle
    BY <1>5 DEF OpenVault, EndInv
  <2>3. ~Idle.saving
    BY DEF Idle
  <2>4. proc'[p].pc = "flock" /\ ~proc'[p].saving
    BY <1>1, <2>1, <2>2, <2>3 DEF TypeOK, Proc
  <2> QED BY <2>4 DEF Copied
<1>6. ASSUME SameCopy(p),
             \/ proc[p].pc = "lock" /\ proc'[p].pc = "flock"
             \/ proc[p].pc = "flock" /\ proc[p].saving /\ proc'[p].pc = "create"
             \/ proc[p].pc = "unlock" /\ proc'[p].pc = "remove"
             \/ proc[p].pc = "remove" /\ proc[p].ok /\ proc'[p].pc \in {"command", "request"}
      PROVE  Copied(p)'
  <2>1. Copied(p)
    BY <1>2, <1>3, <1>6 DEF CopyInv, SameCopy
  <2> QED BY <1>3, <1>6, <2>1 DEF Copied, Apply, SameCopy
<1>7. CASE OpenLock(p)
  <2>1. SameCopy(p) /\ proc[p].pc = "lock" /\ proc'[p].pc = "flock"
    BY <1>1, <1>7 DEF OpenLock, TypeOK, Proc, SameCopy
  <2> QED BY <1>6, <2>1
<1>8. CASE TryLock(p)
  <2>1. \/ proc'[p] = Idle
        \/ proc'[p].pc = "read"
        \/ SameCopy(p) /\ proc[p].pc = "flock" /\ proc[p].saving /\ proc'[p].pc = "create"
    BY <1>1, <1>8 DEF TryLock, TypeOK, Proc, Exit, SameCopy
  <2>2. proc'[p].pc = "read" => Copied(p)'
    BY DEF Copied
  <2> QED BY <1>4, <1>6, <2>1, <2>2
<1>9. CASE Unlock(p)
  <2>1. SameCopy(p) /\ proc[p].pc = "unlock" /\ proc'[p].pc = "remove"
    BY <1>1, <1>9 DEF Unlock, TypeOK, Proc, SameCopy
  <2> QED BY <1>6, <2>1
<1>10. CASE RemoveLock(p)
  <2>1. proc[p].ok /\ proc[p].saving => AfterSave(p) # "idle"
    BY <1>10 DEF RemoveLock, EndInv
  <2>2. \/ proc'[p] = Idle
        \/ /\ SameCopy(p) /\ proc[p].pc = "remove" /\ proc[p].ok
           /\ proc'[p].pc \in {"command", "request"}
    BY <1>1, <1>10, <2>1 DEF RemoveLock, TypeOK, Proc, Exit, Goto, AfterSave, SameCopy
  <2> QED BY <1>4, <1>6, <2>2
<1> QED BY <1>5, <1>7, <1>8, <1>9, <1>10

LEMMA CommandKeepsCopy ==
  ASSUME TypeOK, CopyInv, NEW p \in Procs,
         Command(p) \/ CreateAccount(p) \/ Requested(p) \/ Killed(p)
  PROVE  CopyInv'
<1>1. proc[p] \in Proc /\ Outside(p)
  BY ProcType, CommandIsOutside
<1>2. SUFFICES ASSUME ~raced', ~stale, ~proc'[p].old PROVE Copied(p)'
  BY <1>1, CopyKeeps DEF Outside
<1>3. ~raced /\ UNCHANGED saved
  BY <1>1, <1>2 DEF Outside
<1>4. CASE Only(p, Idle)
  <2>1. proc'[p] = Idle
    BY <1>4 DEF Only, TypeOK
  <2> QED BY <2>1, IdleFields DEF Copied
<1>5. ASSUME NEW c, SaveAs(p, c), proc[p].pc \in {"command", "request"} PROVE Copied(p)'
  <2>1. /\ proc'[p].pc = "lock" /\ proc'[p].local = c /\ proc'[p].old = proc[p].old
        /\ proc'[p].add = [a \in Accounts |-> c[a] \ proc[p].local[a]]
        /\ proc'[p].del = [a \in Accounts |-> proc[p].local[a] \ c[a]]
    BY <1>1, <1>5 DEF SaveAs, TypeOK, Proc
  <2>2. \A a \in Accounts : saved[a] \subseteq proc[p].local[a]
    BY <1>2, <1>3, <1>5, <2>1 DEF CopyInv, Copied
  <2>3. \A a \in Accounts : Apply(saved, p)'[a] \subseteq c[a]
    BY <1>3, <2>1, <2>2 DEF Apply
  <2> QED BY <2>1, <2>3 DEF Copied
<1>6. ASSUME NEW a \in In(proc[p].local), UsesAccount(p, a), proc[p].pc = "command"
      PROVE  Copied(p)'
  <2>1. proc'[p].pc = "request" /\ proc'[p].local = proc[p].local /\ proc'[p].old = proc[p].old
    BY <1>1, <1>6 DEF UsesAccount, TypeOK, Proc
  <2> QED BY <1>2, <1>3, <1>6, <2>1 DEF CopyInv, Copied
<1> QED BY <1>4, <1>5, <1>6, CommandSteps

LEMMA FileKeepsCopy ==
  ASSUME TypeOK, LockInv, FileInv, CopyInv, NEW p \in Procs,
         unlockVault(p) \/ CreateTmp(p) \/ WriteTmp(p) \/ RenameTmp(p)
  PROVE  CopyInv'
<1>1. proc[p] \in Proc /\ UNCHANGED raced
  BY ProcType DEF unlockVault, CreateTmp, WriteTmp, RenameTmp
<1>s. stale => stale'
  <2>1. CASE unlockVault(p) \/ CreateTmp(p) \/ WriteTmp(p)
    BY <2>1 DEF unlockVault, CreateTmp, WriteTmp
  <2>2. CASE RenameTmp(p)
    BY <2>2 DEF RenameTmp
  <2> QED BY <2>1, <2>2
<1>2. SUFFICES ASSUME ~raced, ~stale, ~stale' PROVE CopyInv'
  BY <1>1, <1>s DEF CopyInv
<1>3. ASSUME proc'[p] = Ending(p) PROVE Copied(p)'
  <2>1. Ending(p).pc = "unlock" /\ ~Ending(p).ok
    BY DEF Ending, Idle
  <2> QED BY <1>3, <2>1 DEF Copied
<1>4. CASE unlockVault(p)
  <2>1. /\ UNCHANGED <<vault, saved, stale>> /\ \A q \in Procs \ {p} : proc'[q] = proc[q]
        /\ proc'[p] = Ending(p) \/ (proc'[p].pc = "unlock" /\ proc'[p].local = vault.content)
    <3>1. \/ proc' = [proc EXCEPT ![p] = Ending(p)]
          \/ proc' = [proc EXCEPT ![p].pc = "unlock", ![p].local = vault.content, ![p].old = FALSE]
      BY <1>4 DEF unlockVault
    <3>2. UNCHANGED <<vault, saved, stale>>
      BY <1>4 DEF unlockVault
    <3>3. CASE proc' = [proc EXCEPT ![p] = Ending(p)]
      BY <3>2, <3>3 DEF TypeOK
    <3>4. CASE proc' = [proc EXCEPT ![p].pc = "unlock", ![p].local = vault.content, ![p].old = FALSE]
      BY <1>1, <3>2, <3>4 DEF TypeOK, Proc
    <3> QED BY <3>1, <3>3, <3>4
  <2>2. \A a \in Accounts : saved[a] \subseteq vault.content[a]
    BY <1>2 DEF CopyInv
  <2>3. Copied(p)'
    BY <1>3, <2>1, <2>2 DEF Copied
  <2> QED BY <1>1, <2>1, <2>3, CopyKeeps
<1>5. CASE CreateTmp(p)
  <2>1. /\ UNCHANGED <<vault, saved, stale>> /\ \A q \in Procs \ {p} : proc'[q] = proc[q]
        /\ proc[p].pc = "create" /\ proc'[p].pc = "write" /\ SameCopy(p)
    BY <1>1, <1>5 DEF CreateTmp, TypeOK, Proc, SameCopy
  <2>2. ~proc'[p].old => Copied(p)'
    BY <1>2, <2>1 DEF CopyInv, Copied, Apply, SameCopy
  <2> QED BY <1>1, <2>1, <2>2, CopyKeeps
<1>6. CASE WriteTmp(p)
  <2>1. proc[p].pc = "write" /\ proc[p].out = "tmp" /\ UNCHANGED <<saved, stale>>
    BY <1>2, <1>6 DEF FileInv, WriteTmp
  <2>2. /\ UNCHANGED vault /\ \A q \in Procs \ {p} : proc'[q] = proc[q]
        /\ proc'[p] = Ending(p) \/ (proc'[p].pc = "rename" /\ SameCopy(p))
    BY <1>1, <1>6, <2>1 DEF WriteTmp, TypeOK, Proc, Goto, SameCopy
  <2>3. ~proc'[p].old => Copied(p)'
    BY <1>2, <1>3, <2>1, <2>2 DEF CopyInv, Copied, Apply, SameCopy
  <2> QED BY <1>1, <2>1, <2>2, <2>3, CopyKeeps
<1>7. CASE RenameTmp(p)
  <2>1. tmp = Whole(proc[p].local) /\ tmp.state # "none" /\ tmp.content = proc[p].local
    <3>1. tmp = Whole(proc[p].local)
      BY <1>2, <1>7 DEF FileInv, RenameTmp
    <3> QED BY <3>1 DEF Whole
  <2>2. /\ vault' = tmp /\ saved' = Apply(saved, p) /\ ~proc[p].old
    BY <1>2, <1>7, <2>1 DEF RenameTmp
  <2>3. Copied(p) /\ proc[p].pc = "rename"
    BY <1>2, <1>7, <2>2 DEF CopyInv, RenameTmp
  <2>4. \A a \in Accounts : saved'[a] \subseteq proc[p].local[a]
    BY <2>2, <2>3 DEF Copied
  <2>5. Copied(p)'
    <3>1. \/ proc'[p] = Ending(p)
          \/ proc'[p] = [proc[p] EXCEPT !.pc = "unlock", !.out = "none", !.old = FALSE]
      BY <1>7, <2>1 DEF RenameTmp
    <3>2. CASE proc'[p] # Ending(p)
      <4>1. proc'[p].pc = "unlock" /\ proc'[p].local = proc[p].local
        BY <1>1, <3>1, <3>2 DEF Proc
      <4> QED BY <2>4, <4>1 DEF Copied
    <3> QED BY <1>3, <3>2
  <2>6. ASSUME NEW q \in Procs \ {p}, ~proc'[q].old PROVE Copied(q)'
    <3>1. proc'[q].pc = "idle"
      <4>1. proc'[q] = [proc[q] EXCEPT !.out = Moved(proc[q].out), !.old = proc[q].pc # "idle"]
        BY <1>7, <2>1 DEF RenameTmp
      <4>2. proc[q] \in Proc
        BY ProcType
      <4> QED BY <2>6, <4>1, <4>2 DEF Proc
    <3> QED BY <3>1 DEF Copied
  <2> QED BY <2>1, <2>2, <2>4, <2>5, <2>6 DEF CopyInv
<1> QED BY <1>4, <1>5, <1>6, <1>7

-----------------------------------------------------------------------------
LEMMA InitInv == Init => Inv
<1> SUFFICES ASSUME Init PROVE Inv
  OBVIOUS
<1>1. PICK c \in Content : vault = Whole(c)
  BY DEF Init
<1>2. vault.state = "whole" /\ vault.content = c
  BY <1>1 DEF Whole
<1>3. \A p \in Procs : proc[p] = Idle
  BY DEF Init
<1>4. /\ Idle.pc = "idle" /\ ~Idle.holds /\ Idle.inode = NoInode /\ ~Idle.saving
  BY DEF Idle
<1>5. TypeOK
  <2>1. vault \in File /\ tmp \in File /\ saved \in Content
    BY <1>1, <1>2, Files DEF Init
  <2>2. proc \in [Procs -> Proc] /\ lockFile = NoInode /\ raced \in BOOLEAN /\ stale \in BOOLEAN
    BY IdleType DEF Init
  <2>3. commands \in 0 .. MaxCommands /\ faults \in 0 .. MaxFaults
    BY VaultAssumption DEF Init
  <2> QED BY <2>1, <2>2, <2>3 DEF TypeOK
<1>6. LockInv
  BY <1>3, <1>4 DEF Init, LockInv, Inside
<1>7. FileInv /\ EndInv
  BY <1>2, <1>3, <1>4 DEF FileInv, EndInv
<1>8. CopyInv
  BY <1>2, <1>3, <1>4 DEF Init, CopyInv, Copied
<1> QED BY <1>5, <1>6, <1>7, <1>8 DEF Inv

LEMMA NextKeeps ==
  ASSUME Inv, NEW p \in Procs,
         \/ OpenVault(p) \/ OpenLock(p) \/ TryLock(p) \/ Unlock(p) \/ RemoveLock(p)
         \/ unlockVault(p) \/ CreateTmp(p) \/ WriteTmp(p) \/ RenameTmp(p)
         \/ Command(p) \/ CreateAccount(p) \/ Requested(p) \/ Killed(p)
  PROVE  Inv'
<1> USE DEF Inv
<1>1. CASE OpenVault(p) \/ OpenLock(p) \/ TryLock(p) \/ Unlock(p) \/ RemoveLock(p)
  <2>1. LockInv'
    BY <1>1, OpenKeepsLock, TryLockKeepsLock, UnlockKeepsLock, RemoveKeepsLock
  <2>2. Outside(p)
    BY <1>1, LockIsOutside
  <2> QED BY <1>1, <2>1, <2>2, LockType, OutsideKeepsFiles, LockKeepsEnd, LockKeepsCopy
<1>2. CASE unlockVault(p) \/ CreateTmp(p) \/ WriteTmp(p) \/ RenameTmp(p)
  BY <1>2, FileType, FileKeepsLock, FileKeepsFiles, FileKeepsEnd, FileKeepsCopy
<1>3. CASE Command(p) \/ CreateAccount(p) \/ Requested(p) \/ Killed(p)
  <2>1. Outside(p)
    BY <1>3, CommandIsOutside
  <2> QED BY <1>3, <2>1, CommandType, CommandKeepsLock, OutsideKeepsFiles, CommandKeepsEnd,
             CommandKeepsCopy
<1> QED BY <1>1, <1>2, <1>3

LEMMA StutterKeeps ==
  ASSUME Inv, UNCHANGED vars
  PROVE  Inv'
  BY DEF Inv, vars, TypeOK, LockInv, Inside, FileInv, EndInv, AfterSave, CopyInv, Copied, Apply

LEMMA Inductive == Spec => []Inv
<1>1. ASSUME Inv, [Next]_vars PROVE Inv'
  BY <1>1, NextKeeps, StutterKeeps DEF Next
<1> QED BY <1>1, InitInv, PTL DEF Spec

\* Every variable has its type.
THEOREM TypeCorrect == Spec => []TypeOK
<1>1. Inv => TypeOK
  BY DEF Inv
<1> QED BY <1>1, Inductive, PTL

\* Until RemoveLock unlinks the lock file that another process has open, one
\* process is between lock and unlock at a time.
THEOREM LockExcludes == Spec => []OneInside
<1>1. Inv => OneInside
  BY Alone DEF Inv, OneInside
<1> QED BY <1>1, Inductive, PTL

\* Until then, the vault at the path is whole at every moment.
THEOREM VaultStaysReadable == Spec => []VaultReadable
<1>1. Inv => VaultReadable
  BY DEF Inv, FileInv, VaultReadable
<1> QED BY <1>1, Inductive, PTL

\* Until then, and until an old copy is written back, the vault has what the
\* user was told is saved.
THEOREM SavedStays == Spec => []SavedIsKept
<1>1. Inv => SavedIsKept
  BY DEF Inv, FileInv, CopyInv, SavedIsKept
<1> QED BY <1>1, Inductive, PTL
=============================================================================
