-------------------------------- MODULE Vault --------------------------------
(***************************************************************************)
(* The vault file of bm-client and the commands that use it.  Every        *)
(* command is a process of its own: it reads the vault under a lock, works *)
(* on its copy, and writes the copy back under the lock.  The lock is an   *)
(* flock on <vault>.lock, a file that its holder unlinks; the vault is     *)
(* written to <vault>.tmp, which is then renamed.                          *)
(***************************************************************************)
EXTENDS Integers, FiniteSets

CONSTANTS
  Procs,        \* client processes at once
  Accounts,     \* addresses
  Commands,     \* commands that the user runs, see VaultAssumption
  Faults,       \* what may go wrong, see VaultAssumption
  MaxCommands,  \* bound on commands
  MaxFaults     \* bound on faults

ASSUME VaultAssumption ==
  /\ IsFiniteSet(Procs)
  /\ Commands \subseteq {"list-accounts", "set", "set-default", "create-account",
                         "update-pow", "vault"}
  /\ Faults \subseteq {"killed", "disk", "password"}
  /\ MaxCommands \in Nat /\ MaxFaults \in Nat

\* What the vault says of an address: {} when it is not there.
Attributes == {"key", "setting", "default", "pow"}
Content    == [Accounts -> SUBSET Attributes]
NoChange   == [a \in Accounts |-> {}]
In(c)      == {a \in Accounts : c[a] # {}}

\* A file that is open for writing is empty first; one that two processes wrote
\* to may be garbled.
File     == [state : {"none", "empty", "garbled"}, content : {NoChange}]
              \cup [state : {"whole"}, content : Content]
Broken(s) == [state |-> s, content |-> NoChange]
Whole(c)  == [state |-> "whole", content |-> c]

\* The lock file is an inode; a process keeps one that was unlinked.
NoInode == 0
Inodes  == 1 .. Cardinality(Procs) + 1

VARIABLES
  vault, tmp,  \* the files <vault> and <vault>.tmp (persistent)
  lockFile,    \* the inode at <vault>.lock (persistent)
  proc,        \* the processes
  commands, faults,
  saved,       \* history: what the user was told is saved
  raced,       \* history: the lock file was unlinked while another process had it open
  stale        \* history: the vault was written by a process that had read an older one

vars == <<vault, tmp, lockFile, proc, commands, faults, saved, raced, stale>>

\* local: its copy of the vault; add, del: what the command changed in it;
\* inode: the lock file it has open, out: where the file it writes to is now;
\* old: the vault was replaced since it was read; ok: the command goes on after
\* it has given the lock back.
Proc == [pc : {"idle", "lock", "flock", "read", "create", "write", "rename", "unlock",
               "remove", "command", "request"},
         cmd : Commands \cup {"none"}, saving : BOOLEAN, ok : BOOLEAN,
         local : Content, add : Content, del : Content,
         inode : {NoInode} \cup Inodes, holds : BOOLEAN,
         out : {"none", "tmp", "vault", "gone"}, old : BOOLEAN]
Idle == [pc |-> "idle", cmd |-> "none", saving |-> FALSE, ok |-> TRUE,
         local |-> NoChange, add |-> NoChange, del |-> NoChange,
         inode |-> NoInode, holds |-> FALSE, out |-> "none", old |-> FALSE]

\* A vault that was installed by hand: New never creates one, as it tests an
\* error that nothing has set yet.
Init ==
  /\ vault \in {Whole(c) : c \in {x \in Content : \A a \in Accounts : x[a] \in {{}, {"key"}}}}
  /\ tmp = Broken("none") /\ lockFile = NoInode
  /\ proc = [p \in Procs |-> Idle]
  /\ commands = 0 /\ faults = 0
  /\ saved = vault.content
  /\ raced = FALSE /\ stale = FALSE

Goto(p, l)  == proc' = [proc EXCEPT ![p].pc = l]
Exit(p)     == proc' = [proc EXCEPT ![p] = Idle]
Inside(p)   == proc[p].pc \in {"read", "create", "write", "rename", "unlock"}
Fault(f)    == f \in Faults /\ faults < MaxFaults /\ faults' = faults + 1
NoFault     == faults' = faults

-----------------------------------------------------------------------------
(***************************************************************************)
(* fslock: TryLock opens the lock file, creating it if it is not there,    *)
(* and asks for the lock on what it has opened without waiting.            *)
(***************************************************************************)
FreshInode == CHOOSE i \in Inodes : i # lockFile /\ \A q \in Procs : proc[q].inode # i

Opened == lockFile' = IF lockFile = NoInode THEN FreshInode ELSE lockFile

OpenLock(p) ==
  /\ proc[p].pc = "lock" /\ Opened
  /\ proc' = [proc EXCEPT ![p].pc = "flock", ![p].inode = lockFile']
  /\ UNCHANGED <<vault, tmp, commands, faults, saved, raced, stale>>

Free(i) == \A q \in Procs : ~(proc[q].holds /\ proc[q].inode = i)

\* Mutant of TryLock: the error is dropped.
TryLockUnchecked(p) ==
  /\ proc[p].pc = "flock"
  /\ proc' = [proc EXCEPT ![p].pc = IF proc[p].saving THEN "create" ELSE "read", ![p].holds = Free(proc[p].inode)]
  /\ UNCHANGED <<vault, tmp, lockFile, commands, faults, saved, raced, stale>>

\* A process that does not get the lock reports it and ends.
TryLock(p) ==
  /\ proc[p].pc = "flock"
  /\ \/ /\ Free(proc[p].inode)
        /\ proc' = [proc EXCEPT ![p].pc = IF proc[p].saving THEN "create" ELSE "read", ![p].holds = TRUE]
     \/ ~Free(proc[p].inode) /\ Exit(p)
  /\ UNCHANGED <<vault, tmp, lockFile, commands, faults, saved, raced, stale>>

Unlock(p) ==
  /\ proc[p].pc = "unlock"
  /\ proc' = [proc EXCEPT ![p].pc = "remove", ![p].inode = NoInode, ![p].holds = FALSE]
  /\ UNCHANGED <<vault, tmp, lockFile, commands, faults, saved, raced, stale>>

\* What a command does once its vault was saved: create-account asks the mail
\* server, update-pow takes the next account, the others are done.
AfterSave(p) ==
  CASE proc[p].cmd = "create-account" /\ proc[p].add # NoChange -> "request"
    [] proc[p].cmd = "update-pow" -> "command"
    [] OTHER -> "idle"

\* A process that has nothing left to do but to give the lock back, and ends.
Ending(p) ==
  [Idle EXCEPT !.pc = "unlock", !.ok = FALSE, !.inode = proc[p].inode, !.holds = proc[p].holds]

\* The lock file at the path is unlinked, whoever has it open by now.
RemoveLock(p) ==
  /\ proc[p].pc = "remove"
  /\ lockFile' = NoInode
  /\ raced' = (raced \/ \E q \in Procs \ {p} : lockFile # NoInode /\ proc[q].inode = lockFile)
  /\ \/ ~proc[p].ok /\ Exit(p)
     \/ proc[p].ok /\ ~proc[p].saving /\ Goto(p, "command")
     \/ proc[p].ok /\ proc[p].saving /\ Goto(p, AfterSave(p))
  /\ UNCHANGED <<vault, tmp, commands, faults, saved, stale>>

-----------------------------------------------------------------------------
(***************************************************************************)
(* New, unlockVault and Save.                                              *)
(***************************************************************************)
\* The start of every command, up to the lock file.
OpenVault(p) ==
  /\ proc[p].pc = "idle" /\ commands < MaxCommands
  /\ commands' = commands + 1 /\ Opened
  /\ \E c \in Commands :
       proc' = [proc EXCEPT ![p].pc = "flock", ![p].cmd = c, ![p].inode = lockFile']
  /\ UNCHANGED <<vault, tmp, faults, saved, raced, stale>>

\* Mutant of unlockVault: opens a new vault whenever there is an error.
unlockVaultOrNew(p) ==
  /\ proc[p].pc = "read"
  /\ \/ /\ NoFault /\ vault.state = "whole"
        /\ proc' = [proc EXCEPT ![p].pc = "unlock", ![p].local = vault.content, ![p].old = FALSE]
     \/ /\ (vault.state # "whole" /\ NoFault) \/ Fault("password")
        /\ proc' = [proc EXCEPT ![p].pc = "unlock", ![p].local = NoChange, ![p].old = FALSE]
  /\ UNCHANGED <<vault, tmp, lockFile, commands, saved, raced, stale>>

\* A vault that cannot be read or parsed, or a wrong password (the HMAC is of
\* another key), ends the command after the lock was given back.
unlockVault(p) ==
  /\ proc[p].pc = "read"
  /\ \/ /\ NoFault /\ vault.state = "whole"
        /\ proc' = [proc EXCEPT ![p].pc = "unlock", ![p].local = vault.content, ![p].old = FALSE]
     \/ /\ NoFault /\ vault.state # "whole"
        /\ proc' = [proc EXCEPT ![p] = Ending(p)]
     \/ /\ Fault("password")
        /\ proc' = [proc EXCEPT ![p] = Ending(p)]
  /\ UNCHANGED <<vault, tmp, lockFile, commands, saved, raced, stale>>

\* WriteFile of the temporary file: open with truncation ...
CreateTmp(p) ==
  /\ proc[p].pc = "create"
  /\ tmp' = Broken("empty")
  /\ proc' = [proc EXCEPT ![p].pc = "write", ![p].out = "tmp"]
  /\ UNCHANGED <<vault, lockFile, commands, faults, saved, raced, stale>>

\* ... and write, to wherever the open file is by now.  On what another process
\* has written there, the outcome depends on the lengths of the two.
Overwritten(f, c) == IF f.state = "empty" THEN {Whole(c)} ELSE {Whole(c), Broken("garbled")}

\* Mutant of WriteTmp: goes on after a failed write.
WriteTmpUnchecked(p) ==
  /\ proc[p].pc = "write"
  /\ Goto(p, "rename")
  /\ \/ NoFault /\ proc[p].out = "tmp" /\ tmp' = Whole(proc[p].local) /\ UNCHANGED vault
     \/ NoFault /\ proc[p].out # "tmp" /\ UNCHANGED <<vault, tmp>>
     \/ Fault("disk") /\ UNCHANGED <<vault, tmp>>
  /\ UNCHANGED <<lockFile, commands, saved, raced, stale>>

WriteTmp(p) ==
  /\ proc[p].pc = "write"
  /\ \/ /\ NoFault /\ Goto(p, "rename")
        /\ \/ proc[p].out = "tmp" /\ tmp' \in Overwritten(tmp, proc[p].local) /\ UNCHANGED vault
           \/ proc[p].out = "vault" /\ vault' \in Overwritten(vault, proc[p].local) /\ UNCHANGED tmp
           \/ proc[p].out = "gone" /\ UNCHANGED <<vault, tmp>>
     \/ /\ Fault("disk") /\ UNCHANGED <<vault, tmp>>
        /\ proc' = [proc EXCEPT ![p] = Ending(p)]
  /\ UNCHANGED <<lockFile, commands, saved, raced, stale>>

\* The changes of a command as the user is told of them.
Apply(s, p) == [a \in Accounts |-> (s[a] \cup proc[p].add[a]) \ proc[p].del[a]]

\* Files that are open stay open under their new name, or without one.
Moved(out) == CASE out = "tmp" -> "vault" [] out = "vault" -> "gone" [] OTHER -> out

RenameTmp(p) ==
  /\ proc[p].pc = "rename"
  /\ \/ /\ tmp.state # "none"
        /\ vault' = tmp /\ tmp' = Broken("none")
        /\ proc' = [q \in Procs |->
             IF q = p THEN (IF AfterSave(p) = "idle" THEN Ending(p)
                            ELSE [proc[p] EXCEPT !.pc = "unlock", !.out = "none", !.old = FALSE])
             ELSE [proc[q] EXCEPT !.out = Moved(@), !.old = proc[q].pc # "idle"]]
        /\ saved' = Apply(saved, p)
        /\ stale' = (stale \/ proc[p].old)
     \/ /\ tmp.state = "none"
        /\ proc' = [proc EXCEPT ![p] = Ending(p)]
        /\ UNCHANGED <<vault, tmp, saved, stale>>
  /\ UNCHANGED <<lockFile, commands, faults, raced>>

-----------------------------------------------------------------------------
(***************************************************************************)
(* The commands, between New and Save.                                     *)
(***************************************************************************)
\* The command leaves c in its copy and saves it.
SaveAs(p, c) ==
  proc' = [proc EXCEPT ![p].pc = "lock", ![p].saving = TRUE, ![p].local = c,
             ![p].add = [a \in Accounts |-> c[a] \ proc[p].local[a]],
             ![p].del = [a \in Accounts |-> proc[p].local[a] \ c[a]]]

Running(p, c) == proc[p].pc = "command" /\ proc[p].cmd = c

\* list-accounts, and every other command that only looks.
ListAccounts(p) == Running(p, "list-accounts") /\ Exit(p)

\* tools/vault saves what it has read.
SaveAgain(p) == Running(p, "vault") /\ SaveAs(p, proc[p].local)

\* A setting is set, or removed; no account at all is a nil dereference.
Set(p) ==
  /\ Running(p, "set")
  /\ LET c == proc[p].local IN
     \/ In(c) = {} /\ Exit(p)
     \/ \E a \in In(c) : \E v \in {c[a] \cup {"setting"}, c[a] \ {"setting"}} :
          SaveAs(p, [c EXCEPT ![a] = v])

\* Exactly one account is the default one.
SetDefault(p) ==
  /\ Running(p, "set-default")
  /\ LET c == proc[p].local IN
     \/ In(c) # Accounts /\ Exit(p)
     \/ \E a \in In(c) : SaveAs(p, [b \in Accounts |->
          IF b = a THEN c[b] \cup {"default"} ELSE c[b] \ {"default"}])

\* Mutant of RemoveAccount: leaves an entry without its fields.
RemoveAccountFields(c, a) == [c EXCEPT ![a] = {"removed"}]

RemoveAccount(c, a) == [c EXCEPT ![a] = {}]

\* A new account is saved before the server is asked; one that is in the vault
\* is used as it is.
CreateAccount(p) ==
  /\ Running(p, "create-account")
  /\ LET c == proc[p].local IN
     \/ \E a \in Accounts \ In(c) : SaveAs(p, [c EXCEPT ![a] = {"key", "pow"}])
     \/ \E a \in In(c) :
          proc' = [proc EXCEPT ![p].pc = "request", ![p].add = [NoChange EXCEPT ![a] = c[a]]]
  /\ UNCHANGED <<vault, tmp, lockFile, commands, faults, saved, raced, stale>>

\* The server accepts the account, or it is taken out of the vault again.
Requested(p) ==
  /\ proc[p].pc = "request"
  /\ \/ Exit(p)
     \/ \E a \in In(proc[p].add) : SaveAs(p, RemoveAccount(proc[p].local, a))
  /\ UNCHANGED <<vault, tmp, lockFile, commands, faults, saved, raced, stale>>

\* One account after the other, with a save for each that lacks its proof.
UpdatePow(p) ==
  /\ Running(p, "update-pow")
  /\ LET c == proc[p].local
         lacking == {a \in In(c) : "pow" \notin c[a]} IN
     \/ lacking = {} /\ Exit(p)
     \/ \E a \in lacking : SaveAs(p, [c EXCEPT ![a] = @ \cup {"pow"}])

Command(p) ==
  /\ ListAccounts(p) \/ SaveAgain(p) \/ Set(p) \/ SetDefault(p) \/ UpdatePow(p)
  /\ UNCHANGED <<vault, tmp, lockFile, commands, faults, saved, raced, stale>>

\* The kernel closes the files of a dead process and drops its lock; the lock
\* file and the temporary file stay.
Killed(p) ==
  /\ proc[p].pc # "idle" /\ Fault("killed")
  /\ Exit(p)
  /\ UNCHANGED <<vault, tmp, lockFile, commands, saved, raced, stale>>

Next ==
  \E p \in Procs :
    \/ OpenVault(p) \/ OpenLock(p) \/ TryLock(p) \/ Unlock(p) \/ RemoveLock(p)
    \/ unlockVault(p) \/ CreateTmp(p) \/ WriteTmp(p) \/ RenameTmp(p)
    \/ Command(p) \/ CreateAccount(p) \/ Requested(p) \/ Killed(p)

Spec == Init /\ [][Next]_vars
=============================================================================
