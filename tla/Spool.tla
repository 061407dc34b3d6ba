-------------------------------- MODULE Spool --------------------------------
(***************************************************************************)
(* The message spool of bm-server (src/internal/message): one directory    *)
(* per message, which lies in the incoming, the processing or the retry    *)
(* section or, once it was delivered locally, in the box of an account.    *)
(* The module has no state of its own: its operators say what the helpers  *)
(* of src/internal/message do to `at' (the places that hold a directory    *)
(* for a message) and to `retryFile' (the .retry.json inside it).          *)
(***************************************************************************)
EXTENDS Naturals

CONSTANTS Msgs,         \* message IDs (they are ticket IDs, hence unique)
          MaxRetries    \* MaxRetries of retry_queue.go

ASSUME SpoolAssumption == MaxRetries \in Nat

Sections == {"incoming", "processing", "retry"}
Places   == Sections \cup {"inbox"}

(***************************************************************************)
(* os.Rename of a message directory: it fails when the source is gone and  *)
(* when the target exists, since message directories are never empty.      *)
(***************************************************************************)
CanMove(at, m, from, to) == from \in at[m] /\ to \notin at[m]

\* Mutant of Moved: the directory is copied and the source left behind.
Copied(at, m, from, to) == [at EXCEPT ![m] = @ \cup {to}]

Moved(at, m, from, to) == [at EXCEPT ![m] = (@ \ {from}) \cup {to}]

\* os.RemoveAll on the directory of a section; an absent one is no error.
Removed(at, m, section) == [at EXCEPT ![m] = @ \ {section}]

(***************************************************************************)
(* .retry.json.  `empty' is the file between os.OpenFile(O_TRUNC) and the  *)
(* write of ioutil.WriteFile; `garbled' a short text written over a longer *)
(* one through a second handle: neither can be unmarshalled.  `due' says   *)
(* that RetryAt has passed.  The counter saturates one above MaxRetries:   *)
(* the code tells no larger values apart.                                  *)
(***************************************************************************)
Counts    == 0 .. (MaxRetries + 1)
RetryFile == [state : {"none", "empty", "garbled", "ok"}, retries : Counts, due : BOOLEAN]

Unreadable(s) == [state |-> s, retries |-> 0, due |-> FALSE]
NoRetryFile   == Unreadable("none")
RetryInfo(n)  == [state |-> "ok", retries |-> n, due |-> FALSE]

Bump(n) == IF n > MaxRetries THEN n ELSE n + 1

\* GetRetryInfo on a section succeeds.
HasRetryInfo(at, retryFile, m, section) ==
  section \in at[m] /\ retryFile[m].state = "ok"

(***************************************************************************)
(* What the write of WriteFile can leave when it reaches file f: when      *)
(* nobody wrote since the file was truncated, the new text; over another   *)
(* writer's text, the new text, or a mixture when that one was longer      *)
(* (the time stamps in it have no fixed length).                           *)
(***************************************************************************)
Written(f, n) ==
  {RetryInfo(n)} \cup (IF f.state = "empty" THEN {} ELSE {Unreadable("garbled")})
=============================================================================
