----------------------------- MODULE ProofOfWork -----------------------------
(***************************************************************************)
(* The proof of work of an account.  Work starts one goroutine per core,   *)
(* takes the first counter that any of them sends on an unbuffered         *)
(* channel, and cancels the others when it returns.  create-account works  *)
(* once, update-pow again and again on the same data with other bits, and  *)
(* the mail server checks what it is sent.                                 *)
(***************************************************************************)
EXTENDS Integers

CONSTANTS
  Cores,     \* number of goroutines of one call
  Limit,     \* stands for math.MaxInt64, the first counter no core tries
  MaxBits,   \* bound on the bits that are asked for
  MaxCalls   \* bound on calls of Work

ASSUME ProofOfWorkAssumption ==
  /\ Cores \in Nat \ {0} /\ Limit \in Nat \ {0} /\ MaxBits \in Nat /\ MaxCalls \in Nat

Bits      == 0 .. MaxBits
Counters  == 0 .. Limit - 1
Core      == 0 .. Cores - 1
Calls     == 1 .. MaxCalls
Pow       == [bits : Bits, proof : 0 .. Limit]
NoPow     == [bits |-> -1, proof |-> 0]
New(bits, proof) == [bits |-> bits, proof |-> proof]

VARIABLES
  level,      \* zero bits on the left of the double hash of data and counter
  required,   \* the server's configuration
  account,    \* the proof in the vault
  registered, \* the proof the server has accepted
  pc,         \* the main goroutine
  call, work, \* calls of Work so far, what each works on
  cancelled,  \* the calls whose context is done
  core        \* the goroutines of every call

vars == <<level, required, account, registered, pc, call, work, cancelled, core>>
user == <<level, required, account, registered>>

Goroutine == [pc : {"off", "check", "hash", "send", "end"}, counter : 0 .. Limit + Cores - 1]
Off       == [pc |-> "off", counter |-> 0]

\* Any hash function will do.
Init ==
  /\ level \in [Counters -> Bits] /\ required \in Bits
  /\ account = NoPow /\ registered = NoPow
  /\ pc = "idle" /\ call = 0 /\ work = [k \in Calls |-> NoPow]
  /\ cancelled = {} /\ core = [k \in Calls |-> [i \in Core |-> Off]]

Hits(counter, bits) == counter \in Counters /\ level[counter] >= bits

IsValid(p) == Hits(p.proof, p.bits)

\* A text is parsed only if its counter fits a signed integer.
NewFromString(p) == {q \in {p} : q.proof <= Limit}

\* JSON holds a text where the proof is behind a pointer, else the fields, which
\* are read as they are.
Decoded(p, text) == IF text THEN NewFromString(p) ELSE {p}

-----------------------------------------------------------------------------
(***************************************************************************)
(* The main goroutine.                                                     *)
(***************************************************************************)
\* Mutant of StartsAt: counters start at 1, as the head comment of pow.go has it.
StartsAtNext(i) == i + 1

StartsAt(i) == i

\* Entry of Work: one goroutine per core.
Work(bits) ==
  /\ pc' = "work" /\ call' = call + 1
  /\ work' = [work EXCEPT ![call + 1] = New(bits, 0)]
  /\ core' = [core EXCEPT ![call + 1] = [i \in Core |-> [pc |-> "check", counter |-> StartsAt(i)]]]
  /\ UNCHANGED <<user, cancelled>>

CreateAccount ==
  /\ pc = "idle" /\ call < MaxCalls /\ account = NoPow
  /\ \E bits \in Bits : Work(bits)

\* Mutant of Sufficient: wants just the bits that are asked for.
SufficientExactly(p, bits) == p.bits = bits /\ IsValid(p)

Sufficient(p, bits) == p.bits >= bits /\ IsValid(p)

\* update-pow works again, on the same data, where the proof is not enough.
UpdatePow ==
  /\ pc = "idle" /\ call < MaxCalls /\ account # NoPow
  /\ \E bits \in Bits : ~Sufficient(account, bits) /\ Work(bits)

\* Mutant of Received: what any core has reached, as a shared variable would hold.
ReceivedAny(i) == {core[call][j].counter : j \in Core} \ {Limit}

Received(i) == {core[call][i].counter}

\* <-found: any core that waits to send may be the one.
Receive(i) ==
  /\ pc = "work" /\ core[call][i].pc = "send" /\ pc' = "return"
  /\ \E counter \in Received(i) : work' = [work EXCEPT ![call].proof = counter]
  /\ core' = [core EXCEPT ![call][i].pc = "end"]
  /\ UNCHANGED <<user, call, cancelled>>

\* Mutant of Cancelled: cancel is not called.
CancelledNever(k) == {}

Cancelled(k) == {k}

\* The deferred cancel; then the caller puts the proof into the vault.
Return ==
  /\ pc = "return" /\ pc' = "idle"
  /\ cancelled' = cancelled \cup Cancelled(call)
  /\ account' = work[call]
  /\ UNCHANGED <<level, required, registered, call, work, core>>

\* The handler of account creation checks the proof as it was sent.
Accept ==
  /\ pc = "idle" /\ registered = NoPow
  /\ \E text \in BOOLEAN : \E p \in Decoded(account, text) :
       /\ account # NoPow /\ Sufficient(p, required)
       /\ registered' = p
  /\ UNCHANGED <<level, required, account, pc, call, work, cancelled, core>>

\* The process ends, and with it every goroutine that is left.
Exit ==
  /\ pc = "idle" /\ call > 0
  /\ core' = [k \in Calls |-> [i \in Core |-> Off]]
  /\ UNCHANGED <<user, pc, call, work, cancelled>>

-----------------------------------------------------------------------------
(***************************************************************************)
(* A goroutine of call k that starts at i.                                 *)
(***************************************************************************)
\* Mutant of InRange: no bound.
InRangeOrAt(counter) == counter <= Limit

InRange(counter) == counter < Limit

Step(k, i, l) == core' = [core EXCEPT ![k][i].pc = l]

\* The loop condition, then the select on ctx.Done.
Check(k, i) ==
  /\ core[k][i].pc = "check"
  /\ IF InRange(core[k][i].counter) /\ k \notin cancelled THEN Step(k, i, "hash") ELSE Step(k, i, "end")
  /\ UNCHANGED <<user, pc, call, work, cancelled>>

Advance(counter) == counter + Cores

Hash(k, i) ==
  /\ core[k][i].pc = "hash"
  /\ LET counter == core[k][i].counter IN
     \/ Hits(counter, work[k].bits) /\ Step(k, i, "send")
     \/ /\ ~Hits(counter, work[k].bits)
        /\ core' = [core EXCEPT ![k][i] = [pc |-> "check", counter |-> Advance(counter)]]
  /\ UNCHANGED <<user, pc, call, work, cancelled>>

-----------------------------------------------------------------------------
Main == CreateAccount \/ UpdatePow \/ Return \/ \E i \in Core : Receive(i)

Worker(k, i) == Check(k, i) \/ Hash(k, i)

Next == Main \/ Accept \/ Exit \/ \E k \in Calls, i \in Core : Worker(k, i)

Spec == Init /\ [][Next]_vars

\* The scheduler runs every goroutine; the user need not run a command.
FairSpec ==
  /\ Spec
  /\ WF_vars(Return) /\ WF_vars(\E i \in Core : Receive(i))
  /\ \A k \in Calls, i \in Core : WF_vars(Worker(k, i))
=============================================================================
