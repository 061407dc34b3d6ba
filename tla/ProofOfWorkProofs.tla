-------------------------- MODULE ProofOfWorkProofs --------------------------
(***************************************************************************)
(* Theorems about the proof of work, for any number of cores, any hash     *)
(* function, any number of counters, bits and calls.                       *)
(***************************************************************************)
EXTENDS ProofOfWorkProperties, TLAPS

USE ProofOfWorkAssumption

-----------------------------------------------------------------------------
(***************************************************************************)
(* The division of the counters among the cores.                           *)
(***************************************************************************)
LEMMA Quotient ==
  ASSUME NEW n \in Int
  PROVE  \E q \in Int, r \in 0 .. Cores - 1 : n = Cores * q + r /\ r = n % Cores
<1>1. n \div Cores \in Int /\ n % Cores \in 0 .. Cores - 1
  OBVIOUS
<1>2. n = Cores * (n \div Cores) + (n % Cores)
  OBVIOUS
<1> QED BY <1>1, <1>2

LEMMA OneRemainder ==
  ASSUME NEW q \in Int, NEW p \in Int, NEW r \in 0 .. Cores - 1, NEW s \in 0 .. Cores - 1,
         Cores * q + r = Cores * p + s
  PROVE  r = s
<1>1. Cores * (q - p) = s - r
  OBVIOUS
<1>2. q - p <= 0
  BY <1>1
<1>3. q - p >= 0
  BY <1>1
<1> QED BY <1>1, <1>2, <1>3

\* Going on by the number of cores stays with the counters of the same core ...
LEMMA SameCore ==
  ASSUME NEW n \in Nat
  PROVE  (n + Cores) % Cores = n % Cores
<1>1. PICK m \in Nat : m = n + Cores
  OBVIOUS
<1>2. PICK q \in Int, r \in 0 .. Cores - 1 : n = Cores * q + r /\ r = n % Cores
  <2> n \in Int
    OBVIOUS
  <2> QED BY Quotient
<1>3. PICK p \in Int, s \in 0 .. Cores - 1 : m = Cores * p + s /\ s = m % Cores
  <2> m \in Int
    OBVIOUS
  <2> QED BY Quotient
<1>4. Cores * (q + 1) + r = Cores * p + s
  BY <1>1, <1>2, <1>3
<1>5. r = s
  BY <1>4, OneRemainder
<1> QED BY <1>1, <1>2, <1>3, <1>5

\* ... and passes over none of them.
LEMMA NoneBetween ==
  ASSUME NEW d \in Nat, d < Cores, d % Cores = 0
  PROVE  d = 0
  OBVIOUS

\* What a core has tried when it is at a counter.
Tried(c, counter) == c < counter /\ (counter - c) % Cores = 0

LEMMA NextTried ==
  ASSUME NEW c \in Nat, NEW counter \in Nat, Tried(c, counter + Cores)
  PROVE  Tried(c, counter) \/ c = counter
<1>1. CASE c < counter
  <2>1. (counter + Cores) - c = (counter - c) + Cores /\ counter - c \in Nat
    BY <1>1
  <2>2. ((counter - c) + Cores) % Cores = (counter - c) % Cores
    BY <2>1, SameCore
  <2> QED BY <1>1, <2>1, <2>2 DEF Tried
<1>2. CASE counter < c
  <2>1. (counter + Cores) - c \in Nat /\ (counter + Cores) - c < Cores
    BY <1>2 DEF Tried
  <2>2. (counter + Cores) - c = 0
    BY <2>1, NoneBetween DEF Tried
  <2> QED BY <2>2 DEF Tried
<1> QED BY <1>1, <1>2

-----------------------------------------------------------------------------
(***************************************************************************)
(* The inductive invariant.                                                *)
(***************************************************************************)
\* A counter has enough bits, and the core tried none before it that has.
First(counter, bits) ==
  /\ Hits(counter, bits)
  /\ \A c \in Counters : Tried(c, counter) => ~Hits(c, bits)

\* A goroutine is within its counters and has passed over none that will do;
\* one that sends has found the first.
CoreInv(k, i) ==
  LET g == core[k][i] IN
  /\ g.pc # "off" => k <= call
  /\ g.pc \in {"hash", "send"} => g.counter \in Counters
  /\ g.pc \in {"check", "hash"} => \A c \in Counters : Tried(c, g.counter) => ~Hits(c, work[k].bits)
  /\ g.pc = "send" => First(g.counter, work[k].bits)

\* The vault, and what is about to be put there.
MainInv ==
  /\ account # NoPow => First(account.proof, account.bits)
  /\ pc # "idle" => call \in Calls
  /\ pc = "return" => First(work[call].proof, work[call].bits)
  /\ \A k \in Calls : k <= call => work[k] \in Pow

\* The server has accepted what is in the vault or less; a call in progress
\* will find more.
ServerInv ==
  registered # NoPow =>
    /\ account # NoPow /\ account.bits >= required
    /\ pc # "idle" => work[call].bits >= required

Inv ==
  /\ TypeOK /\ MainInv /\ ServerInv
  /\ \A k \in Calls, i \in Core : CoreInv(k, i)
  /\ \A k \in Calls : Returned(k) => k \in cancelled

-----------------------------------------------------------------------------
LEMMA Types ==
  /\ NoPow.bits = -1 /\ NoPow \notin Pow
  /\ \A p \in Pow : p.bits \in Bits /\ p.proof \in 0 .. Limit
  /\ \A b \in Bits, c \in 0 .. Limit :
       New(b, c) \in Pow /\ New(b, c).bits = b /\ New(b, c).proof = c
  /\ Off \in Goroutine /\ Off.pc = "off"
  /\ \A g \in Goroutine : g.counter \in 0 .. Limit + Cores - 1
  BY DEF NoPow, Pow, New, Bits, Off, Goroutine

LEMMA InitInv == Init => Inv
<1> SUFFICES ASSUME Init PROVE Inv
  OBVIOUS
<1>1. TypeOK
  BY Types DEF Init, TypeOK
<1>2. MainInv /\ ServerInv
  BY DEF Init, MainInv, ServerInv, Calls
<1>3. \A k \in Calls, i \in Core : CoreInv(k, i)
  BY Types DEF Init, CoreInv
<1>4. \A k \in Calls : Returned(k) => k \in cancelled
  BY DEF Init, Returned, Calls
<1> QED BY <1>1, <1>2, <1>3, <1>4 DEF Inv

\* What makes CoreInv of call k does not change.
LEMMA CoreStays ==
  ASSUME NEW k \in Calls, NEW i \in Core, CoreInv(k, i),
         core'[k][i] = core[k][i], work'[k].bits = work[k].bits, k <= call => k <= call',
         level' = level
  PROVE  CoreInv(k, i)'
  BY DEF CoreInv, First, Hits

LEMMA WorkKeeps ==
  ASSUME Inv, NEW bits \in Bits, Work(bits), pc = "idle", call < MaxCalls,
         account # NoPow => ~Sufficient(account, bits)
  PROVE  Inv'
<1> DEFINE n == call + 1
<1>1. n \in Calls /\ call \in Nat
  BY DEF Inv, TypeOK, Calls
<1>2. UNCHANGED <<level, required, account, registered, cancelled>> /\ pc' = "work" /\ call' = n
  BY DEF Work, user
<1>3. work'[n] = New(bits, 0) /\ \A k \in Calls \ {n} : work'[k] = work[k]
  BY <1>1 DEF Work, Inv, TypeOK
<1>4. work' \in [Calls -> Pow \cup {NoPow}]
  BY <1>1, Types DEF Work, Inv, TypeOK
<1>5. ASSUME NEW i \in Core
      PROVE  /\ [pc |-> "check", counter |-> StartsAt(i)] \in Goroutine
             /\ core'[n][i] = [pc |-> "check", counter |-> i]
             /\ \A c \in Counters : ~Tried(c, i)
  <2>1. i \in 0 .. Limit + Cores - 1
    BY DEF Core
  <2>2. ASSUME NEW c \in Counters, Tried(c, i) PROVE FALSE
    <3>1. i - c \in Nat /\ i - c < Cores /\ (i - c) % Cores = 0 /\ i - c # 0
      BY <2>2 DEF Core, Counters, Tried
    <3> QED BY <3>1, NoneBetween
  <2> QED BY <1>1, <2>1, <2>2 DEF Work, Inv, TypeOK, StartsAt, Goroutine
<1>6. core' \in [Calls -> [Core -> Goroutine]]
  BY <1>1, <1>5 DEF Work, Inv, TypeOK
<1>7. TypeOK'
  BY <1>1, <1>2, <1>4, <1>6 DEF Inv, TypeOK, Calls
<1>8. MainInv'
  BY <1>1, <1>2, <1>3, Types DEF Inv, MainInv, First, Hits, Calls
<1>9. ServerInv'
  BY <1>1, <1>2, <1>3, Types DEF Inv, ServerInv, MainInv, First, Sufficient, IsValid, TypeOK, Bits, Pow
<1>10. ASSUME NEW k \in Calls, NEW i \in Core PROVE CoreInv(k, i)'
  <2>1. CASE k = n
    <3>1. core'[k][i] = [pc |-> "check", counter |-> i]
      BY <1>5, <2>1
    <3>2. core'[k][i].pc = "check" /\ core'[k][i].counter = i
      BY <3>1
    <3>3. k <= call'
      BY <1>1, <1>2, <2>1
    <3>4. \A c \in Counters : ~Tried(c, core'[k][i].counter)
      BY <1>5, <3>2
    <3> QED BY <3>2, <3>3, <3>4 DEF CoreInv
  <2>2. CASE k # n
    BY <1>1, <1>2, <1>3, <2>2, CoreStays DEF Inv, Work, TypeOK, Calls
  <2> QED BY <2>1, <2>2
<1>11. \A k \in Calls : Returned(k)' => k \in cancelled'
  BY <1>1, <1>2 DEF Inv, Returned, Calls
<1> QED BY <1>7, <1>8, <1>9, <1>10, <1>11 DEF Inv

LEMMA ReceiveKeeps ==
  ASSUME Inv, NEW i \in Core, Receive(i)
  PROVE  Inv'
<1> USE DEF Inv
<1>1. call \in Calls /\ core[call][i].pc = "send" /\ pc = "work" /\ pc' = "return"
  BY DEF Receive, MainInv
<1> DEFINE c == core[call][i].counter
<1>2. c \in Counters /\ First(c, work[call].bits)
  BY <1>1 DEF CoreInv
<1>3. UNCHANGED <<level, required, account, registered, call, cancelled>>
  BY DEF Receive, user
<1>4. work[call] \in Pow
  BY <1>1 DEF MainInv, Calls, TypeOK
<1>5. work' = [work EXCEPT ![call].proof = c]
  BY DEF Receive, Received
<1>6. [work[call] EXCEPT !.proof = c] \in Pow
  BY <1>2, <1>4 DEF Pow, Counters
<1>7. /\ work' \in [Calls -> Pow \cup {NoPow}] /\ work'[call] \in Pow
      /\ work'[call].proof = c /\ work'[call].bits = work[call].bits
      /\ \A k \in Calls \ {call} : work'[k] = work[k]
  BY <1>1, <1>4, <1>5, <1>6 DEF TypeOK, Pow
<1>8. [core[call][i] EXCEPT !.pc = "end"] \in Goroutine
  BY <1>1 DEF TypeOK, Goroutine
<1>9. /\ core' \in [Calls -> [Core -> Goroutine]] /\ core'[call][i].pc = "end"
      /\ \A k \in Calls, j \in Core : k # call \/ j # i => core'[k][j] = core[k][j]
  BY <1>1, <1>8 DEF Receive, TypeOK
<1>10. TypeOK'
  BY <1>1, <1>3, <1>7, <1>9 DEF TypeOK
<1>11. MainInv' /\ ServerInv'
  BY <1>1, <1>2, <1>3, <1>7 DEF MainInv, ServerInv, First, Hits
<1>12. ASSUME NEW k \in Calls, NEW j \in Core PROVE CoreInv(k, j)'
  <2>1. CASE k = call /\ j = i
    BY <1>1, <1>3, <1>9, <2>1 DEF CoreInv
  <2>2. CASE k # call \/ j # i
    BY <1>3, <1>7, <1>9, <2>2, CoreStays
  <2> QED BY <2>1, <2>2
<1>13. \A k \in Calls : Returned(k)' => k \in cancelled'
  BY <1>1, <1>3 DEF Returned
<1> QED BY <1>10, <1>11, <1>12, <1>13

LEMMA ReturnKeeps ==
  ASSUME Inv, Return
  PROVE  Inv'
<1> USE DEF Inv
<1>1. pc = "return" /\ pc' = "idle" /\ call \in Calls /\ work[call] \in Pow
  BY DEF Return, MainInv, Calls, TypeOK
<1>2. /\ UNCHANGED <<level, required, registered, call, work, core>>
      /\ account' = work[call] /\ cancelled' = cancelled \cup {call}
  BY DEF Return, Cancelled
<1>3. TypeOK'
  BY <1>1, <1>2 DEF TypeOK
<1>4. MainInv' /\ ServerInv'
  BY <1>1, <1>2, Types DEF MainInv, ServerInv, First, Hits
<1>5. \A k \in Calls, i \in Core : CoreInv(k, i)'
  BY <1>2, CoreStays DEF TypeOK
<1>6. \A k \in Calls : Returned(k)' => k \in cancelled'
  BY <1>1, <1>2 DEF Returned
<1> QED BY <1>3, <1>4, <1>5, <1>6

LEMMA AcceptKeeps ==
  ASSUME Inv, Accept
  PROVE  Inv'
<1> USE DEF Inv
<1>1. /\ UNCHANGED <<level, required, account, pc, call, work, cancelled, core>>
      /\ pc = "idle" /\ registered' = account /\ account # NoPow /\ account.bits >= required
  BY DEF Accept, Decoded, NewFromString, Sufficient
<1>2. TypeOK'
  BY <1>1 DEF TypeOK
<1>3. MainInv' /\ ServerInv'
  BY <1>1 DEF MainInv, ServerInv, First, Hits
<1>4. \A k \in Calls, i \in Core : CoreInv(k, i)'
  BY <1>1, CoreStays
<1> QED BY <1>1, <1>2, <1>3, <1>4 DEF Returned

LEMMA ExitKeeps ==
  ASSUME Inv, Exit
  PROVE  Inv'
<1> USE DEF Inv
<1>1. UNCHANGED <<level, required, account, registered, pc, call, work, cancelled>>
  BY DEF Exit, user
<1>2. core' \in [Calls -> [Core -> Goroutine]] /\ \A k \in Calls, i \in Core : core'[k][i].pc = "off"
  BY Types DEF Exit
<1>3. TypeOK'
  BY <1>1, <1>2 DEF TypeOK
<1>4. MainInv' /\ ServerInv'
  BY <1>1 DEF MainInv, ServerInv, First, Hits
<1>5. \A k \in Calls, i \in Core : CoreInv(k, i)'
  BY <1>2 DEF CoreInv
<1> QED BY <1>1, <1>3, <1>4, <1>5 DEF Returned

\* A goroutine has made a step.
LEMMA GoroutineKeeps ==
  ASSUME Inv, NEW k \in Calls, NEW i \in Core, NEW g \in Goroutine,
         core' = [core EXCEPT ![k][i] = g], CoreInv(k, i)',
         UNCHANGED <<user, pc, call, work, cancelled>>
  PROVE  Inv'
<1> USE DEF Inv, user
<1>1. /\ core' \in [Calls -> [Core -> Goroutine]] /\ core'[k][i] = g
      /\ \A m \in Calls, j \in Core : m # k \/ j # i => core'[m][j] = core[m][j]
  BY DEF TypeOK
<1>2. TypeOK'
  BY <1>1 DEF TypeOK
<1>3. MainInv' /\ ServerInv'
  BY DEF MainInv, ServerInv, First, Hits
<1>4. ASSUME NEW m \in Calls, NEW j \in Core PROVE CoreInv(m, j)'
  BY <1>1, CoreStays
<1> QED BY <1>2, <1>3, <1>4 DEF Returned

LEMMA CheckKeeps ==
  ASSUME Inv, NEW k \in Calls, NEW i \in Core, Check(k, i)
  PROVE  Inv'
<1> DEFINE g == core[k][i]
<1>1. g \in Goroutine /\ g.pc = "check" /\ CoreInv(k, i)
  BY DEF Check, Inv, TypeOK
<1>2. UNCHANGED <<user, pc, call, work, cancelled>>
  BY DEF Check
<1>3. ASSUME NEW l \in {"hash", "end"}, Step(k, i, l), l = "hash" => g.counter < Limit
      PROVE  Inv'
  <2> DEFINE h == [g EXCEPT !.pc = l]
  <2>1. h \in Goroutine /\ h.pc = l /\ h.counter = g.counter
    BY <1>1 DEF Goroutine
  <2>2. core' = [core EXCEPT ![k][i] = h]
    BY <1>3 DEF Step
  <2>3. core'[k][i] = h
    BY <2>2 DEF Inv, TypeOK
  <2>4. h.pc = "hash" => h.counter \in Counters
    BY <1>1, <1>3, <2>1 DEF Goroutine, Counters
  <2>5. CoreInv(k, i)'
    BY <1>1, <1>2, <2>1, <2>3, <2>4 DEF CoreInv, First, Hits, user
  <2> QED BY <1>2, <2>1, <2>2, <2>5, GoroutineKeeps
<1> QED BY <1>3 DEF Check, InRange

LEMMA HashKeeps ==
  ASSUME Inv, NEW k \in Calls, NEW i \in Core, Hash(k, i)
  PROVE  Inv'
<1> DEFINE g == core[k][i]
<1>1. g \in Goroutine /\ g.pc = "hash" /\ g.counter \in Counters /\ CoreInv(k, i)
  BY DEF Hash, Inv, TypeOK, CoreInv
<1>2. UNCHANGED <<user, pc, call, work, cancelled>>
  BY DEF Hash
<1>3. CASE Hits(g.counter, work[k].bits) /\ Step(k, i, "send")
  <2> DEFINE h == [g EXCEPT !.pc = "send"]
  <2>1. h \in Goroutine /\ h.pc = "send" /\ h.counter = g.counter
    BY <1>1 DEF Goroutine
  <2>2. core' = [core EXCEPT ![k][i] = h]
    BY <1>3 DEF Step
  <2>3. core'[k][i] = h
    BY <2>2 DEF Inv, TypeOK
  <2>4. CoreInv(k, i)'
    BY <1>1, <1>2, <1>3, <2>1, <2>3 DEF CoreInv, First, Hits, user
  <2> QED BY <1>2, <2>1, <2>2, <2>4, GoroutineKeeps
<1>4. CASE /\ ~Hits(g.counter, work[k].bits)
           /\ core' = [core EXCEPT ![k][i] = [pc |-> "check", counter |-> Advance(g.counter)]]
  <2> DEFINE h == [pc |-> "check", counter |-> Advance(g.counter)]
  <2>1. h \in Goroutine /\ h.pc = "check" /\ h.counter = g.counter + Cores
    BY <1>1 DEF Goroutine, Advance, Counters
  <2>2. core'[k][i] = h
    BY <1>4 DEF Inv, TypeOK
  <2>3. ASSUME NEW c \in Counters, Tried(c, g.counter + Cores) PROVE ~Hits(c, work[k].bits)
    <3>1. Tried(c, g.counter) \/ c = g.counter
      BY <1>1, <2>3, NextTried DEF Counters
    <3> QED BY <1>1, <1>4, <3>1 DEF CoreInv
  <2>4. CoreInv(k, i)'
    BY <1>1, <1>2, <2>1, <2>2, <2>3 DEF CoreInv, Hits, user
  <2> QED BY <1>2, <1>4, <2>1, <2>4, GoroutineKeeps
<1> QED BY <1>3, <1>4 DEF Hash

LEMMA StepInv == Inv /\ [Next]_vars => Inv'
<1> SUFFICES ASSUME Inv, [Next]_vars PROVE Inv'
  OBVIOUS
<1>1. CASE UNCHANGED vars
  <2>1. UNCHANGED <<level, required, account, registered, pc, call, work, cancelled, core>>
    BY <1>1 DEF vars
  <2>2. \A k \in Calls, i \in Core : CoreInv(k, i)'
    BY <2>1, CoreStays DEF Inv
  <2> QED BY <2>1, <2>2 DEF Inv, TypeOK, MainInv, ServerInv, First, Hits, Returned
<1>2. CASE CreateAccount
  BY <1>2, WorkKeeps DEF CreateAccount
<1>3. CASE UpdatePow
  BY <1>3, WorkKeeps DEF UpdatePow
<1>4. CASE Return
  BY <1>4, ReturnKeeps
<1>5. ASSUME NEW i \in Core, Receive(i) PROVE Inv'
  BY <1>5, ReceiveKeeps
<1>6. CASE Accept
  BY <1>6, AcceptKeeps
<1>7. CASE Exit
  BY <1>7, ExitKeeps
<1>8. ASSUME NEW k \in Calls, NEW i \in Core, Worker(k, i) PROVE Inv'
  BY <1>8, CheckKeeps, HashKeeps DEF Worker
<1> QED BY <1>1, <1>2, <1>3, <1>4, <1>5, <1>6, <1>7, <1>8 DEF Next, Main

LEMMA Always == Spec => []Inv
  BY InitInv, StepInv, PTL DEF Spec

\* Every variable has its type: no counter goes further past the limit than
\* one step of the loop in pkg/proofofwork/pow.go.
THEOREM TypeCorrect == Spec => []TypeOK
  BY Always, PTL DEF Inv

\* The proof in the vault is valid and the first that its core could find.
THEOREM ProofIsLeast == Spec => []LeastOfItsCore
<1>1. Inv => LeastOfItsCore
  BY DEF Inv, MainInv, First, Tried, LeastOfItsCore, IsValid
<1> QED BY <1>1, Always, PTL

\* The server that has registered an account would accept the proof in its
\* vault again.
THEOREM ProofStaysAccepted == Spec => []StillAccepted
<1>1. Inv => StillAccepted
  BY DEF Inv, MainInv, ServerInv, First, StillAccepted, Sufficient, IsValid
<1> QED BY <1>1, Always, PTL

\* A goroutine of a call that has returned does not start on another hash: the
\* cancelled context is seen at the head of the loop.
THEOREM WorkEnds == Spec => NoWorkAfterReturn
<1> DEFINE A == \A k \in Calls, i \in Core :
                  Returned(k) /\ core[k][i].pc # "hash" => core'[k][i].pc # "hash"
<1>1. Inv /\ [Next]_vars => [A]_vars
  <2> SUFFICES ASSUME Inv, Next, NEW k \in Calls, NEW i \in Core,
                      Returned(k), core[k][i].pc # "hash"
               PROVE  core'[k][i].pc # "hash"
    BY DEF A
  <2>1. k \in cancelled /\ core \in [Calls -> [Core -> Goroutine]]
    BY DEF Inv, TypeOK
  <2>2. ASSUME NEW i2 \in Core, Receive(i2) PROVE core'[k][i].pc # "hash"
    BY <2>1, <2>2 DEF Receive, Goroutine
  <2>3. ASSUME NEW bits \in Bits, Work(bits), pc = "idle", call < MaxCalls PROVE core'[k][i].pc # "hash"
    <3>1. call \in Nat /\ k # call + 1
      BY <2>3 DEF Inv, TypeOK, Returned, Calls
    <3> QED BY <2>1, <2>3, <3>1 DEF Work
  <2>4. CASE Return \/ Accept
    BY <2>4 DEF Return, Accept
  <2>5. CASE Exit
    BY <2>5, Types DEF Exit
  <2>6. ASSUME NEW n \in Calls, NEW j \in Core, Check(n, j) PROVE core'[k][i].pc # "hash"
    <3>1. CASE n = k /\ j = i
      <4>1. Step(k, i, "end") /\ core[k][i] \in Goroutine
        BY <2>1, <2>6, <3>1 DEF Check
      <4> QED BY <2>1, <4>1 DEF Step, Goroutine
    <3>2. CASE n # k \/ j # i
      BY <2>1, <2>6, <3>2 DEF Check, Step
    <3> QED BY <3>1, <3>2
  <2>7. ASSUME NEW n \in Calls, NEW j \in Core, Hash(n, j) PROVE core'[k][i].pc # "hash"
    <3>1. n # k \/ j # i
      BY <2>7 DEF Hash
    <3> QED BY <2>1, <2>7, <3>1 DEF Hash, Step
  <2> QED BY <2>2, <2>3, <2>4, <2>5, <2>6, <2>7
          DEF Next, Main, CreateAccount, UpdatePow, Worker
<1> QED BY <1>1, Always, PTL DEF Spec, NoWorkAfterReturn
=============================================================================
