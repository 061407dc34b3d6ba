------------------------ MODULE RegistrationProperties ------------------------
(***************************************************************************)
(* What the creation of an account should guarantee.                       *)
(***************************************************************************)
EXTENDS Registration

\* Every variable has its type.
TypeOK ==
  /\ vault \in Keys \cup {NoKey}
  /\ client \in {"idle", "lookup", "prepare", "send", "wait", "push"}
  /\ runs \in 0 .. MaxRuns
  /\ registered \in Keys \cup {NoKey}
  /\ underway \in SUBSET Keys /\ overtaken \in SUBSET Keys
  /\ invite \in {"none", "valid"}
  /\ account \in Account
  /\ request \in [Runs -> Request]
  /\ store \in [Runs -> Store]
  /\ boxer \in [Runs -> [Boxes -> {"off", "run", "ok", "failed"}]]
  /\ fetch \in [Fetchers -> {"idle", "read", "make"}]
  /\ created \in SUBSET Keys
  /\ disturbed \in BOOLEAN
  /\ crashes \in 0 .. MaxCrashes

\* As long as the resolver can be asked, the key that the world learns for an
\* address is one the user still has: no later run of the client, and no
\* overtaken request, removes it from the vault; unless the resolver got it by
\* an upload whose client had ended before.
RegisteredKeyIsHeld == registered # NoKey => vault = registered \/ registered \in overtaken

\* An account that was reported as created is whole and has its key, unless
\* another creation or a key look-up came in between (disturbed).
CreatedIsComplete ==
  disturbed \/ \A k \in created :
    /\ account.there /\ account.boxes = Boxes
    /\ account.file.state = "ok" /\ k \in account.file.keys

\* A creation that failed leaves nothing behind that would make the address
\* unusable, unless it was disturbed or the server died.
RolledBack ==
  disturbed \/ crashes > 0 \/ (account.there => Active # {} \/ created # {})
=============================================================================
