------------------------ MODULE CertificatesProperties ------------------------
(***************************************************************************)
(* What the renewal of the certificate should guarantee.                   *)
(***************************************************************************)
EXTENDS Certificates

File == {Missing, Empty} \cup Pairs

\* Every variable has its type.
TypeOK ==
  /\ cert \in File /\ key \in File
  /\ certBackup \in [Suffixes -> File] /\ keyBackup \in [Suffixes -> File]
  /\ issued \in 0 .. MaxIssued
  /\ foreign \subseteq Pairs /\ due \in BOOLEAN
  /\ account \in {"none", "empty", "ok"} /\ accountKey \in {"none", "empty", "pem", "typed"}
  /\ port \in Runs \cup {Nobody} /\ run \in [Runs -> Run]
  /\ faults \in 0 .. MaxFaults /\ ages \in 0 .. MaxAges
  /\ overlapped \in BOOLEAN
  /\ stored \in [{"cert", "key"} -> SUBSET Pairs]

\* A renewal loses nothing: a certificate or private key that has once been in
\* place is still there or is one of the backups, whatever was interrupted or
\* failed, unless two runs saved at once.
NothingOverwritten ==
  overlapped \/ /\ stored["cert"] \subseteq {cert} \cup {certBackup[n] : n \in Suffixes}
                /\ stored["key"]  \subseteq {key}  \cup {keyBackup[n] : n \in Suffixes}

\* The key in place is never one of another certificate than the one in place,
\* and backups with the same suffix belong together, whatever was interrupted
\* or failed, unless two runs saved at once.
PairsMatch ==
  overlapped \/ /\ cert \in Pairs /\ key \in Pairs => cert = key
                /\ \A n \in Suffixes :
                     certBackup[n] \in Pairs /\ keyBackup[n] \in Pairs => certBackup[n] = keyBackup[n]

\* After finitely many faults the server gets a pair it can use, again and
\* again, by runs of the tool alone; but a certificate file that was left empty
\* and one of another name make the tool end every time.
PairReturns == []<>(Usable \/ cert = Empty \/ cert \in foreign)
=============================================================================
