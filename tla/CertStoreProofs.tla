-------------------------- MODULE CertStoreProofs --------------------------
(***************************************************************************)
(* Proofs about CertStore, for any number of replicas and any bounds.      *)
(***************************************************************************)
EXTENDS CertStore, TLAPS

(* ServedWasStored for the certificate a manager holds, expired or not. *)
HeldWasStored == \A r \in Replicas : served[r] # Nil => served[r] \in stored

(* What holds between the Secret, the pairs on their way to it and the       *)
(* certificates served.                                                      *)
CertStoreInv ==
    /\ CertStoreTypeOK
    /\ HeldWasStored
    /\ (secret # Nil /\ secret.data \in Nat) => secret.data \in stored
    /\ \A r \in Replicas :
        /\ pc[r] = "down" => served[r] = Nil
        /\ pair[r] # Nil <=> pc[r] \in {"issued", "writing"}
        /\ pair[r] \in Nat => /\ pair[r] \in 1 .. serial
                              /\ served[r] # Nil => served[r] < pair[r]

(* A write by the API server keeps the Secret's type and its history. *)
LEMMA SecretWriteKeeps ==
    ASSUME CertStoreInv, NEW data \in Data, SecretWrite(data),
           data \in Nat => data \in 1 .. serial
    PROVE  /\ secret' \in Secrets /\ version' \in Nat
           /\ stored' \subseteq 1 .. serial /\ stored \subseteq stored'
           /\ data \in Nat => data \in stored'
           /\ secret' # Nil /\ secret'.data \in Nat => secret'.data \in stored'
  BY CertStoreAssumption DEF CertStoreInv, CertStoreTypeOK, SecretWrite, Secrets, Data

(* A pair that is served after a successful write was written by it. *)
LEMMA UpdateReturnsKeeps ==
    ASSUME CertStoreInv, NEW r \in Replicas, NEW ok \in BOOLEAN, pc[r] = "writing",
           UpdateReturns(r, ok),
           stored \subseteq stored', ok /\ pair[r] \in Nat => pair[r] \in stored'
    PROVE  /\ pc' \in [Replicas -> {"down", "idle", "rotating", "issued", "writing"}]
           /\ served' \in [Replicas -> Nat \cup {Nil}]
           /\ \A q \in Replicas : q # r => pc'[q] = pc[q] /\ served'[q] = served[q]
           /\ pc'[r] \in {"idle", "rotating"}
           /\ HeldWasStored'
           /\ served[r] # Nil => served'[r] # Nil /\ served'[r] >= served[r]
  BY CertStoreAssumption
     DEF CertStoreInv, CertStoreTypeOK, UpdateReturns, loadX509KeyPairData, HeldWasStored

(* Every step keeps the invariant. *)
LEMMA CertStoreStep == CertStoreInv /\ [CertStoreNext]_certVars => CertStoreInv'
<1> SUFFICES ASSUME CertStoreInv, [CertStoreNext]_certVars PROVE CertStoreInv'
  OBVIOUS
<1> USE CertStoreAssumption
<1>1. ASSUME NEW r \in Replicas, NEW failed \in BOOLEAN, NewServerCertificateManager(r, failed)
      PROVE  CertStoreInv'
  <2> DEFINE current == Current(failed)
  <2>1. current.cert \in Nat \cup {Nil} /\ (current.cert # Nil => current.cert \in stored)
    BY DEF CertStoreInv, CertStoreTypeOK, Current, loadX509KeyPairData, Secrets
  <2>2. current.error # "nil" => current.cert = Nil
    BY DEF Current
  <2>3. /\ served' = [served EXCEPT ![r] = current.cert]
        /\ pc' = [pc EXCEPT ![r] = IF current.error = "nil" THEN "idle" ELSE "rotating"]
        /\ UNCHANGED <<apiVars, signerVars, pair, seen, edits, rotations>>
        /\ Fault(failed) /\ pc[r] = "down"
    BY <1>1 DEF NewServerCertificateManager
  <2> HIDE DEF current
  <2>4. CertStoreTypeOK' /\ HeldWasStored'
    BY <2>1, <2>3 DEF CertStoreInv, CertStoreTypeOK, HeldWasStored, apiVars, signerVars, Fault
  <2> QED
    BY <2>1, <2>3, <2>4 DEF CertStoreInv, CertStoreTypeOK, apiVars, signerVars
<1>2. ASSUME NEW r \in Replicas, rotationDue(r) PROVE CertStoreInv'
  BY <1>2 DEF rotationDue, CertStoreInv, CertStoreTypeOK, HeldWasStored, apiVars, signerVars
<1>3. ASSUME NEW r \in Replicas, issue(r) PROVE CertStoreInv'
  <2>1. PICK failed \in BOOLEAN :
            /\ Fault(failed)
            /\ serial' = IF failed THEN serial ELSE serial + 1
            /\ pair' = [pair EXCEPT ![r] = IF failed THEN Bad ELSE serial + 1]
    BY <1>3 DEF issue
  <2>2. CertStoreTypeOK' /\ HeldWasStored'
    BY <1>3, <2>1 DEF issue, CertStoreInv, CertStoreTypeOK, HeldWasStored, apiVars,
                      Fault
  <2>3. \A q \in Replicas : served[q] # Nil => served[q] < serial + 1
    BY DEF CertStoreInv, CertStoreTypeOK, HeldWasStored
  <2> QED
    BY <1>3, <2>1, <2>2, <2>3 DEF issue, CertStoreInv, CertStoreTypeOK, apiVars
<1>4. ASSUME NEW r \in Replicas, NEW failed \in BOOLEAN, UpdateGet(r, failed) PROVE CertStoreInv'
  BY <1>4 DEF UpdateGet, CertStoreInv, CertStoreTypeOK, HeldWasStored, apiVars, signerVars,
              Fault, Secrets
<1>5. ASSUME NEW r \in Replicas, UpdateWrite(r) PROVE CertStoreInv'
  <2>1. PICK failed \in BOOLEAN, applied \in BOOLEAN :
            /\ Fault(failed)
            /\ IF applied THEN SecretWrite(pair[r]) ELSE UNCHANGED apiVars
            /\ UpdateReturns(r, applied /\ ~failed)
    BY <1>5 DEF UpdateWrite
  <2>2. /\ pc[r] = "writing"
        /\ pair' = [pair EXCEPT ![r] = Nil]
        /\ seen' = [seen EXCEPT ![r] = Nil]
        /\ UNCHANGED <<signerVars, edits, rotations>>
    BY <1>5 DEF UpdateWrite
  <2>3. pair[r] \in Data /\ (pair[r] \in Nat => pair[r] \in 1 .. serial)
    BY <2>2 DEF CertStoreInv, CertStoreTypeOK, Data
  <2>4. /\ secret' \in Secrets /\ version' \in Nat
        /\ stored' \subseteq 1 .. serial /\ stored \subseteq stored'
        /\ applied /\ pair[r] \in Nat => pair[r] \in stored'
        /\ secret' # Nil /\ secret'.data \in Nat => secret'.data \in stored'
    <3>1. CASE applied
      BY <2>1, <2>3, <3>1, SecretWriteKeeps
    <3>2. CASE ~applied
      <4>1. secret' = secret /\ version' = version /\ stored' = stored
        BY <2>1, <3>2 DEF apiVars
      <4> QED
        BY <3>2, <4>1 DEF CertStoreInv, CertStoreTypeOK
    <3> QED
      BY <3>1, <3>2
  <2>5. /\ pc' \in [Replicas -> {"down", "idle", "rotating", "issued", "writing"}]
        /\ served' \in [Replicas -> Nat \cup {Nil}]
        /\ \A q \in Replicas : q # r => pc'[q] = pc[q] /\ served'[q] = served[q]
        /\ pc'[r] \in {"idle", "rotating"}
        /\ HeldWasStored'
    <3> DEFINE ok == applied /\ ~failed
    <3>1. ok \in BOOLEAN /\ (ok /\ pair[r] \in Nat => pair[r] \in stored') /\ UpdateReturns(r, ok)
      BY <2>1, <2>4
    <3> HIDE DEF ok
    <3> QED
      BY <2>2, <2>4, <3>1, UpdateReturnsKeeps
  <2>6. CertStoreTypeOK'
    <3>1. faults' \in 0 .. MaxFaults
      BY <2>1 DEF CertStoreInv, CertStoreTypeOK, Fault
    <3>2. pair' \in [Replicas -> Nat \cup {Bad, Nil}] /\ seen' \in [Replicas -> Secrets]
      BY <2>2 DEF CertStoreInv, CertStoreTypeOK, Secrets
    <3> QED
      BY <2>2, <2>4, <2>5, <3>1, <3>2 DEF CertStoreInv, CertStoreTypeOK, signerVars
  <2> QED
    BY <2>2, <2>4, <2>5, <2>6 DEF CertStoreInv, CertStoreTypeOK, signerVars
<1>6. ASSUME NEW r \in Replicas, Crash(r) PROVE CertStoreInv'
  BY <1>6 DEF Crash, CertStoreInv, CertStoreTypeOK, HeldWasStored, apiVars, signerVars,
              Fault, Secrets
<1>7. CASE Edit
  <2>1. /\ secret' \in Secrets /\ version' \in Nat
        /\ stored' \subseteq 1 .. serial /\ stored \subseteq stored'
        /\ secret' # Nil /\ secret'.data \in Nat => secret'.data \in stored'
    <3>1. CASE secret' = Nil /\ UNCHANGED <<version, stored>>
      BY <3>1 DEF CertStoreInv, CertStoreTypeOK, Secrets
    <3>2. ASSUME NEW data \in {Bad, NoKeys}, SecretWrite(data)
          PROVE  <2>1!1 /\ <2>1!2 /\ <2>1!3
      BY <3>2, SecretWriteKeeps DEF Data
    <3> QED
      BY <1>7, <3>1, <3>2 DEF Edit
  <2>2. HeldWasStored'
    BY <1>7, <2>1 DEF Edit, replicaVars, CertStoreInv, HeldWasStored
  <2> QED
    BY <1>7, <2>1, <2>2 DEF Edit, replicaVars, signerVars, CertStoreInv, CertStoreTypeOK
<1>8. CASE expire \/ signerStops
  <2>1. UNCHANGED <<apiVars, serial, replicaVars, bounds>>
    BY <1>8 DEF expire, signerStops
  <2>2. signs' \in BOOLEAN /\ expired' \in 0 .. serial
    <3>1. signs' \in BOOLEAN
      BY <1>8, Zenon DEF expire, signerStops, CertStoreInv, CertStoreTypeOK
    <3>2. expired \in 0 .. serial /\ serial \in Nat
      BY DEF CertStoreInv, CertStoreTypeOK
    <3>3. expired' = expired \/ (expired < serial /\ expired' = expired + 1)
      BY <1>8, Zenon DEF expire, signerStops
    <3>4. expired' \in 0 .. serial
      BY <3>2, <3>3
    <3> QED
      BY <3>1, <3>4
  <2>3. CertStoreTypeOK'
    BY <2>1, <2>2 DEF apiVars, replicaVars, bounds, CertStoreInv, CertStoreTypeOK
  <2> QED
    BY <2>1, <2>3 DEF apiVars, replicaVars, CertStoreInv, HeldWasStored
<1>9. CASE UNCHANGED certVars
  BY <1>9 DEF certVars, apiVars, signerVars, replicaVars, bounds, CertStoreInv, CertStoreTypeOK,
              HeldWasStored
<1> QED
  BY <1>1, <1>2, <1>3, <1>4, <1>5, <1>6, <1>7, <1>8, <1>9 DEF CertStoreNext, ReplicaStep

(* The invariant holds in every state. *)
LEMMA CertStoreInvariant == CertStoreSpec => []CertStoreInv
<1>1. CertStoreInit => CertStoreInv
  BY CertStoreAssumption
     DEF CertStoreInit, CertStoreInv, CertStoreTypeOK, HeldWasStored, Secrets
<1> QED
  BY <1>1, CertStoreStep, PTL DEF CertStoreSpec

(* The store keeps its types; in particular no replica ever serves data      *)
(* that tls.X509KeyPair rejects (store.go:112).                              *)
THEOREM CertStoreTypeCorrect == CertStoreSpec => []CertStoreTypeOK
  BY CertStoreInvariant, PTL DEF CertStoreInv

(* Every certificate a replica serves has been in the Secret, for any number *)
(* of replicas, failures and edits (store.go:92-110).                        *)
THEOREM ServedCertificatesWereStored == CertStoreSpec => []ServedWasStored
<1>1. CertStoreInv => ServedWasStored
  BY DEF CertStoreInv, HeldWasStored, ServedWasStored, GetCertificate
<1> QED
  BY <1>1, CertStoreInvariant, PTL

(* A version names one state of the Secret: an object that a replica holds   *)
(* since its Get is the Secret itself while the version is the same, however *)
(* often the Secret was replaced, deleted and created.                       *)
VersionsName ==
    /\ secret # Nil => secret.version <= version
    /\ \A r \in Replicas : seen[r] # Nil =>
        /\ seen[r].version <= version
        /\ (secret # Nil /\ secret.version = seen[r].version) => secret = seen[r]

(* A write by the API server gives the Secret a version nobody has seen. *)
LEMMA SecretWriteNames ==
    ASSUME CertStoreTypeOK, VersionsName, NEW data \in Data, SecretWrite(data),
           \A r \in Replicas : seen'[r] \in {seen[r], Nil}
    PROVE  VersionsName'
<1>1. version' = version + 1 /\ secret' = [version |-> version + 1, data |-> data]
  BY DEF SecretWrite
<1>2. version \in Nat /\ seen \in [Replicas -> Secrets]
  BY DEF CertStoreTypeOK
<1>3. \A r \in Replicas : seen[r] # Nil => seen[r].version \in Nat
  BY <1>2 DEF Secrets
<1>4. secret'.version = version + 1
  BY <1>1
<1> QED
  BY <1>1, <1>2, <1>3, <1>4 DEF VersionsName

(* Every step keeps what versions name. *)
LEMMA VersionsNameStep ==
    CertStoreInv /\ VersionsName /\ [CertStoreNext]_certVars => VersionsName'
<1> SUFFICES ASSUME CertStoreInv, VersionsName, [CertStoreNext]_certVars PROVE VersionsName'
  OBVIOUS
<1>1. CertStoreTypeOK
  BY DEF CertStoreInv
<1>2. CASE UNCHANGED <<apiVars, seen>>
  BY <1>2 DEF VersionsName, apiVars
<1>3. ASSUME NEW r \in Replicas, NEW failed \in BOOLEAN, UpdateGet(r, failed) PROVE VersionsName'
  <2>1. UNCHANGED apiVars /\ seen' = [seen EXCEPT ![r] = IF failed THEN Nil ELSE secret]
    BY <1>3 DEF UpdateGet
  <2>2. \A q \in Replicas : seen'[q] \in {seen[q], secret, Nil}
    BY <1>1, <2>1 DEF CertStoreTypeOK
  <2> QED
    BY <2>1, <2>2 DEF VersionsName, apiVars
<1>4. ASSUME NEW r \in Replicas, UpdateWrite(r) PROVE VersionsName'
  <2>1. \A q \in Replicas : seen'[q] \in {seen[q], Nil}
    BY <1>1, <1>4 DEF UpdateWrite, CertStoreTypeOK
  <2>2. pair[r] \in Data
    BY <1>4 DEF UpdateWrite, CertStoreInv, CertStoreTypeOK, Data
  <2>3. SecretWrite(pair[r]) \/ UNCHANGED apiVars
    BY <1>4 DEF UpdateWrite
  <2>4. CASE UNCHANGED apiVars
    BY <2>1, <2>4 DEF VersionsName, apiVars
  <2> QED
    BY <1>1, <2>1, <2>2, <2>3, <2>4, SecretWriteNames
<1>5. ASSUME NEW r \in Replicas, Crash(r) PROVE VersionsName'
  <2>1. UNCHANGED apiVars /\ \A q \in Replicas : seen'[q] \in {seen[q], Nil}
    BY <1>1, <1>5 DEF Crash, CertStoreTypeOK
  <2> QED
    BY <2>1 DEF VersionsName, apiVars
<1>6. CASE Edit
  <2>1. seen' = seen
    BY <1>6 DEF Edit, replicaVars
  <2>2. CASE secret' = Nil /\ UNCHANGED <<version, stored>>
    BY <2>1, <2>2 DEF VersionsName
  <2>3. ASSUME NEW data \in {Bad, NoKeys}, SecretWrite(data) PROVE VersionsName'
    BY <1>1, <2>1, <2>3, SecretWriteNames DEF Data
  <2> QED
    BY <1>6, <2>2, <2>3 DEF Edit
<1> QED
  BY <1>2, <1>3, <1>4, <1>5, <1>6
     DEF CertStoreNext, ReplicaStep, NewServerCertificateManager, rotationDue, issue, expire,
         signerStops, replicaVars, certVars

(* For any number of replicas and writers, Update's Get and write work like  *)
(* one atomic step: what a write replaces is what its Get returned           *)
(* (store.go:76-109).                                                        *)
THEOREM UpdatesWorkAtomically == CertStoreSpec => UpdatesAreAtomic
<1> DEFINE Atomic == \A r \in Replicas :
        (pc[r] = "writing" /\ pc'[r] # "writing" /\ secret' # secret) => secret = seen[r]
<1>1. CertStoreInit => VersionsName
  BY DEF CertStoreInit, VersionsName
<1>2. ASSUME CertStoreInv, VersionsName, [CertStoreNext]_certVars PROVE [Atomic]_certVars
  <2> SUFFICES ASSUME NEW r \in Replicas, pc[r] = "writing", pc'[r] # "writing", secret' # secret
               PROVE  secret = seen[r]
    OBVIOUS
  <2>1. pc \in [Replicas -> {"down", "idle", "rotating", "issued", "writing"}]
    BY <1>2 DEF CertStoreInv, CertStoreTypeOK
  <2>2. ~UNCHANGED apiVars
    BY DEF apiVars
  <2>3. PICK q \in Replicas : UpdateWrite(q)
    BY <1>2, <2>2 DEF CertStoreNext, ReplicaStep, NewServerCertificateManager, rotationDue, issue,
                      UpdateGet, Crash, Edit, expire, signerStops, replicaVars, certVars
  <2>4. Accepted(q)
    BY <2>2, <2>3 DEF UpdateWrite
  <2>5. q = r
    BY <2>1, <2>3 DEF UpdateWrite, UpdateReturns
  <2> QED
    BY <1>2, <2>4, <2>5 DEF Accepted, VersionsName
<1> QED
  BY <1>1, <1>2, VersionsNameStep, CertStoreInvariant, PTL DEF CertStoreSpec, UpdatesAreAtomic

(* A replica that serves goes on serving, and moves to later certificates    *)
(* only, through every failed rotation, until the one it holds expires       *)
(* (store.go:92-110, main.go:305).                                           *)
THEOREM RotationsKeepServing == CertStoreSpec => RotationKeepsServing
<1> DEFINE Goes == \A r \in Replicas : (GetCertificate(r) # Nil /\ pc'[r] # "down")
                        => \/ GetCertificate(r)' # Nil /\ GetCertificate(r)' >= GetCertificate(r)
                           \/ GetCertificate(r) <= expired'
<1>1. ASSUME CertStoreInv, [CertStoreNext]_certVars PROVE [Goes]_certVars
  <2> SUFFICES ASSUME NEW r \in Replicas, served[r] # Nil, pc'[r] # "down"
               PROVE  served'[r] # Nil /\ served'[r] >= served[r]
    <3> SUFFICES ASSUME NEW r \in Replicas, GetCertificate(r) # Nil, pc'[r] # "down"
                 PROVE  \/ GetCertificate(r)' # Nil /\ GetCertificate(r)' >= GetCertificate(r)
                        \/ GetCertificate(r) <= expired'
      OBVIOUS
    <3>1. GetCertificate(r) = served[r] /\ served[r] # Nil
      BY DEF GetCertificate
    <3>2. served'[r] # Nil /\ served'[r] >= served[r]
      BY <3>1
    <3>3. served[r] \in Nat /\ served'[r] \in Nat /\ expired' \in Nat
      BY <1>1, <3>1, <3>2, CertStoreStep DEF CertStoreInv, CertStoreTypeOK
    <3>4. CASE served'[r] <= expired'
      BY <3>1, <3>2, <3>3, <3>4
    <3>5. CASE ~(served'[r] <= expired')
      BY <3>1, <3>2, <3>5 DEF GetCertificate, Expired
    <3> QED
      BY <3>4, <3>5
  <2>1. served[r] \in Nat
    BY <1>1 DEF CertStoreInv, CertStoreTypeOK
  <2>2. CASE UNCHANGED served
    BY <2>1, <2>2, CertStoreAssumption
  <2>3. ASSUME NEW q \in Replicas, NEW failed \in BOOLEAN, NewServerCertificateManager(q, failed)
        PROVE  served'[r] = served[r]
    <3>1. pc[r] # "down"
      BY <1>1 DEF CertStoreInv
    <3> QED
      BY <1>1, <2>3, <3>1 DEF NewServerCertificateManager, CertStoreInv, CertStoreTypeOK
  <2>4. ASSUME NEW q \in Replicas, UpdateWrite(q)
        PROVE  served'[r] # Nil /\ served'[r] >= served[r]
    <3>1. PICK ok \in BOOLEAN : UpdateReturns(q, ok)
      BY <2>4 DEF UpdateWrite
    <3> QED
      BY <1>1, <2>1, <2>4, <3>1, CertStoreAssumption
         DEF UpdateWrite, UpdateReturns, loadX509KeyPairData, CertStoreInv, CertStoreTypeOK
  <2>5. ASSUME NEW q \in Replicas, Crash(q)
        PROVE  served'[r] = served[r]
    BY <1>1, <2>5 DEF Crash, CertStoreInv, CertStoreTypeOK
  <2> QED
    BY <1>1, <2>1, <2>2, <2>3, <2>4, <2>5, CertStoreAssumption
       DEF CertStoreNext, ReplicaStep, rotationDue, issue, UpdateGet, Edit, expire, signerStops,
           replicaVars, certVars
<1> QED
  BY <1>1, CertStoreInvariant, PTL DEF CertStoreSpec, RotationKeepsServing
=============================================================================
