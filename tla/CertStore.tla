----------------------------- MODULE CertStore -----------------------------
(***************************************************************************)
(* In-cluster serving certificates: replicas of the webhook that keep the  *)
(* certificate and key in one Secret (secretCertStore) and have client-go's *)
(* certificate manager rotate them.  The manager is external: it reads the *)
(* store when it is made, requests a certificate when the store has none   *)
(* or a rotation is due, has the store save it, serves it once it is       *)
(* saved, and starts over with a new request on any error.  Replicas crash *)
(* and restart, calls fail with or without having been applied, the Secret *)
(* is changed by others, certificates expire, and the signer may issue     *)
(* what does not load.                                                     *)
(*                                                                         *)
(* Requests name the signer kubernetes.io/legacy-unknown (request.go:69),  *)
(* which certificates/v1 does not have: README.md:8-11 says that such      *)
(* requests are no longer signed.  Whether the cluster signs them is a     *)
(* variable, and nothing below assumes that it does.                       *)
(***************************************************************************)
EXTENDS Naturals

CONSTANTS
    Replicas,
    Nil,            \* no Secret, no certificate
    Bad,            \* data that tls.X509KeyPair rejects
    NoKeys,         \* data without tls.crt or tls.key
    MaxFaults,      \* bound: crashes, failed calls and pairs that do not load
    MaxEdits,       \* bound: changes of the Secret by others
    MaxRotations,   \* bound: rotations because a deadline passes
    MaxExpiries     \* bound: certificates that expire

ASSUME CertStoreAssumption ==
    /\ {Nil, Bad, NoKeys} \cap Nat = {}
    /\ Nil # Bad /\ Nil # NoKeys /\ Bad # NoKeys
    /\ MaxFaults \in Nat /\ MaxEdits \in Nat /\ MaxRotations \in Nat
    /\ MaxExpiries \in Nat

VARIABLES
    secret,     \* Nil, or [version, data]: a pair is its serial number
    version,    \* the last resourceVersion
    serial,     \* the last serial number issued
    stored,     \* history: the serials the Secret has held
    signs,      \* the cluster signs requests to legacy-unknown
    expired,    \* the serial up to which certificates have expired: they are issued
                \* with one lifetime
    pc,         \* replica -> "down", "idle", "rotating", "issued" or "writing"
    served,     \* replica -> Nil or the certificate its manager holds
    pair,       \* replica -> Nil or the pair issued to it and not stored yet
    seen,       \* replica -> the Secret Update's Get returned, Nil if it failed
    faults, edits, rotations

apiVars == <<secret, version, stored>>
signerVars == <<serial, signs, expired>>
replicaVars == <<pc, served, pair, seen>>
bounds == <<faults, edits, rotations>>
certVars == <<apiVars, signerVars, replicaVars, bounds>>

Data == Nat \cup {Bad, NoKeys}
Secrets == [version : Nat, data : Data] \cup {Nil}

CertStoreTypeOK ==
    /\ secret \in Secrets
    /\ version \in Nat /\ serial \in Nat
    /\ stored \subseteq 1 .. serial
    /\ signs \in BOOLEAN /\ expired \in 0 .. serial
    /\ pc \in [Replicas -> {"down", "idle", "rotating", "issued", "writing"}]
    /\ served \in [Replicas -> Nat \cup {Nil}]
    /\ pair \in [Replicas -> Nat \cup {Bad, Nil}]
    /\ seen \in [Replicas -> Secrets]
    /\ faults \in 0 .. MaxFaults /\ edits \in 0 .. MaxEdits
    /\ rotations \in 0 .. MaxRotations

CertStoreInit ==
    /\ secret = Nil /\ version = 0 /\ serial = 0 /\ stored = {}
    /\ signs \in BOOLEAN /\ expired = 0
    /\ pc = [r \in Replicas |-> "down"]
    /\ served = [r \in Replicas |-> Nil]
    /\ pair = [r \in Replicas |-> Nil]
    /\ seen = [r \in Replicas |-> Nil]
    /\ faults = 0 /\ edits = 0 /\ rotations = 0

-----------------------------------------------------------------------------

(* A fault happens, or it does not. *)
Fault(failed) ==
    /\ failed => faults < MaxFaults
    /\ faults' = IF failed THEN faults + 1 ELSE faults

(* The API server's side of a write: the object gets a new version. *)
SecretWrite(data) ==
    /\ version' = version + 1
    /\ secret' = [version |-> version + 1, data |-> data]
    /\ stored' = stored \cup ({data} \cap Nat)

loadX509KeyPairData(data) == data \in Nat

(* Mutant: a Secret without the two keys is an error like any other. *)
CurrentStrict(failed) ==
    IF failed \/ secret = Nil THEN [cert |-> Nil, error |-> "NoCertKeyError"]
    ELSE IF loadX509KeyPairData(secret.data) THEN [cert |-> secret.data, error |-> "nil"]
    ELSE [cert |-> Nil, error |-> "parse"]

(* Current: a failed Get, a missing Secret and missing data all say that     *)
(* there is no certificate; data that does not load is another error.        *)
Current(failed) ==
    IF failed \/ secret = Nil THEN [cert |-> Nil, error |-> "NoCertKeyError"]
    ELSE IF secret.data = NoKeys THEN [cert |-> Nil, error |-> "NoCertKeyError"]
    ELSE IF loadX509KeyPairData(secret.data) THEN [cert |-> secret.data, error |-> "nil"]
    ELSE [cert |-> Nil, error |-> "parse"]

(* NewServerCertificateManager: without a certificate the manager rotates at *)
(* once; on any other error main ends with klog.Fatalf, and the replica is   *)
(* as far as before.                                                         *)
NewServerCertificateManager(r, failed) ==
    LET current == Current(failed) IN
    /\ pc[r] = "down"
    /\ Fault(failed)
    /\ current.error # "parse"
    /\ served' = [served EXCEPT ![r] = current.cert]
    /\ pc' = [pc EXCEPT ![r] = IF current.error = "nil" THEN "idle" ELSE "rotating"]
    /\ UNCHANGED <<apiVars, signerVars, pair, seen, edits, rotations>>

(* The certificate the manager holds has expired. *)
Expired(r) == served[r] # Nil /\ served[r] <= expired

(* The rotation deadline, drawn before the certificate expires, passes; one  *)
(* that has expired is long due.                                             *)
rotationDue(r) ==
    /\ pc[r] = "idle"
    /\ IF Expired(r) THEN UNCHANGED rotations
       ELSE rotations < MaxRotations /\ rotations' = rotations + 1
    /\ pc' = [pc EXCEPT ![r] = "rotating"]
    /\ UNCHANGED <<apiVars, signerVars, served, pair, seen, faults, edits>>

(* The CSR is made, approved and signed, at fault with what does not load;   *)
(* until then, and after a timeout, the manager keeps asking.                *)
issue(r) ==
    /\ pc[r] = "rotating" /\ signs
    /\ pc' = [pc EXCEPT ![r] = "issued"]
    /\ \E failed \in BOOLEAN :
        /\ Fault(failed)
        /\ serial' = IF failed THEN serial ELSE serial + 1
        /\ pair' = [pair EXCEPT ![r] = IF failed THEN Bad ELSE serial + 1]
    /\ UNCHANGED <<apiVars, signs, expired, served, seen, edits, rotations>>

(* The cluster moves to a version that no longer signs. *)
signerStops ==
    /\ signs
    /\ signs' = FALSE
    /\ UNCHANGED <<apiVars, serial, expired, replicaVars, bounds>>

expire ==
    /\ expired < serial /\ expired < MaxExpiries
    /\ expired' = expired + 1
    /\ UNCHANGED <<apiVars, serial, signs, replicaVars, bounds>>

(* Update, its Get. *)
UpdateGet(r, failed) ==
    /\ pc[r] = "issued"
    /\ Fault(failed)
    /\ seen' = [seen EXCEPT ![r] = IF failed THEN Nil ELSE secret]
    /\ pc' = [pc EXCEPT ![r] = "writing"]
    /\ UNCHANGED <<apiVars, signerVars, served, pair, edits, rotations>>

(* Mutant: Update writes a Secret of its own making, without the version. *)
AcceptedAlways(r) == seen[r] = Nil => secret = Nil

(* Create needs that there is no Secret, Update that it is the one that was  *)
(* read, whose resourceVersion it carries.                                   *)
Accepted(r) ==
    IF seen[r] = Nil THEN secret = Nil
    ELSE secret # Nil /\ secret.version = seen[r].version

(* Mutant: an error of the write is only logged. *)
UpdateReturnsAlways(r, ok) ==
    IF loadX509KeyPairData(pair[r])
    THEN /\ served' = [served EXCEPT ![r] = pair[r]]
         /\ pc' = [pc EXCEPT ![r] = "idle"]
    ELSE /\ pc' = [pc EXCEPT ![r] = "rotating"]
         /\ UNCHANGED served

(* Mutant: after a failed write Update returns neither a pair nor an error. *)
UpdateReturnsNil(r, ok) ==
    /\ served' = [served EXCEPT ![r] = IF ok /\ loadX509KeyPairData(pair[r]) THEN pair[r] ELSE Nil]
    /\ pc' = [pc EXCEPT ![r] = "idle"]

(* What Update returns, and the manager with it: the pair is served once it  *)
(* is written and loads, else the manager asks for another one.              *)
UpdateReturns(r, ok) ==
    IF ok /\ loadX509KeyPairData(pair[r])
    THEN /\ served' = [served EXCEPT ![r] = pair[r]]
         /\ pc' = [pc EXCEPT ![r] = "idle"]
    ELSE /\ pc' = [pc EXCEPT ![r] = "rotating"]
         /\ UNCHANGED served

(* Update, its Create or Update: rejected, applied, applied with the answer  *)
(* lost, or failed.                                                          *)
UpdateWrite(r) ==
    /\ pc[r] = "writing"
    /\ \E failed, applied \in BOOLEAN :
        /\ ~failed => (applied <=> Accepted(r))
        /\ applied => Accepted(r)
        /\ Fault(failed)
        /\ IF applied THEN SecretWrite(pair[r]) ELSE UNCHANGED apiVars
        /\ UpdateReturns(r, applied /\ ~failed)
    /\ pair' = [pair EXCEPT ![r] = Nil]
    /\ seen' = [seen EXCEPT ![r] = Nil]
    /\ UNCHANGED <<signerVars, edits, rotations>>

Crash(r) ==
    /\ pc[r] # "down"
    /\ Fault(TRUE)
    /\ pc' = [pc EXCEPT ![r] = "down"]
    /\ served' = [served EXCEPT ![r] = Nil]
    /\ pair' = [pair EXCEPT ![r] = Nil]
    /\ seen' = [seen EXCEPT ![r] = Nil]
    /\ UNCHANGED <<apiVars, signerVars, edits, rotations>>

(* Someone else deletes or overwrites the Secret. *)
Edit ==
    /\ edits < MaxEdits
    /\ edits' = edits + 1
    /\ \/ secret # Nil /\ secret' = Nil /\ UNCHANGED <<version, stored>>
       \/ \E data \in {Bad, NoKeys} : SecretWrite(data)
    /\ UNCHANGED <<signerVars, replicaVars, faults, rotations>>

ReplicaStep(r) ==
    \/ \E failed \in BOOLEAN : NewServerCertificateManager(r, failed) \/ UpdateGet(r, failed)
    \/ issue(r)
    \/ UpdateWrite(r)

CertStoreNext ==
    \/ \E r \in Replicas : ReplicaStep(r) \/ rotationDue(r) \/ Crash(r)
    \/ expire
    \/ signerStops
    \/ Edit

CertStoreSpec == CertStoreInit /\ [][CertStoreNext]_certVars

(* Replicas are restarted and their manager keeps running: it never settles  *)
(* for an expired certificate, and its requests are answered while the       *)
(* cluster signs them at all.                                                *)
CertStoreFairSpec ==
    /\ CertStoreSpec
    /\ \A r \in Replicas :
        /\ WF_certVars(ReplicaStep(r))
        /\ WF_certVars(Expired(r) /\ rotationDue(r))

-----------------------------------------------------------------------------
(* Properties.                                                             *)

(* main.go:305: a handshake gets the certificate the manager holds, or an    *)
(* error when there is none or it has expired.                               *)
GetCertificate(r) == IF Expired(r) THEN Nil ELSE served[r]

(* Update is atomic in effect: the Secret a write replaces is, version and   *)
(* contents, the object its Get returned, whatever other replicas and people *)
(* have written, deleted and created in between; and after a Get that failed *)
(* for whatever reason it replaces nothing (store.go:75-109).                *)
UpdatesAreAtomic ==
    [][\A r \in Replicas : (pc[r] = "writing" /\ pc'[r] # "writing" /\ secret' # secret)
            => secret = seen[r]]_certVars

(* A replica only serves a pair that loads and that the Secret has held, so  *)
(* that other replicas and a restarted one could read it: a write that       *)
(* failed or was rejected never makes it serve a pair of its own             *)
(* (store.go:92-108, main.go:305).                                           *)
ServedWasStored == \A r \in Replicas : GetCertificate(r) # Nil => GetCertificate(r) \in stored

(* A running replica that serves goes on serving, and only ever moves to a   *)
(* later certificate, whatever happens to the Secret, to its rotations and   *)
(* to the signer, until the certificate it holds expires (store.go:92-110,   *)
(* main.go:305).                                                             *)
RotationKeepsServing ==
    [][\A r \in Replicas : (GetCertificate(r) # Nil /\ pc'[r] # "down")
            => \/ GetCertificate(r)' # Nil /\ GetCertificate(r)' >= GetCertificate(r)
               \/ GetCertificate(r) <= expired']_certVars

(* The Secret holds data main cannot start with (main.go:299). *)
CannotStart == secret # Nil /\ secret.data = Bad

(* In the end every replica serves a certificate, whatever was lost, edited, *)
(* raced for or has expired.  Two things only keep a replica from serving    *)
(* for good: a Secret whose pair does not load, and a cluster that does not  *)
(* sign for legacy-unknown (request.go:69, main.go:299-309).                 *)
ReplicasEndUpServing ==
    <>[](\A r \in Replicas :
            \/ GetCertificate(r) # Nil
            \/ pc[r] = "down" /\ CannotStart
            \/ pc[r] = "rotating" /\ ~signs)
=============================================================================
