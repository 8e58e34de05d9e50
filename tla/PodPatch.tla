------------------------------ MODULE PodPatch ------------------------------
(***************************************************************************)
(* What the webhook does to a pod once buildPodPatchConfig has decided:    *)
(* addEnvToContainer, getPodSpecPatch and MutatePod, the JSON patch the    *)
(* API server applies, and other admission plugins that add containers.  A *)
(* pod may meet the webhook again: copied from a running pod, reinvoked,   *)
(* or where two webhooks are deployed.                                     *)
(*                                                                         *)
(* Environment variables are their names in order, mounts and volumes are  *)
(* volume names in order; values and paths are left out, so is the Windows *)
(* path.                                                                   *)
(***************************************************************************)
EXTENDS Naturals, Sequences

CONSTANTS
    Nil,            \* a missing list, label map or patch operation
    Unparsable,     \* a skip-containers annotation encoding/csv rejects
    Region,         \* the aws-default-region flag is set
    Submitted,      \* pods users submit
    Injected,       \* containers other plugins inject
    PatchConfigs,   \* podPatchConfigs, as [method, sts, volume]
    MaxInvocations, \* bound: invocations of the webhook
    MaxContainers   \* bound: containers of a pod

webIdentityKeys == {"AWS_ROLE_ARN", "AWS_WEB_IDENTITY_TOKEN_FILE"}
containerCredentialsKeys ==
    {"AWS_CONTAINER_CREDENTIALS_FULL_URI", "AWS_CONTAINER_AUTHORIZATION_TOKEN_FILE"}
awsRegionKeys == {"AWS_REGION", "AWS_DEFAULT_REGION"}
stsKey == "AWS_STS_REGIONAL_ENDPOINTS"
allKeys == webIdentityKeys \cup containerCredentialsKeys \cup awsRegionKeys \cup {stsKey}

Names(seq) == {seq[i] : i \in 1 .. Len(seq)}
Unique(seq) == \A i, j \in 1 .. Len(seq) : seq[i] = seq[j] => i = j

Container == [name : STRING, env : Seq(STRING), mounts : Seq(STRING)]
Labels == {"pod-identity"} \cup UNION {p.labels : p \in {q \in Submitted : q.labels # Nil}}
Pod ==
    [containers : Seq(Container), inits : Seq(Container),
     volumes : {Nil} \cup Seq(STRING), labels : {Nil} \cup SUBSET Labels,
     skip : {Nil, Unparsable} \cup SUBSET STRING]
PatchConfig ==
    [method : {"sts_web_identity", "container_credentials"}, sts : BOOLEAN, volume : STRING]

(* The API server admits no duplicate volumes, and each method has its own   *)
(* volume name (handler.go:456, 499).  That the keys are strings is a fact   *)
(* about literals the provers do not know.                                   *)
ASSUME PatchAssumption ==
    /\ Region \in BOOLEAN
    /\ Submitted \subseteq Pod
    /\ Injected \subseteq Container
    /\ PatchConfigs \subseteq PatchConfig
    /\ \A p \in Submitted : p.volumes # Nil => Unique(p.volumes)
    /\ \A a, b \in PatchConfigs : a.method = b.method => a.volume = b.volume
    /\ allKeys \subseteq STRING
    /\ Nil \notin {"create", "add"} \cup Seq(STRING) \cup Seq(Container) \cup PatchConfigs
    /\ \A labels \in SUBSET Labels : Nil # labels

VARIABLES
    pod,            \* [containers, inits, volumes, labels, skip]
    own,            \* the pod without what the webhook has added
    config,         \* Nil, or the config of the last invocation if nothing came after
    changed,        \* what the last invocation reported
    invocations

podVars == <<pod, own, config, changed, invocations>>

-----------------------------------------------------------------------------

(* getContainersToSkip: names from the annotation, none if it does not parse. *)
getContainersToSkip(annotation) ==
    IF annotation \in {Nil, Unparsable} THEN {} ELSE annotation

KeysOf(cfg) ==
    IF cfg.method = "container_credentials" THEN containerCredentialsKeys ELSE webIdentityKeys

(* The variables addEnvToContainer appends.  One defined key of a pair counts *)
(* as both, and the pair of the other method does not count.                  *)
envFor(env, cfg) ==
    LET defined(keys) == Names(env) \cap keys # {} IN
       (IF ~defined({stsKey}) /\ cfg.sts THEN <<stsKey>> ELSE <<>>)
    \o (IF ~defined(awsRegionKeys) /\ Region
        THEN <<"AWS_DEFAULT_REGION", "AWS_REGION">> ELSE <<>>)
    \o (IF defined(KeysOf(cfg)) THEN <<>>
        ELSE IF cfg.method = "container_credentials"
        THEN <<"AWS_CONTAINER_CREDENTIALS_FULL_URI", "AWS_CONTAINER_AUTHORIZATION_TOKEN_FILE">>
        ELSE <<"AWS_ROLE_ARN", "AWS_WEB_IDENTITY_TOKEN_FILE">>)

(* The early return: credentials, region and STS keys are all there. *)
nothingToAdd(env, cfg) ==
    \A keys \in {KeysOf(cfg), awsRegionKeys, {stsKey}} : Names(env) \cap keys # {}

(* The mount, unless the container mounts a volume of that name (volExists). *)
mountVolume(mounts, volume) ==
    IF volume \in Names(mounts) THEN mounts ELSE mounts \o <<volume>>

(* Mutants: variables and the mount are not looked for before they are       *)
(* added; a container with credential keys of either method is left alone.   *)
addEnvAlways(c, cfg) ==
    [c EXCEPT !.env = @ \o envFor(<<>>, cfg), !.mounts = @ \o <<cfg.volume>>]
addEnvUnlessAnyKeys(c, cfg) ==
    IF Names(c.env) \cap (webIdentityKeys \cup containerCredentialsKeys) # {} THEN c
    ELSE [c EXCEPT !.env = @ \o envFor(@, cfg), !.mounts = mountVolume(@, cfg.volume)]

addEnvToContainer(c, cfg) ==
    IF nothingToAdd(c.env, cfg) THEN c
    ELSE [c EXCEPT !.env = @ \o envFor(@, cfg), !.mounts = mountVolume(@, cfg.volume)]

patchContainers(containers, skip, cfg) ==
    [i \in 1 .. Len(containers) |->
        IF containers[i].name \in skip THEN containers[i]
        ELSE addEnvToContainer(containers[i], cfg)]

(* Mutants: the label map is always created, replacing the one that is       *)
(* there; the volume is added without looking for it; a pod without a list   *)
(* of volumes gets none.                                                     *)
labelsCreate(p, cfg) ==
    IF cfg.method # "container_credentials" THEN Nil ELSE "create"
volumesAdd(p, cfg) ==
    IF p.volumes = Nil THEN "create" ELSE "add"
volumesNone(p, cfg) ==
    IF p.volumes = Nil \/ cfg.volume \in Names(p.volumes) THEN Nil ELSE "add"

(* The patch's operation on the labels and on the volumes: Nil, "create"     *)
(* (the map or list does not exist yet) or "add".                            *)
labelsOp(p, cfg) ==
    IF cfg.method # "container_credentials" THEN Nil
    ELSE IF p.labels = Nil THEN "create" ELSE "add"

volumesOp(p, cfg) ==
    IF p.volumes = Nil THEN "create"
    ELSE IF cfg.volume \in Names(p.volumes) THEN Nil ELSE "add"

getPodSpecPatch(p, cfg) ==
    LET skip == getContainersToSkip(p.skip) IN
    [labels |-> labelsOp(p, cfg),
     volumes |-> volumesOp(p, cfg),
     volume |-> cfg.volume,
     containers |-> patchContainers(p.containers, skip, cfg),
     inits |-> IF p.inits = <<>> THEN Nil ELSE patchContainers(p.inits, skip, cfg)]

(* The flag getPodSpecPatch returns with the patch. *)
patchChanges(p, patch) ==
    \/ patch.labels # Nil
    \/ patch.volumes # Nil
    \/ patch.containers # p.containers
    \/ patch.inits # Nil /\ patch.inits # p.inits

(* The API server applies the patch (RFC 6902 add). *)
applyPatch(p, patch) ==
    [p EXCEPT
        !.labels = CASE patch.labels = "create" -> {"pod-identity"}
                     [] patch.labels = "add" -> @ \cup {"pod-identity"}
                     [] OTHER -> @,
        !.volumes = CASE patch.volumes = "create" -> <<patch.volume>>
                      [] patch.volumes = "add" -> <<patch.volume>> \o @
                      [] OTHER -> @,
        !.containers = patch.containers,
        !.inits = IF patch.inits = Nil THEN @ ELSE patch.inits]

-----------------------------------------------------------------------------

PatchInit ==
    /\ pod \in Submitted
    /\ own = pod
    /\ config = Nil
    /\ changed = FALSE
    /\ invocations = 0

MutatePod(cfg) ==
    LET patch == getPodSpecPatch(pod, cfg) IN
    /\ invocations < MaxInvocations
    /\ pod' = applyPatch(pod, patch)
    /\ changed' = patchChanges(pod, patch)
    /\ config' = cfg
    /\ invocations' = invocations + 1
    /\ UNCHANGED own

(* Another admission plugin appends a container. *)
Inject(c) ==
    /\ Len(pod.containers) < MaxContainers
    /\ pod' = [pod EXCEPT !.containers = Append(@, c)]
    /\ own' = [own EXCEPT !.containers = Append(@, c)]
    /\ config' = Nil
    /\ UNCHANGED <<changed, invocations>>

PatchNext ==
    \/ \E cfg \in PatchConfigs : MutatePod(cfg)
    \/ \E c \in Injected : Inject(c)

PatchSpec == PatchInit /\ [][PatchNext]_podVars

-----------------------------------------------------------------------------
(* Properties.                                                             *)

StartsWith(seq, start) ==
    Len(seq) >= Len(start) /\ \A j \in 1 .. Len(start) : seq[j] = start[j]

(* What is there of c apart from what its owner wrote comes after it. *)
Extends(c, owned) ==
    /\ c.name = owned.name
    /\ StartsWith(c.env, owned.env)
    /\ StartsWith(c.mounts, owned.mounts)

ExtendsAll(containers, owned) ==
    /\ Len(containers) = Len(owned)
    /\ \A i \in 1 .. Len(owned) : Extends(containers[i], owned[i])

SkippedAlone(containers, owned, skip) ==
    \A i \in 1 .. Len(containers) : containers[i].name \in skip => containers[i] = owned[i]

(* However often the webhook is invoked, and with whatever configs, the pod  *)
(* keeps its containers in order with their own variables and mounts, its    *)
(* own volumes and its labels; skipped containers stay as they are           *)
(* (handler.go:311-429).                                                     *)
OwnSettingsKept ==
    /\ ExtendsAll(pod.containers, own.containers)
    /\ ExtendsAll(pod.inits, own.inits)
    /\ SkippedAlone(pod.containers, own.containers, getContainersToSkip(pod.skip))
    /\ SkippedAlone(pod.inits, own.inits, getContainersToSkip(pod.skip))
    /\ own.volumes # Nil => Names(own.volumes) \subseteq Names(pod.volumes)
    /\ own.labels # Nil => own.labels \subseteq pod.labels

NothingTwice(containers, owned) ==
    \A i \in 1 .. Len(containers) :
        /\ Unique(owned[i].env) => Unique(containers[i].env)
        /\ Unique(owned[i].mounts) => Unique(containers[i].mounts)

(* No invocation gives a container or init container a variable or a mount,  *)
(* or the pod a volume, it has already: the API server rejects duplicate     *)
(* volumes and mount paths, and the last of two variables of one name wins   *)
(* (handler.go:192-284, 386-413).                                            *)
NoDuplicates ==
    /\ NothingTwice(pod.containers, own.containers)
    /\ NothingTwice(pod.inits, own.inits)
    /\ pod.volumes # Nil => Unique(pod.volumes)

(* Invoking the webhook once more with the same config changes nothing: the  *)
(* patch finds its own label, volume, variables and mounts                   *)
(* (handler.go:172-429).                                                     *)
Idempotent ==
    config # Nil => applyPatch(pod, getPodSpecPatch(pod, config)) = pod

HasCredentials(c, cfg) == KeysOf(cfg) \subseteq Names(c.env) /\ cfg.volume \in Names(c.mounts)

(* After an invocation, a container that is not skipped and whose owner set  *)
(* none of the method's variables has both of them and the token's mount,    *)
(* and the volume exists, also when an earlier invocation used another       *)
(* method or the container was injected in between.                          *)
ContainersGetCredentials ==
    config # Nil =>
        /\ config.volume \in Names(pod.volumes)
        /\ \A i \in 1 .. Len(pod.containers) :
            /\ pod.containers[i].name \notin getContainersToSkip(pod.skip)
            /\ Names(own.containers[i].env) \cap KeysOf(config) = {}
            => HasCredentials(pod.containers[i], config)

VolumeNames(p) == IF p.volumes = Nil THEN {} ELSE Names(p.volumes)

MountsNamed(containers, owned, volumes) ==
    \A i \in 1 .. Len(containers) :
        Names(containers[i].mounts) \ Names(owned[i].mounts) \subseteq volumes

(* Every mount the webhook has added, to containers and init containers and  *)
(* in whatever invocation, is of a volume the pod has: the API server        *)
(* rejects a pod with any other mount (handler.go:266-284, 386-413).         *)
MountsHaveVolumes ==
    /\ MountsNamed(pod.containers, own.containers, VolumeNames(pod))
    /\ MountsNamed(pod.inits, own.inits, VolumeNames(pod))

(* "Pod was not mutated. Reason: Required volume mounts and env variables    *)
(* were already present." (handler.go:571-572): when nothing is reported as  *)
(* changed, every container that is not skipped has the token's mount.       *)
UnchangedMeansPresent ==
    config # Nil /\ ~changed =>
        \A i \in 1 .. Len(pod.containers) :
            \/ pod.containers[i].name \in getContainersToSkip(pod.skip)
            \/ config.volume \in Names(pod.containers[i].mounts)
=============================================================================
