--------------------------- MODULE PodPatchProofs ---------------------------
(***************************************************************************)
(* What the patch preserves, for every set of pods, of injected containers *)
(* and of configs, and any number of invocations.  Kept relates a          *)
(* container of the pod to what its owner wrote: it is reflexive, and      *)
(* addEnvToContainer preserves it.                                         *)
(***************************************************************************)
EXTENDS PodPatch, TLAPS

(* Operators on sequences of names. *)
LEMMA ConcatNames ==
    ASSUME NEW s \in Seq(STRING), NEW t \in Seq(STRING)
    PROVE  /\ s \o t \in Seq(STRING)
           /\ Len(s \o t) = Len(s) + Len(t)
           /\ \A i \in 1 .. Len(s) : (s \o t)[i] = s[i]
           /\ \A i \in 1 .. Len(t) : (s \o t)[Len(s) + i] = t[i]
           /\ Names(s \o t) = Names(s) \cup Names(t)
<1>1. /\ s \o t \in Seq(STRING)
      /\ Len(s \o t) = Len(s) + Len(t)
      /\ \A i \in 1 .. Len(s) : (s \o t)[i] = s[i]
      /\ \A i \in 1 .. Len(t) : (s \o t)[Len(s) + i] = t[i]
  OBVIOUS
<1>2. Len(s) \in Nat /\ Len(t) \in Nat
  OBVIOUS
<1>3. ASSUME NEW x \in Names(s \o t) PROVE x \in Names(s) \cup Names(t)
  <2>1. PICK i \in 1 .. Len(s \o t) : x = (s \o t)[i]
    BY <1>3 DEF Names
  <2>2. CASE i <= Len(s)
    BY <1>1, <1>2, <2>1, <2>2 DEF Names
  <2>3. CASE i > Len(s)
    <3>1. i - Len(s) \in 1 .. Len(t) /\ i = Len(s) + (i - Len(s))
      BY <1>1, <1>2, <2>3
    <3> QED
      BY <1>1, <2>1, <3>1 DEF Names
  <2> QED
    BY <1>2, <2>2, <2>3
<1>4. ASSUME NEW x \in Names(s) PROVE x \in Names(s \o t)
  BY <1>1, <1>2 DEF Names
<1>5. ASSUME NEW x \in Names(t) PROVE x \in Names(s \o t)
  <2>1. PICK i \in 1 .. Len(t) : x = t[i]
    BY <1>5 DEF Names
  <2>2. Len(s) + i \in 1 .. Len(s \o t) /\ (s \o t)[Len(s) + i] = x
    BY <1>1, <1>2, <2>1
  <2> QED
    BY <2>2 DEF Names
<1> QED
  BY <1>1, <1>3, <1>4, <1>5

LEMMA ConcatUnique ==
    ASSUME NEW s \in Seq(STRING), NEW t \in Seq(STRING),
           Unique(s), Unique(t), Names(s) \cap Names(t) = {}
    PROVE  Unique(s \o t)
<1> SUFFICES ASSUME NEW i \in 1 .. Len(s \o t), NEW j \in 1 .. Len(s \o t),
                    (s \o t)[i] = (s \o t)[j], i <= j
             PROVE  i = j
  BY ConcatNames DEF Unique
<1>1. Len(s) \in Nat /\ Len(t) \in Nat /\ Len(s \o t) = Len(s) + Len(t)
  OBVIOUS
<1>2. CASE j <= Len(s)
  BY <1>1, <1>2, ConcatNames DEF Unique
<1>3. CASE i > Len(s)
  <2>1. /\ i - Len(s) \in 1 .. Len(t) /\ i = Len(s) + (i - Len(s))
        /\ j - Len(s) \in 1 .. Len(t) /\ j = Len(s) + (j - Len(s))
    BY <1>1, <1>3
  <2>2. t[i - Len(s)] = t[j - Len(s)]
    BY <2>1, ConcatNames
  <2>3. i - Len(s) = j - Len(s)
    BY <2>1, <2>2 DEF Unique
  <2> QED
    BY <1>1, <2>3
<1>4. CASE i <= Len(s) /\ j > Len(s)
  <2>1. j - Len(s) \in 1 .. Len(t) /\ j = Len(s) + (j - Len(s))
    BY <1>1, <1>4
  <2>2. s[i] = t[j - Len(s)]
    BY <1>1, <1>4, <2>1, ConcatNames
  <2>3. s[i] \in Names(s) /\ t[j - Len(s)] \in Names(t)
    BY <1>1, <1>4, <2>1 DEF Names
  <2> QED
    BY <2>2, <2>3
<1> QED
  BY <1>1, <1>2, <1>3, <1>4

LEMMA TuplesAreSequences ==
    ASSUME NEW S, NEW a \in S, NEW b \in S
    PROVE  <<a>> \in Seq(S) /\ <<a, b>> \in Seq(S)
OBVIOUS

LEMMA NoName == <<>> \in Seq(STRING) /\ Names(<<>>) = {} /\ Unique(<<>>)
BY DEF Names, Unique

LEMMA OneName ==
    ASSUME NEW a \in STRING
    PROVE  <<a>> \in Seq(STRING) /\ Names(<<a>>) = {a} /\ Unique(<<a>>)
<1>1. Len(<<a>>) = 1 /\ <<a>>[1] = a
  OBVIOUS
<1>2. <<a>> \in Seq(STRING)
  BY TuplesAreSequences
<1>3. 1 .. 1 = {1}
  OBVIOUS
<1> QED
  BY <1>1, <1>2, <1>3 DEF Names, Unique

LEMMA TwoNames ==
    ASSUME NEW a \in STRING, NEW b \in STRING, a # b
    PROVE  <<a, b>> \in Seq(STRING) /\ Names(<<a, b>>) = {a, b} /\ Unique(<<a, b>>)
<1>1. Len(<<a, b>>) = 2 /\ <<a, b>>[1] = a /\ <<a, b>>[2] = b
  OBVIOUS
<1>2. <<a, b>> \in Seq(STRING)
  BY TuplesAreSequences
<1>3. 1 .. 2 = {1, 2}
  OBVIOUS
<1> QED
  BY <1>1, <1>2, <1>3 DEF Names, Unique

(* The sequences of keys envFor is made of. *)
LEMMA KeySequences ==
    /\ <<stsKey>> \in Seq(STRING) /\ Names(<<stsKey>>) = {stsKey} /\ Unique(<<stsKey>>)
    /\ LET t == <<"AWS_DEFAULT_REGION", "AWS_REGION">> IN
        t \in Seq(STRING) /\ Names(t) = awsRegionKeys /\ Unique(t)
    /\ LET t == <<"AWS_CONTAINER_CREDENTIALS_FULL_URI",
                  "AWS_CONTAINER_AUTHORIZATION_TOKEN_FILE">> IN
        t \in Seq(STRING) /\ Names(t) = containerCredentialsKeys /\ Unique(t)
    /\ LET t == <<"AWS_ROLE_ARN", "AWS_WEB_IDENTITY_TOKEN_FILE">> IN
        t \in Seq(STRING) /\ Names(t) = webIdentityKeys /\ Unique(t)
<1>1. /\ stsKey \in STRING
      /\ "AWS_DEFAULT_REGION" \in STRING /\ "AWS_REGION" \in STRING
      /\ "AWS_CONTAINER_CREDENTIALS_FULL_URI" \in STRING
      /\ "AWS_CONTAINER_AUTHORIZATION_TOKEN_FILE" \in STRING
      /\ "AWS_ROLE_ARN" \in STRING /\ "AWS_WEB_IDENTITY_TOKEN_FILE" \in STRING
  BY PatchAssumption
     DEF allKeys, awsRegionKeys, containerCredentialsKeys, webIdentityKeys
<1>2. <<stsKey>> \in Seq(STRING) /\ Names(<<stsKey>>) = {stsKey} /\ Unique(<<stsKey>>)
  <2>1. \A a \in STRING : <<a>> \in Seq(STRING) /\ Names(<<a>>) = {a} /\ Unique(<<a>>)
    BY OneName
  <2> QED
    BY <1>1, <2>1, Zenon
<1>3. LET t == <<"AWS_DEFAULT_REGION", "AWS_REGION">> IN
      t \in Seq(STRING) /\ Names(t) = awsRegionKeys /\ Unique(t)
  <2>1. awsRegionKeys = {"AWS_DEFAULT_REGION", "AWS_REGION"}
    BY DEF awsRegionKeys
  <2> QED
    BY <1>1, <2>1, TwoNames, Zenon
<1>4. LET t == <<"AWS_CONTAINER_CREDENTIALS_FULL_URI",
                 "AWS_CONTAINER_AUTHORIZATION_TOKEN_FILE">> IN
      t \in Seq(STRING) /\ Names(t) = containerCredentialsKeys /\ Unique(t)
  BY <1>1, TwoNames, Zenon DEF containerCredentialsKeys
<1>5. LET t == <<"AWS_ROLE_ARN", "AWS_WEB_IDENTITY_TOKEN_FILE">> IN
      t \in Seq(STRING) /\ Names(t) = webIdentityKeys /\ Unique(t)
  BY <1>1, TwoNames, Zenon DEF webIdentityKeys
<1> QED
  BY <1>2, <1>3, <1>4, <1>5

(* What addEnvToContainer appends: no name twice, none that is there         *)
(* already, and a key of the method only as a whole pair.                    *)
LEMMA EnvFor ==
    ASSUME NEW env \in Seq(STRING), NEW cfg \in PatchConfig
    PROVE  /\ envFor(env, cfg) \in Seq(STRING)
           /\ Unique(envFor(env, cfg))
           /\ Names(envFor(env, cfg)) \cap Names(env) = {}
           /\ Names(envFor(env, cfg)) \subseteq {stsKey} \cup awsRegionKeys \cup KeysOf(cfg)
           /\ Names(env) \cap KeysOf(cfg) = {} => KeysOf(cfg) \subseteq Names(envFor(env, cfg))
           /\ Names(env) \cap {stsKey} = {} /\ cfg.sts => stsKey \in Names(envFor(env, cfg))
           /\ Names(env) \cap awsRegionKeys = {} /\ Region
                => awsRegionKeys \subseteq Names(envFor(env, cfg))
<1> DEFINE A == IF ~(Names(env) \cap {stsKey} # {}) /\ cfg.sts THEN <<stsKey>> ELSE <<>>
           B == IF ~(Names(env) \cap awsRegionKeys # {}) /\ Region
                THEN <<"AWS_DEFAULT_REGION", "AWS_REGION">> ELSE <<>>
           D == IF Names(env) \cap KeysOf(cfg) # {} THEN <<>>
                ELSE IF cfg.method = "container_credentials"
                THEN <<"AWS_CONTAINER_CREDENTIALS_FULL_URI",
                       "AWS_CONTAINER_AUTHORIZATION_TOKEN_FILE">>
                ELSE <<"AWS_ROLE_ARN", "AWS_WEB_IDENTITY_TOKEN_FILE">>
<1>1. envFor(env, cfg) = A \o B \o D
  BY DEF envFor
<1>2. /\ A \in Seq(STRING) /\ Unique(A)
      /\ Names(A) = IF Names(env) \cap {stsKey} = {} /\ cfg.sts THEN {stsKey} ELSE {}
  BY NoName, KeySequences, Zenon
<1>3. /\ B \in Seq(STRING) /\ Unique(B)
      /\ Names(B) = IF Names(env) \cap awsRegionKeys = {} /\ Region THEN awsRegionKeys ELSE {}
  BY NoName, KeySequences, Zenon
<1>4. /\ D \in Seq(STRING) /\ Unique(D)
      /\ Names(D) = IF Names(env) \cap KeysOf(cfg) = {} THEN KeysOf(cfg) ELSE {}
  <2>1. CASE Names(env) \cap KeysOf(cfg) # {}
    BY <2>1, NoName
  <2>2. CASE Names(env) \cap KeysOf(cfg) = {} /\ cfg.method = "container_credentials"
    BY <2>2, KeySequences, Zenon DEF KeysOf
  <2>3. CASE Names(env) \cap KeysOf(cfg) = {} /\ cfg.method # "container_credentials"
    BY <2>3, KeySequences, Zenon DEF KeysOf
  <2> QED
    BY <2>1, <2>2, <2>3
<1>5. /\ {stsKey} \cap awsRegionKeys = {}
      /\ ({stsKey} \cup awsRegionKeys) \cap KeysOf(cfg) = {}
  BY DEF stsKey, awsRegionKeys, KeysOf, containerCredentialsKeys, webIdentityKeys
<1> HIDE DEF A, B, D
<1>6. A \o B \in Seq(STRING) /\ Unique(A \o B) /\ Names(A \o B) = Names(A) \cup Names(B)
  BY <1>2, <1>3, <1>5, ConcatNames, ConcatUnique
<1>7. /\ A \o B \o D \in Seq(STRING) /\ Unique(A \o B \o D)
      /\ Names(A \o B \o D) = Names(A) \cup Names(B) \cup Names(D)
  <2>1. Names(A \o B) \cap Names(D) = {}
    BY <1>2, <1>3, <1>4, <1>5, <1>6
  <2>2. \A s \in Seq(STRING) : Unique(s) /\ Names(s) \cap Names(D) = {} =>
            /\ s \o D \in Seq(STRING) /\ Unique(s \o D)
            /\ Names(s \o D) = Names(s) \cup Names(D)
    BY <1>4, ConcatNames, ConcatUnique
  <2> QED
    BY <1>6, <2>1, <2>2, Zenon
<1>8. /\ Names(A) \cap Names(env) = {} /\ Names(A) \subseteq {stsKey}
      /\ Names(env) \cap {stsKey} = {} /\ cfg.sts => stsKey \in Names(A)
  BY <1>2
<1>9. /\ Names(B) \cap Names(env) = {} /\ Names(B) \subseteq awsRegionKeys
      /\ Names(env) \cap awsRegionKeys = {} /\ Region => awsRegionKeys \subseteq Names(B)
  BY <1>3
<1>10. /\ Names(D) \cap Names(env) = {} /\ Names(D) \subseteq KeysOf(cfg)
       /\ Names(env) \cap KeysOf(cfg) = {} => KeysOf(cfg) \subseteq Names(D)
  BY <1>4
<1> QED
  BY <1>1, <1>7, <1>8, <1>9, <1>10

(* A list of mounts as mountVolume leaves it; a second call changes nothing. *)
LEMMA MountVolume ==
    ASSUME NEW ms \in Seq(STRING), NEW v \in STRING
    PROVE  LET ns == mountVolume(ms, v) IN
           /\ ns \in Seq(STRING)
           /\ StartsWith(ns, ms)
           /\ Unique(ms) => Unique(ns)
           /\ Names(ns) = Names(ms) \cup {v}
           /\ mountVolume(ns, v) = ns
<1>1. CASE v \in Names(ms)
  <2>1. mountVolume(ms, v) = ms
    BY <1>1 DEF mountVolume
  <2>2. StartsWith(ms, ms)
    BY DEF StartsWith
  <2>3. Names(ms) = Names(ms) \cup {v}
    BY <1>1, Zenon
  <2> QED
    BY <2>1, <2>2, <2>3
<1>2. CASE v \notin Names(ms)
  <2> DEFINE ns == ms \o <<v>>
  <2>1. mountVolume(ms, v) = ns
    BY <1>2 DEF mountVolume
  <2>2. ASSUME NEW t \in Seq(STRING)
        PROVE  /\ ms \o t \in Seq(STRING) /\ Len(ms \o t) = Len(ms) + Len(t)
               /\ \A i \in 1 .. Len(ms) : (ms \o t)[i] = ms[i]
               /\ Names(ms \o t) = Names(ms) \cup Names(t)
               /\ (Unique(ms) /\ Unique(t) /\ Names(ms) \cap Names(t) = {}) => Unique(ms \o t)
    BY ConcatNames, ConcatUnique
  <2>3. <<v>> \in Seq(STRING) /\ Names(<<v>>) = {v} /\ Unique(<<v>>) /\ Len(<<v>>) = 1
    BY OneName
  <2>4. /\ ns \in Seq(STRING) /\ Len(ns) = Len(ms) + Len(<<v>>)
        /\ \A i \in 1 .. Len(ms) : ns[i] = ms[i]
        /\ Names(ns) = Names(ms) \cup Names(<<v>>)
        /\ (Unique(ms) /\ Names(ms) \cap Names(<<v>>) = {}) => Unique(ns)
    BY <2>2, <2>3, Zenon
  <2> HIDE DEF ns
  <2>5. StartsWith(ns, ms)
    <3>1. Len(ms) \in Nat /\ Len(ns) = Len(ms) + 1
      BY <2>3, <2>4
    <3> QED
      BY <2>4, <3>1 DEF StartsWith
  <2>6. Names(ns) = Names(ms) \cup {v} /\ (Unique(ms) => Unique(ns))
    BY <1>2, <2>3, <2>4
  <2>7. mountVolume(ns, v) = ns
    BY <2>6 DEF mountVolume
  <2> QED
    BY <2>1, <2>4, <2>5, <2>6, <2>7
<1> QED
  BY <1>1, <1>2

LEMMA MethodsShareNoKey ==
    ASSUME NEW a \in PatchConfig, NEW b \in PatchConfig, KeysOf(a) \cap KeysOf(b) # {}
    PROVE  a.method = b.method /\ KeysOf(a) = KeysOf(b)
BY DEF PatchConfig, KeysOf, containerCredentialsKeys, webIdentityKeys

(* A container as addEnvToContainer leaves it. *)
LEMMA AddEnv ==
    ASSUME NEW c \in Container, NEW cfg \in PatchConfig
    PROVE  LET d == addEnvToContainer(c, cfg) IN
           /\ d \in Container
           /\ d.name = c.name
           /\ d.env = IF nothingToAdd(c.env, cfg) THEN c.env ELSE c.env \o envFor(c.env, cfg)
           /\ d.mounts = IF nothingToAdd(c.env, cfg) THEN c.mounts ELSE mountVolume(c.mounts, cfg.volume)
<1>1. c.env \o envFor(c.env, cfg) \in Seq(STRING)
  BY EnvFor, ConcatNames DEF Container, PatchConfig
<1>2. mountVolume(c.mounts, cfg.volume) \in Seq(STRING)
  BY MountVolume DEF Container, PatchConfig
<1> QED
  BY <1>1, <1>2 DEF addEnvToContainer, Container

LEMMA AddEnvNames ==
    ASSUME NEW c \in Container, NEW cfg \in PatchConfig, ~nothingToAdd(c.env, cfg)
    PROVE  Names(addEnvToContainer(c, cfg).env) = Names(c.env) \cup Names(envFor(c.env, cfg))
<1>1. c.env \in Seq(STRING) /\ envFor(c.env, cfg) \in Seq(STRING)
  BY EnvFor DEF Container
<1>2. addEnvToContainer(c, cfg).env = c.env \o envFor(c.env, cfg)
  BY AddEnv
<1> QED
  BY <1>1, <1>2, ConcatNames

(* Adding once more adds nothing: the second envFor is empty. *)
LEMMA AddEnvTwice ==
    ASSUME NEW c \in Container, NEW cfg \in PatchConfig
    PROVE  addEnvToContainer(addEnvToContainer(c, cfg), cfg) = addEnvToContainer(c, cfg)
<1> DEFINE d == addEnvToContainer(c, cfg)
<1>1. CASE nothingToAdd(c.env, cfg)
  BY <1>1 DEF addEnvToContainer
<1>2. CASE ~nothingToAdd(c.env, cfg)
  <2>0. c.env \in Seq(STRING) /\ cfg.sts \in BOOLEAN
    BY DEF Container, PatchConfig
  <2>1. d \in Container /\ Names(d.env) = Names(c.env) \cup Names(envFor(c.env, cfg))
    BY <1>2, AddEnv, AddEnvNames
  <2>2. /\ cfg.sts => Names(d.env) \cap {stsKey} # {}
        /\ Region => Names(d.env) \cap awsRegionKeys # {}
        /\ Names(d.env) \cap KeysOf(cfg) # {}
    <3>1. KeysOf(cfg) # {} /\ awsRegionKeys # {}
      BY DEF KeysOf, awsRegionKeys, containerCredentialsKeys, webIdentityKeys
    <3> QED
      BY <2>0, <2>1, <3>1, EnvFor
  <2>3. envFor(d.env, cfg) = <<>>
    BY <2>2 DEF envFor
  <2>4. d.env \o <<>> = d.env /\ mountVolume(d.mounts, cfg.volume) = d.mounts
    <3>1. d.mounts = mountVolume(c.mounts, cfg.volume)
      BY <1>2, AddEnv
    <3>4. mountVolume(d.mounts, cfg.volume) = d.mounts
      BY <3>1, MountVolume DEF Container, PatchConfig
    <3>2. d.env \in Seq(STRING)
      BY <2>1 DEF Container
    <3>3. \A s \in Seq(STRING) : s \o <<>> = s
      OBVIOUS
    <3> HIDE DEF d
    <3> QED
      BY <3>2, <3>3, <3>4
  <2>5. [d EXCEPT !.env = @ \o envFor(@, cfg), !.mounts = mountVolume(@, cfg.volume)] = d
    BY <2>1, <2>3, <2>4 DEF Container
  <2> QED
    BY <2>5 DEF addEnvToContainer
<1> QED
  BY <1>1, <1>2

-----------------------------------------------------------------------------

(* c is what became of a container its owner wrote as o.  The last conjunct  *)
(* is what ContainersGetCredentials needs: keys of a method the owner did    *)
(* not set came as a pair and with the mount.                                *)
Kept(c, o) ==
    /\ c \in Container /\ o \in Container
    /\ Extends(c, o)
    /\ Unique(o.env) => Unique(c.env)
    /\ Unique(o.mounts) => Unique(c.mounts)
    /\ \A cfg \in PatchConfigs :
        /\ Names(o.env) \cap KeysOf(cfg) = {}
        /\ Names(c.env) \cap KeysOf(cfg) # {}
        => HasCredentials(c, cfg)

LEMMA KeptReflexive ==
    ASSUME NEW c \in Container
    PROVE  Kept(c, c)
BY DEF Kept, Extends, StartsWith, Container

LEMMA ConfigTypes == \A cfg \in PatchConfigs : cfg \in PatchConfig
BY PatchAssumption

LEMMA KeptByAddEnv ==
    ASSUME NEW c, NEW o, Kept(c, o), NEW cfg \in PatchConfigs
    PROVE  Kept(addEnvToContainer(c, cfg), o)
<1> DEFINE d == addEnvToContainer(c, cfg)
<1>0. /\ c \in Container /\ o \in Container /\ cfg \in PatchConfig
      /\ c.env \in Seq(STRING) /\ o.env \in Seq(STRING)
      /\ c.mounts \in Seq(STRING) /\ o.mounts \in Seq(STRING) /\ cfg.volume \in STRING
  BY ConfigTypes DEF Kept, Container, PatchConfig
<1>1. CASE nothingToAdd(c.env, cfg)
  BY <1>1 DEF addEnvToContainer
<1>2. CASE ~nothingToAdd(c.env, cfg)
  <2> DEFINE t == envFor(c.env, cfg)
  <2>1. /\ d \in Container /\ d.name = c.name
        /\ d.env = c.env \o t /\ d.mounts = mountVolume(c.mounts, cfg.volume)
    BY <1>0, <1>2, AddEnv
  <2>a. /\ d.mounts \in Seq(STRING) /\ StartsWith(d.mounts, c.mounts)
        /\ Unique(c.mounts) => Unique(d.mounts)
        /\ Names(d.mounts) = Names(c.mounts) \cup {cfg.volume}
    BY <1>0, <2>1, MountVolume
  <2>2. /\ t \in Seq(STRING) /\ Unique(t) /\ Names(t) \cap Names(c.env) = {}
        /\ Names(t) \subseteq {stsKey} \cup awsRegionKeys \cup KeysOf(cfg)
        /\ Names(c.env) \cap KeysOf(cfg) = {} => KeysOf(cfg) \subseteq Names(t)
    BY <1>0, EnvFor
  <2> HIDE DEF d, t
  <2>3. /\ Len(d.env) = Len(c.env) + Len(t)
        /\ \A i \in 1 .. Len(c.env) : d.env[i] = c.env[i]
        /\ Names(d.env) = Names(c.env) \cup Names(t)
    BY <1>0, <2>1, <2>2, ConcatNames
  <2>4. Extends(d, o)
    <3>1. c.name = o.name /\ StartsWith(c.env, o.env) /\ StartsWith(c.mounts, o.mounts)
      BY DEF Kept, Extends
    <3>2. Len(c.env) \in Nat /\ Len(o.env) \in Nat /\ Len(t) \in Nat
      BY <1>0, <2>2
    <3>3. StartsWith(d.env, o.env)
      BY <2>3, <3>1, <3>2 DEF StartsWith
    <3>4. Len(c.mounts) \in Nat /\ Len(o.mounts) \in Nat /\ Len(d.mounts) \in Nat
      BY <1>0, <2>a
    <3>5. StartsWith(d.mounts, o.mounts)
      BY <2>a, <3>1, <3>4 DEF StartsWith
    <3> QED
      BY <2>1, <3>1, <3>3, <3>5 DEF Extends
  <2>5. Unique(o.env) => Unique(d.env)
    BY <1>0, <2>1, <2>2, ConcatUnique DEF Kept
  <2>b. Unique(o.mounts) => Unique(d.mounts)
    BY <2>a DEF Kept
  <2>6. ASSUME NEW any \in PatchConfigs,
               Names(o.env) \cap KeysOf(any) = {}, Names(d.env) \cap KeysOf(any) # {}
        PROVE  HasCredentials(d, any)
    <3>1. CASE Names(c.env) \cap KeysOf(any) # {}
      <4>1. HasCredentials(c, any)
        BY <2>6, <3>1 DEF Kept
      <4> QED
        BY <2>3, <2>a, <4>1 DEF HasCredentials
    <3>2. CASE Names(c.env) \cap KeysOf(any) = {}
      <4>1. any \in PatchConfig /\ Names(t) \cap KeysOf(any) # {}
        BY <2>3, <2>6, <3>2, ConfigTypes
      <4>2. ({stsKey} \cup awsRegionKeys) \cap KeysOf(any) = {}
        BY DEF stsKey, awsRegionKeys, KeysOf, containerCredentialsKeys, webIdentityKeys
      <4>3. KeysOf(cfg) \cap KeysOf(any) # {}
        BY <2>2, <4>1, <4>2
      <4>4. any.volume = cfg.volume /\ KeysOf(any) = KeysOf(cfg)
        BY <1>0, <4>1, <4>3, MethodsShareNoKey, PatchAssumption
      <4> QED
        BY <2>2, <2>3, <2>a, <3>2, <4>4 DEF HasCredentials
    <3> QED
      BY <3>1, <3>2
  <2> QED
    BY <1>0, <2>1, <2>4, <2>5, <2>b, <2>6 DEF Kept, d
<1> QED
  BY <1>1, <1>2

(* After addEnvToContainer the container has a key of the method's pair. *)
LEMMA AddEnvDefines ==
    ASSUME NEW c \in Container, NEW cfg \in PatchConfig
    PROVE  Names(addEnvToContainer(c, cfg).env) \cap KeysOf(cfg) # {}
<1>1. CASE nothingToAdd(c.env, cfg)
  BY <1>1 DEF addEnvToContainer, nothingToAdd
<1>2. CASE ~nothingToAdd(c.env, cfg)
  <2>1. KeysOf(cfg) # {} /\ c.env \in Seq(STRING)
    BY DEF KeysOf, containerCredentialsKeys, webIdentityKeys, Container
  <2>2. Names(addEnvToContainer(c, cfg).env) = Names(c.env) \cup Names(envFor(c.env, cfg))
    BY <1>2, AddEnvNames
  <2>3. Names(c.env) \cap KeysOf(cfg) = {} => KeysOf(cfg) \subseteq Names(envFor(c.env, cfg))
    BY <2>1, EnvFor
  <2> QED
    BY <2>1, <2>2, <2>3
<1> QED
  BY <1>1, <1>2

(* The lists of containers, as patchContainers leaves them. *)
LEMMA PatchContainers ==
    ASSUME NEW cs \in Seq(Container), NEW skip, NEW cfg \in PatchConfig
    PROVE  LET ds == patchContainers(cs, skip, cfg) IN
           /\ ds \in Seq(Container)
           /\ Len(ds) = Len(cs)
           /\ \A i \in 1 .. Len(cs) :
                /\ ds[i].name = cs[i].name
                /\ ds[i] = IF cs[i].name \in skip THEN cs[i] ELSE addEnvToContainer(cs[i], cfg)
           /\ patchContainers(ds, skip, cfg) = ds
<1> DEFINE ds == patchContainers(cs, skip, cfg)
<1>1. Len(cs) \in Nat /\ \A i \in 1 .. Len(cs) : cs[i] \in Container
  OBVIOUS
<1>2. /\ DOMAIN ds = 1 .. Len(cs)
      /\ ds = [i \in 1 .. Len(cs) |-> ds[i]]
      /\ \A i \in 1 .. Len(cs) :
            ds[i] = IF cs[i].name \in skip THEN cs[i] ELSE addEnvToContainer(cs[i], cfg)
  BY DEF patchContainers
<1> HIDE DEF ds
<1>3. ASSUME NEW i \in 1 .. Len(cs) PROVE ds[i] \in Container /\ ds[i].name = cs[i].name
  <2>1. /\ addEnvToContainer(cs[i], cfg) \in Container
        /\ addEnvToContainer(cs[i], cfg).name = cs[i].name
    BY <1>1, AddEnv
  <2> QED
    BY <1>1, <1>2, <2>1
<1>4. ds \in Seq(Container) /\ Len(ds) = Len(cs)
  BY <1>1, <1>2, <1>3
<1>5. \A i \in 1 .. Len(cs) :
        ds[i] = IF ds[i].name \in skip THEN ds[i] ELSE addEnvToContainer(ds[i], cfg)
  BY <1>1, <1>2, <1>3, AddEnvTwice
<1>6. patchContainers(ds, skip, cfg) = ds
  <2>1. patchContainers(ds, skip, cfg) = [i \in 1 .. Len(cs) |-> ds[i]]
    BY <1>4, <1>5 DEF patchContainers
  <2> QED
    BY <1>2, <2>1
<1> QED
  BY <1>2, <1>3, <1>4, <1>6 DEF ds

(* The pod's containers, one by one, against the owner's. *)
AllKept(cs, os) ==
    /\ cs \in Seq(Container) /\ os \in Seq(Container)
    /\ Len(cs) = Len(os)
    /\ \A i \in 1 .. Len(os) : Kept(cs[i], os[i])

LEMMA AllKeptByPatch ==
    ASSUME NEW cs, NEW os, AllKept(cs, os), NEW skip, NEW cfg \in PatchConfigs
    PROVE  AllKept(patchContainers(cs, skip, cfg), os)
<1>1. cs \in Seq(Container) /\ cfg \in PatchConfig
  BY ConfigTypes DEF AllKept
<1> DEFINE ds == patchContainers(cs, skip, cfg)
<1>2. /\ ds \in Seq(Container) /\ Len(ds) = Len(cs)
      /\ \A i \in 1 .. Len(cs) :
            ds[i] = IF cs[i].name \in skip THEN cs[i] ELSE addEnvToContainer(cs[i], cfg)
  BY <1>1, PatchContainers
<1> HIDE DEF ds
<1>3. \A i \in 1 .. Len(os) : Kept(ds[i], os[i])
  BY <1>2, KeptByAddEnv DEF AllKept
<1> QED
  BY <1>2, <1>3 DEF AllKept, ds

(* The patch the webhook answers, field by field, once applied. *)
LEMMA Applied ==
    ASSUME NEW p \in Pod, NEW cfg \in PatchConfig
    PROVE  LET q == applyPatch(p, getPodSpecPatch(p, cfg))
               skip == getContainersToSkip(p.skip)
           IN
           /\ q = [containers |-> patchContainers(p.containers, skip, cfg),
                   inits |-> patchContainers(p.inits, skip, cfg),
                   volumes |-> IF p.volumes = Nil THEN <<cfg.volume>>
                               ELSE IF cfg.volume \in Names(p.volumes) THEN p.volumes
                               ELSE <<cfg.volume>> \o p.volumes,
                   labels |-> IF cfg.method # "container_credentials" THEN p.labels
                              ELSE IF p.labels = Nil THEN {"pod-identity"}
                              ELSE p.labels \cup {"pod-identity"},
                   skip |-> p.skip]
<1> DEFINE skip == getContainersToSkip(p.skip)
           patch == getPodSpecPatch(p, cfg)
           labels == CASE patch.labels = "create" -> {"pod-identity"}
                       [] patch.labels = "add" -> p.labels \cup {"pod-identity"}
                       [] OTHER -> p.labels
           volumes == CASE patch.volumes = "create" -> <<patch.volume>>
                        [] patch.volumes = "add" -> <<patch.volume>> \o p.volumes
                        [] OTHER -> p.volumes
           inits == IF patch.inits = Nil THEN p.inits ELSE patch.inits
<1>1. /\ patch.labels = labelsOp(p, cfg)
      /\ patch.volumes = volumesOp(p, cfg) /\ patch.volume = cfg.volume
      /\ patch.containers = patchContainers(p.containers, skip, cfg)
      /\ patch.inits = IF p.inits = <<>> THEN Nil ELSE patchContainers(p.inits, skip, cfg)
  BY DEF getPodSpecPatch
<1>2. /\ Nil # "create" /\ Nil # "add" /\ "create" # "add"
      /\ Nil \notin Seq(Container)
  BY PatchAssumption
<1>3. applyPatch(p, patch) =
        [containers |-> patch.containers, inits |-> inits, volumes |-> volumes,
         labels |-> labels, skip |-> p.skip]
  <2> DEFINE q == applyPatch(p, patch)
             Fields == {"containers", "inits", "volumes", "labels", "skip"}
  <2> HIDE DEF patch
  <2>1. DOMAIN p = Fields
    BY DEF Pod
  <2>2. q = [x \in Fields |-> q[x]]
    BY <2>1 DEF applyPatch
  <2>3. /\ q.containers = patch.containers /\ q.inits = inits
        /\ q.volumes = volumes /\ q.labels = labels /\ q.skip = p.skip
    BY <2>1 DEF applyPatch
  <2> HIDE DEF q, labels, volumes, inits
  <2>4. q = [containers |-> patch.containers, inits |-> inits, volumes |-> volumes,
             labels |-> labels, skip |-> p.skip]
    BY <2>2, <2>3
  <2> QED
    BY <2>4 DEF q
<1> HIDE DEF patch
<1>4. labels = IF cfg.method # "container_credentials" THEN p.labels
               ELSE IF p.labels = Nil THEN {"pod-identity"}
               ELSE p.labels \cup {"pod-identity"}
  BY <1>1, <1>2 DEF labelsOp
<1>5. volumes = IF p.volumes = Nil THEN <<cfg.volume>>
                ELSE IF cfg.volume \in Names(p.volumes) THEN p.volumes
                ELSE <<cfg.volume>> \o p.volumes
  BY <1>1, <1>2 DEF volumesOp
<1>6. inits = patchContainers(p.inits, skip, cfg)
  <2>1. p.inits \in Seq(Container)
    BY DEF Pod
  <2>2. patchContainers(p.inits, skip, cfg) \in Seq(Container)
    BY <2>1, PatchContainers
  <2>3. p.inits = <<>> => patchContainers(p.inits, skip, cfg) = <<>>
    <3>0. Len(patchContainers(p.inits, skip, cfg)) = Len(p.inits)
      BY <2>1, PatchContainers
    <3>1. p.inits = <<>> => Len(patchContainers(p.inits, skip, cfg)) = 0
      BY <3>0
    <3>2. \A s \in Seq(Container) : Len(s) = 0 => s = <<>>
      OBVIOUS
    <3> QED
      BY <2>2, <3>1, <3>2
  <2> QED
    BY <1>1, <1>2, <2>2, <2>3
<1> HIDE DEF skip, labels, volumes, inits
<1> QED
  BY <1>1, <1>3, <1>4, <1>5, <1>6 DEF patch, skip

-----------------------------------------------------------------------------

(* The inductive invariant: what the owner wrote is kept, and, while nothing *)
(* came after the last invocation, the pod is as that invocation leaves it.  *)
PodKept ==
    /\ pod \in Pod /\ own \in Pod
    /\ AllKept(pod.containers, own.containers)
    /\ AllKept(pod.inits, own.inits)
    /\ SkippedAlone(pod.containers, own.containers, getContainersToSkip(pod.skip))
    /\ SkippedAlone(pod.inits, own.inits, getContainersToSkip(pod.skip))
    /\ pod.volumes # Nil => Unique(pod.volumes)
    /\ own.volumes # Nil => pod.volumes # Nil /\ Names(own.volumes) \subseteq Names(pod.volumes)
    /\ own.labels # Nil => pod.labels # Nil /\ own.labels \subseteq pod.labels

AsInvoked ==
    config # Nil =>
        LET skip == getContainersToSkip(pod.skip) IN
        /\ config \in PatchConfigs
        /\ patchContainers(pod.containers, skip, config) = pod.containers
        /\ patchContainers(pod.inits, skip, config) = pod.inits
        /\ pod.volumes # Nil /\ config.volume \in Names(pod.volumes)
        /\ config.method = "container_credentials"
            => pod.labels # Nil /\ "pod-identity" \in pod.labels
        /\ \A i \in 1 .. Len(pod.containers) :
            pod.containers[i].name \notin skip
                => Names(pod.containers[i].env) \cap KeysOf(config) # {}

PatchInv == PodKept /\ AsInvoked

LEMMA PatchInvInit == PatchInit => PatchInv
<1> SUFFICES ASSUME PatchInit PROVE PatchInv
  OBVIOUS
<1>1. pod \in Pod /\ own = pod /\ config = Nil /\ (pod.volumes # Nil => Unique(pod.volumes))
  BY PatchAssumption DEF PatchInit
<1>2. pod.containers \in Seq(Container) /\ pod.inits \in Seq(Container)
  BY <1>1 DEF Pod
<1>3. AllKept(pod.containers, pod.containers) /\ AllKept(pod.inits, pod.inits)
  BY <1>2, KeptReflexive DEF AllKept
<1> QED
  BY <1>1, <1>3 DEF PatchInv, PodKept, AsInvoked, SkippedAlone

(* volumes and labels of the patched pod *)
LEMMA VolumesStep ==
    ASSUME NEW vs, vs = Nil \/ vs \in Seq(STRING), vs # Nil => Unique(vs), NEW v \in STRING
    PROVE  LET ws == IF vs = Nil THEN <<v>> ELSE IF v \in Names(vs) THEN vs ELSE <<v>> \o vs IN
           /\ ws \in Seq(STRING) /\ Unique(ws) /\ v \in Names(ws)
           /\ vs # Nil => Names(vs) \subseteq Names(ws)
<1>0. <<v>> \in Seq(STRING) /\ Names(<<v>>) = {v} /\ Unique(<<v>>)
  BY OneName
<1>1. CASE vs = Nil
  BY <1>0, <1>1
<1>2. CASE vs # Nil /\ v \in Names(vs)
  BY <1>2
<1>3. CASE vs # Nil /\ v \notin Names(vs)
  <2>1. ASSUME NEW s \in Seq(STRING), Unique(s), Names(s) \cap Names(vs) = {}
        PROVE  /\ s \o vs \in Seq(STRING) /\ Unique(s \o vs)
               /\ Names(s \o vs) = Names(s) \cup Names(vs)
    BY <1>3, <2>1, ConcatNames, ConcatUnique
  <2>2. Names(<<v>>) \cap Names(vs) = {}
    BY <1>0, <1>3
  <2>3. /\ <<v>> \o vs \in Seq(STRING) /\ Unique(<<v>> \o vs)
        /\ Names(<<v>> \o vs) = Names(<<v>>) \cup Names(vs)
    BY <1>0, <2>1, <2>2, Zenon
  <2> QED
    BY <1>0, <1>3, <2>3
<1> QED
  BY <1>1, <1>2, <1>3

LEMMA MutateStep ==
    ASSUME PatchInv, NEW cfg \in PatchConfigs, MutatePod(cfg)
    PROVE  PatchInv'
<1> DEFINE skip == getContainersToSkip(pod.skip)
           cs == patchContainers(pod.containers, skip, cfg)
           is == patchContainers(pod.inits, skip, cfg)
           vs == IF pod.volumes = Nil THEN <<cfg.volume>>
                 ELSE IF cfg.volume \in Names(pod.volumes) THEN pod.volumes
                 ELSE <<cfg.volume>> \o pod.volumes
           ls == IF cfg.method # "container_credentials" THEN pod.labels
                 ELSE IF pod.labels = Nil THEN {"pod-identity"}
                 ELSE pod.labels \cup {"pod-identity"}
<1>0. /\ cfg \in PatchConfig /\ cfg.volume \in STRING /\ cfg # Nil
      /\ pod \in Pod /\ own \in Pod
  BY PatchAssumption, ConfigTypes DEF PatchInv, PodKept, PatchConfig
<1>1. /\ pod.containers \in Seq(Container) /\ pod.inits \in Seq(Container)
      /\ pod.volumes = Nil \/ pod.volumes \in Seq(STRING)
      /\ pod.labels = Nil \/ pod.labels \in SUBSET Labels
      /\ pod.skip \in {Nil, Unparsable} \cup SUBSET STRING
  BY <1>0 DEF Pod
<1>2. /\ pod' = [containers |-> cs, inits |-> is, volumes |-> vs, labels |-> ls, skip |-> pod.skip]
      /\ own' = own /\ config' = cfg
  BY <1>0, Applied DEF MutatePod
<1>3. AllKept(cs, own.containers) /\ AllKept(is, own.inits)
  BY AllKeptByPatch DEF PatchInv, PodKept
<1>4. /\ cs \in Seq(Container) /\ Len(cs) = Len(pod.containers)
      /\ \A i \in 1 .. Len(pod.containers) :
            /\ cs[i].name = pod.containers[i].name
            /\ cs[i] = IF pod.containers[i].name \in skip THEN pod.containers[i]
                       ELSE addEnvToContainer(pod.containers[i], cfg)
      /\ patchContainers(cs, skip, cfg) = cs
  BY <1>0, <1>1, PatchContainers
<1>5. /\ is \in Seq(Container) /\ Len(is) = Len(pod.inits)
      /\ \A i \in 1 .. Len(pod.inits) :
            /\ is[i].name = pod.inits[i].name
            /\ pod.inits[i].name \in skip => is[i] = pod.inits[i]
      /\ patchContainers(is, skip, cfg) = is
  BY <1>0, <1>1, PatchContainers
<1>6. /\ vs \in Seq(STRING) /\ Unique(vs) /\ cfg.volume \in Names(vs)
      /\ pod.volumes # Nil => Names(pod.volumes) \subseteq Names(vs)
  BY <1>0, <1>1, VolumesStep DEF PatchInv, PodKept
<1>7. /\ ls = Nil \/ ls \in SUBSET Labels
      /\ pod.labels # Nil => ls # Nil /\ pod.labels \subseteq ls
      /\ cfg.method = "container_credentials" => ls # Nil /\ "pod-identity" \in ls
  <2>1. "pod-identity" \in Labels
    BY DEF Labels
  <2> QED
    BY <1>1, <2>1, PatchAssumption
<1>8. vs # Nil
  BY <1>6, PatchAssumption
<1> HIDE DEF cs, is, vs, ls
<1>9. /\ pod' \in Pod
      /\ pod'.containers = cs /\ pod'.inits = is /\ pod'.volumes = vs /\ pod'.labels = ls
      /\ pod'.skip = pod.skip
  BY <1>1, <1>2, <1>4, <1>5, <1>6, <1>7 DEF Pod
<1>10. SkippedAlone(cs, own.containers, skip) /\ SkippedAlone(is, own.inits, skip)
  BY <1>4, <1>5 DEF PatchInv, PodKept, SkippedAlone
<1>11. \A i \in 1 .. Len(cs) : cs[i].name \notin skip => Names(cs[i].env) \cap KeysOf(cfg) # {}
  <2> SUFFICES ASSUME NEW i \in 1 .. Len(cs), cs[i].name \notin skip
               PROVE  Names(cs[i].env) \cap KeysOf(cfg) # {}
    OBVIOUS
  <2>1. pod.containers[i] \in Container /\ cs[i] = addEnvToContainer(pod.containers[i], cfg)
    BY <1>1, <1>4
  <2> QED
    BY <1>0, <2>1, AddEnvDefines
<1>12. own.volumes # Nil => Names(own.volumes) \subseteq Names(vs)
  BY <1>6 DEF PatchInv, PodKept
<1>13. own.labels # Nil => ls # Nil /\ own.labels \subseteq ls
  BY <1>7 DEF PatchInv, PodKept
<1>14. PodKept'
  BY <1>0, <1>2, <1>3, <1>6, <1>8, <1>9, <1>10, <1>12, <1>13 DEF PodKept
<1>15. AsInvoked'
  BY <1>2, <1>4, <1>5, <1>6, <1>7, <1>8, <1>9, <1>11 DEF AsInvoked
<1> QED
  BY <1>14, <1>15 DEF PatchInv

LEMMA InjectStep ==
    ASSUME PatchInv, NEW c \in Injected, Inject(c)
    PROVE  PatchInv'
<1> DEFINE cs == Append(pod.containers, c)
           os == Append(own.containers, c)
<1>1. /\ c \in Container /\ pod \in Pod /\ own \in Pod
      /\ pod.containers \in Seq(Container) /\ own.containers \in Seq(Container)
  BY PatchAssumption DEF PatchInv, PodKept, Pod
<1>2. /\ pod' = [pod EXCEPT !.containers = cs]
      /\ own' = [own EXCEPT !.containers = os]
      /\ config' = Nil
  BY DEF Inject
<1>3. /\ cs \in Seq(Container) /\ os \in Seq(Container)
      /\ Len(cs) = Len(pod.containers) + 1 /\ Len(os) = Len(own.containers) + 1
      /\ \A i \in 1 .. Len(pod.containers) : cs[i] = pod.containers[i]
      /\ \A i \in 1 .. Len(own.containers) : os[i] = own.containers[i]
      /\ cs[Len(pod.containers) + 1] = c /\ os[Len(own.containers) + 1] = c
  BY <1>1
<1>4. /\ Len(pod.containers) = Len(own.containers) /\ Len(pod.containers) \in Nat
      /\ \A i \in 1 .. Len(own.containers) : Kept(pod.containers[i], own.containers[i])
  BY <1>1 DEF PatchInv, PodKept, AllKept
<1> HIDE DEF cs, os
<1>5. AllKept(cs, os)
  <2>1. ASSUME NEW i \in 1 .. Len(os) PROVE Kept(cs[i], os[i])
    <3>1. CASE i \in 1 .. Len(own.containers)
      BY <1>3, <1>4, <3>1
    <3>2. CASE i = Len(own.containers) + 1
      BY <1>1, <1>3, <1>4, <3>2, KeptReflexive
    <3> QED
      BY <1>3, <1>4, <3>1, <3>2
  <2> QED
    BY <1>3, <1>4, <2>1 DEF AllKept
<1>6. SkippedAlone(cs, os, getContainersToSkip(pod.skip))
  <2>1. ASSUME NEW i \in 1 .. Len(cs), cs[i].name \in getContainersToSkip(pod.skip)
        PROVE  cs[i] = os[i]
    <3>1. CASE i \in 1 .. Len(pod.containers)
      BY <1>3, <1>4, <2>1, <3>1 DEF PatchInv, PodKept, SkippedAlone
    <3>2. CASE i = Len(pod.containers) + 1
      BY <1>3, <1>4, <3>2
    <3> QED
      BY <1>3, <1>4, <3>1, <3>2
  <2> QED
    BY <2>1 DEF SkippedAlone
<1>7. /\ pod' \in Pod /\ pod'.containers = cs
      /\ pod'.inits = pod.inits /\ pod'.volumes = pod.volumes
      /\ pod'.labels = pod.labels /\ pod'.skip = pod.skip
  BY <1>1, <1>2, <1>3 DEF Pod
<1>8. /\ own' \in Pod /\ own'.containers = os
      /\ own'.inits = own.inits /\ own'.volumes = own.volumes /\ own'.labels = own.labels
  BY <1>1, <1>2, <1>3 DEF Pod
<1> QED
  BY <1>2, <1>5, <1>6, <1>7, <1>8 DEF PatchInv, PodKept, AsInvoked

LEMMA PatchInvariant == PatchSpec => []PatchInv
<1>1. PatchInv /\ [PatchNext]_podVars => PatchInv'
  <2> SUFFICES ASSUME PatchInv, [PatchNext]_podVars PROVE PatchInv'
    OBVIOUS
  <2>1. CASE UNCHANGED podVars
    BY <2>1 DEF podVars, PatchInv, PodKept, AsInvoked
  <2> QED
    BY <2>1, MutateStep, InjectStep DEF PatchNext
<1> QED
  BY <1>1, PatchInvInit, PTL DEF PatchSpec

(* However often and with whatever configs the webhook is invoked, the pod   *)
(* keeps what its owner and other plugins wrote (handler.go:311-429).        *)
THEOREM OwnSettingsAreKept == PatchSpec => []OwnSettingsKept
<1>1. ASSUME NEW cs, NEW os, AllKept(cs, os) PROVE ExtendsAll(cs, os)
  BY <1>1 DEF AllKept, ExtendsAll, Kept
<1>2. PatchInv => OwnSettingsKept
  BY <1>1 DEF PatchInv, PodKept, OwnSettingsKept
<1> QED
  BY <1>2, PatchInvariant, PTL

(* No invocation adds a variable, a mount or a volume that is there already  *)
(* (handler.go:192-284, 386-413), for any pods and configs.                  *)
THEOREM NothingIsDuplicated == PatchSpec => []NoDuplicates
<1>1. ASSUME NEW cs, NEW os, AllKept(cs, os) PROVE NothingTwice(cs, os)
  BY <1>1 DEF AllKept, NothingTwice, Kept
<1>2. PatchInv => NoDuplicates
  BY <1>1 DEF PatchInv, PodKept, NoDuplicates
<1> QED
  BY <1>2, PatchInvariant, PTL

(* A second invocation with the same config leaves the pod as it is          *)
(* (handler.go:172-429), for any pods and configs.                           *)
THEOREM PatchIsIdempotent == PatchSpec => []Idempotent
<1>1. PatchInv => Idempotent
  <2> SUFFICES ASSUME PatchInv, config # Nil
               PROVE  applyPatch(pod, getPodSpecPatch(pod, config)) = pod
    BY DEF Idempotent
  <2>1. /\ pod \in Pod /\ config \in PatchConfigs /\ config \in PatchConfig
        /\ config.method = "container_credentials"
            => pod.labels # Nil /\ "pod-identity" \in pod.labels
    BY ConfigTypes DEF PatchInv, PodKept, AsInvoked
  <2>2. applyPatch(pod, getPodSpecPatch(pod, config)) =
          [containers |-> pod.containers, inits |-> pod.inits, volumes |-> pod.volumes,
           labels |-> IF config.method # "container_credentials" THEN pod.labels
                      ELSE pod.labels \cup {"pod-identity"},
           skip |-> pod.skip]
    BY <2>1, Applied DEF PatchInv, AsInvoked
  <2>3. config.method = "container_credentials" => pod.labels \cup {"pod-identity"} = pod.labels
    BY <2>1
  <2>4. pod = [containers |-> pod.containers, inits |-> pod.inits, volumes |-> pod.volumes,
               labels |-> pod.labels, skip |-> pod.skip]
    BY <2>1 DEF Pod
  <2> QED
    BY <2>2, <2>3, <2>4
<1> QED
  BY <1>1, PatchInvariant, PTL

(* After an invocation every container that is not skipped and sets none of  *)
(* the method's variables has both and the mount, whatever invocations and   *)
(* injections came before (handler.go:172-284).                              *)
THEOREM CredentialsAreInjected == PatchSpec => []ContainersGetCredentials
<1>1. PatchInv => ContainersGetCredentials
  BY DEF PatchInv, PodKept, AsInvoked, AllKept, Kept, ContainersGetCredentials
<1> QED
  BY <1>1, PatchInvariant, PTL

-----------------------------------------------------------------------------

LEMMA MountsByPatch ==
    ASSUME NEW cs \in Seq(Container), NEW os, NEW skip, NEW cfg \in PatchConfig,
           NEW vs, NEW ws, MountsNamed(cs, os, vs), vs \subseteq ws, cfg.volume \in ws
    PROVE  MountsNamed(patchContainers(cs, skip, cfg), os, ws)
<1> DEFINE ds == patchContainers(cs, skip, cfg)
<1>1. /\ Len(ds) = Len(cs)
      /\ \A i \in 1 .. Len(cs) :
            ds[i] = IF cs[i].name \in skip THEN cs[i] ELSE addEnvToContainer(cs[i], cfg)
  BY PatchContainers
<1> HIDE DEF ds
<1>2. ASSUME NEW i \in 1 .. Len(cs)
      PROVE  Names(ds[i].mounts) \subseteq Names(cs[i].mounts) \cup {cfg.volume}
  <2>1. Names(addEnvToContainer(cs[i], cfg).mounts) \subseteq Names(cs[i].mounts) \cup {cfg.volume}
    <3>1. cs[i] \in Container
      OBVIOUS
    <3>2. cs[i].mounts \in Seq(STRING) /\ cfg.volume \in STRING
      BY <3>1 DEF Container, PatchConfig
    <3>3. Names(mountVolume(cs[i].mounts, cfg.volume)) = Names(cs[i].mounts) \cup {cfg.volume}
      BY <3>2, MountVolume
    <3>4. addEnvToContainer(cs[i], cfg).mounts \in {cs[i].mounts, mountVolume(cs[i].mounts, cfg.volume)}
      BY <3>1, AddEnv
    <3> QED
      BY <3>3, <3>4
  <2> QED
    BY <1>1, <2>1
<1> QED
  BY <1>1, <1>2 DEF MountsNamed, ds

(* No mount the webhook adds lacks its volume, in any sequence of            *)
(* invocations and injections (handler.go:266-284, 386-413).                 *)
THEOREM MountsAlwaysHaveVolumes == PatchSpec => []MountsHaveVolumes
<1>1. PatchInit => MountsHaveVolumes
  BY DEF PatchInit, MountsHaveVolumes, MountsNamed
<1>2. ASSUME PatchInv, MountsHaveVolumes, NEW cfg \in PatchConfigs, MutatePod(cfg)
      PROVE  MountsHaveVolumes'
  <2> DEFINE skip == getContainersToSkip(pod.skip)
             cs == patchContainers(pod.containers, skip, cfg)
             is == patchContainers(pod.inits, skip, cfg)
             vs == IF pod.volumes = Nil THEN <<cfg.volume>>
                   ELSE IF cfg.volume \in Names(pod.volumes) THEN pod.volumes
                   ELSE <<cfg.volume>> \o pod.volumes
  <2>0. cfg \in PatchConfig /\ cfg.volume \in STRING /\ pod \in Pod
    BY <1>2, ConfigTypes DEF PatchInv, PodKept, PatchConfig
  <2>1. /\ pod.containers \in Seq(Container) /\ pod.inits \in Seq(Container)
        /\ pod.volumes = Nil \/ pod.volumes \in Seq(STRING)
    BY <2>0 DEF Pod
  <2>2. /\ pod' = [containers |-> cs, inits |-> is, volumes |-> vs,
                   labels |-> pod'.labels, skip |-> pod.skip]
        /\ own' = own
    BY <1>2, <2>0, Applied DEF MutatePod
  <2>3. /\ vs \in Seq(STRING) /\ cfg.volume \in Names(vs)
        /\ pod.volumes # Nil => Names(pod.volumes) \subseteq Names(vs)
    BY <1>2, <2>0, <2>1, VolumesStep DEF PatchInv, PodKept
  <2>4. VolumeNames(pod) \subseteq Names(vs) /\ vs # Nil
    BY <2>3, PatchAssumption DEF VolumeNames
  <2>5. MountsNamed(cs, own.containers, Names(vs)) /\ MountsNamed(is, own.inits, Names(vs))
    BY <1>2, <2>0, <2>1, <2>3, <2>4, MountsByPatch DEF MountsHaveVolumes
  <2> HIDE DEF cs, is, vs
  <2>6. pod'.containers = cs /\ pod'.inits = is /\ VolumeNames(pod)' = Names(vs)
    BY <2>2, <2>4 DEF VolumeNames
  <2> QED
    BY <2>2, <2>5, <2>6 DEF MountsHaveVolumes, MountsNamed
<1>3. ASSUME PatchInv, MountsHaveVolumes, NEW c \in Injected, Inject(c)
      PROVE  MountsHaveVolumes'
  <2>1. /\ pod \in Pod /\ own \in Pod /\ c \in Container
        /\ pod.containers \in Seq(Container) /\ own.containers \in Seq(Container)
        /\ Len(pod.containers) = Len(own.containers)
    BY <1>3, PatchAssumption DEF PatchInv, PodKept, AllKept, Pod
  <2>2. /\ pod'.containers = Append(pod.containers, c)
        /\ own'.containers = Append(own.containers, c)
        /\ pod'.inits = pod.inits /\ own'.inits = own.inits /\ pod'.volumes = pod.volumes
    BY <1>3, <2>1 DEF Inject, Pod
  <2>3. MountsNamed(Append(pod.containers, c), Append(own.containers, c), VolumeNames(pod))
    <3> DEFINE cs == Append(pod.containers, c)
               os == Append(own.containers, c)
    <3>1. /\ Len(cs) = Len(pod.containers) + 1 /\ Len(pod.containers) \in Nat
          /\ \A i \in 1 .. Len(pod.containers) :
                cs[i] = pod.containers[i] /\ os[i] = own.containers[i]
          /\ cs[Len(cs)] = os[Len(cs)]
      BY <2>1
    <3>2. \A i \in 1 .. Len(pod.containers) :
            Names(pod.containers[i].mounts) \ Names(own.containers[i].mounts) \subseteq VolumeNames(pod)
      BY <1>3 DEF MountsHaveVolumes, MountsNamed
    <3> HIDE DEF cs, os
    <3>3. \A i \in 1 .. Len(cs) : i \in 1 .. Len(pod.containers) \/ cs[i] = os[i]
      BY <3>1
    <3>4. \A i \in 1 .. Len(cs) : Names(cs[i].mounts) \ Names(os[i].mounts) \subseteq VolumeNames(pod)
      BY <3>1, <3>2, <3>3, Zenon
    <3> QED
      BY <3>4, Zenon DEF MountsNamed, cs, os
  <2> QED
    BY <1>3, <2>2, <2>3 DEF MountsHaveVolumes, MountsNamed, VolumeNames
<1>4. PatchInv /\ MountsHaveVolumes /\ [PatchNext]_podVars => MountsHaveVolumes'
  <2>1. UNCHANGED podVars /\ MountsHaveVolumes => MountsHaveVolumes'
    BY DEF podVars, MountsHaveVolumes, MountsNamed, VolumeNames
  <2> QED
    BY <1>2, <1>3, <2>1 DEF PatchNext
<1> QED
  BY <1>1, <1>4, PatchInvariant, PTL DEF PatchSpec
=============================================================================
