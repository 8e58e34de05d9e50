------------------------------ MODULE Settings ------------------------------
(***************************************************************************)
(* The values the webhook works with and the pure conversions between      *)
(* them: ServiceAccount annotations and ConfigMap entries into cache       *)
(* entries, pod annotations and jitter into a token expiration.            *)
(*                                                                         *)
(* Strings are abstracted to what the code tells apart.  A role is either  *)
(* in Arns (it contains "arn:") or in BareNames; NoRole, the empty string, *)
(* is a bare name.                                                         *)
(***************************************************************************)
EXTENDS Integers, Sequences

CONSTANTS
    Nil,                    \* a nil pointer, a missing map entry or object
    Absent,                 \* an annotation that is not set
    Unparsable,             \* text its parser (ParseBool, ParseInt, JSON) rejects
    Arns, BareNames,        \* role strings with and without "arn:"
    NoRole,                 \* the empty string
    composeArn,             \* bare name -> the ARN Sprintf builds around it
    ComposeEnabled,         \* composeRoleArn.Enabled
    Audiences,
    defaultAudience,
    defaultRegionalSTS,
    defaultTokenExpiration  \* flag, already through ValidateMinTokenExpiration

DefaultTokenExpiration == 86400
DefaultMinTokenExpiration == 79200
MinTokenExpiration == 600

Roles == Arns \cup BareNames

ASSUME SettingsAssumption ==
    /\ NoRole \in BareNames
    /\ Arns \cap BareNames = {}
    /\ composeArn \in [BareNames -> Arns]
    /\ ComposeEnabled \in BOOLEAN
    /\ defaultAudience \in Audiences
    /\ defaultRegionalSTS \in BOOLEAN
    /\ defaultTokenExpiration \in Int
    /\ defaultTokenExpiration >= MinTokenExpiration
    /\ Absent \notin Roles /\ Absent \notin Audiences
    /\ Absent \notin BOOLEAN /\ Unparsable \notin BOOLEAN
    /\ Absent \notin Int /\ Unparsable \notin Int
    /\ Absent # Unparsable

(* What ParseInt and ParseBool make of an annotation's text. *)
ParsedInts == Int \cup {Absent, Unparsable}
ParsedBools == BOOLEAN \cup {Absent, Unparsable}

(* The annotations of a ServiceAccount that the cache reads. *)
Annotation == [role : Roles \cup {Absent}, audience : Audiences \cup {Absent},
               sts : ParsedBools, expiration : ParsedInts]

Entry == [RoleARN : Roles, Audience : Audiences,
          UseRegionalSTS : BOOLEAN, TokenExpiration : Int]

ASSUME NilAssumption == Nil \notin Annotation /\ Nil \notin Entry

-----------------------------------------------------------------------------

ValidateMinTokenExpiration(expiration) ==
    IF expiration < MinTokenExpiration THEN MinTokenExpiration ELSE expiration

(* Mutants: the default is forgotten; the clamp is forgotten. *)
AnnotationWithoutDefault(value, default) == value
ExpirationUnclamped(value, default) ==
    IF value \in {Absent, Unparsable} THEN default ELSE value

(* The annotation's value when it is there and parses, else the default. *)
AnnotationOr(value, default) ==
    IF value \in {Absent, Unparsable} THEN default ELSE value

(* A bare name is wrapped into an ARN when composing is enabled; the regular *)
(* expression that follows in the code only warns.                          *)
ComposedRole(role) ==
    IF role \in BareNames /\ ComposeEnabled THEN composeArn[role] ELSE role

ExpirationOr(value, default) ==
    IF value \in {Absent, Unparsable} THEN default
    ELSE ValidateMinTokenExpiration(value)

(* The entry addSA builds from a ServiceAccount's annotations. *)
EntryOfSA(a) ==
    [RoleARN |-> IF a.role = Absent THEN NoRole ELSE ComposedRole(a.role),
     Audience |-> AnnotationOr(a.audience, defaultAudience),
     UseRegionalSTS |-> AnnotationOr(a.sts, defaultRegionalSTS),
     TokenExpiration |-> ExpirationOr(a.expiration, defaultTokenExpiration)]

(* The entry populateCacheFromCM stores for an entry of the ConfigMap: only  *)
(* a zero expiration is replaced.                                            *)
EntryOfCM(e) ==
    IF e.TokenExpiration = 0
    THEN [e EXCEPT !.TokenExpiration = defaultTokenExpiration]
    ELSE e

(* parsePodAnnotations: the pod's own expiration overrides the account's. *)
PodTokenExpiration(podExpiration, accountExpiration) ==
    ExpirationOr(podExpiration, accountExpiration)

(* addJitterToDefaultToken, for the value draw that rand.Int63n returned. *)
JitteredExpiration(expiration, draw) ==
    IF expiration = DefaultTokenExpiration
    THEN draw + DefaultMinTokenExpiration
    ELSE expiration

(* What rand.Int63n may return for the argument the code passes. *)
Int63nRange == 0 .. DefaultTokenExpiration - DefaultMinTokenExpiration
=============================================================================
