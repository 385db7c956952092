----------------------------- MODULE Deployments -----------------------------
(****************************************************************************)
(* The control plane's record of deployments (internal/deploy) and the      *)
(* specification it works out from that record (internal/server/spec.go).   *)
(*                                                                          *)
(* Each operation here is one transaction.  What is done outside it, asking *)
(* a server to build and handing it its specification, is Yol's.            *)
(****************************************************************************)
EXTENDS Naturals, FiniteSets, Desired

CONSTANTS
    Service,
    ServiceOf,  \* the service each deployment would be of
    Address,    \* the hostname that stands for the server's own address
    HostOf,     \* the service each other hostname is added to
    Takeover    \* whether the server's routing mode has a router run on it

ASSUME ServicesKnown == ServiceOf \in [App -> Service]
ASSUME HostsKnown == Address \in Host /\ HostOf \in [Host \ {Address} -> Service]
ASSUME VersionsFinite == IsFiniteSet(App)
ASSUME TakeoverKnown == Takeover \in BOOLEAN

VARIABLES
    status,     \* deployments.status, "none" before there is a row
    image,      \* whether deployments.image_ref is set
    created,    \* the order of deployments.created_at, 0 before there is a row
    named       \* the hostnames ListDomainsForServer lists: those that are verified

deployVars == <<status, image, created, named>>

Named == Host \ {Address}

Status == {"none", "building", "deploying", "live", "superseded", "failed"}

DeployTypeOK ==
    /\ status \in [App -> Status]
    /\ image \in [App -> BOOLEAN]
    /\ created \in [App -> Nat]
    /\ named \subseteq Named

DeployInit ==
    /\ status = [d \in App |-> "none"]
    /\ image = [d \in App |-> FALSE]
    /\ created = [d \in App |-> 0]
    /\ named = {}

Siblings(d) == {e \in App : ServiceOf[e] = ServiceOf[d]}

\* created_at of a row written now.
Now == Cardinality({d \in App : status[d] # "none"}) + 1

\* Deploy, its transaction: the row is queued and then building before anything
\* else can read it, and its placement names the container.
RecordDeploy(d) ==
    /\ status[d] = "none"
    /\ status' = [status EXCEPT ![d] = "building"]
    /\ created' = [created EXCEPT ![d] = Now]
    /\ UNCHANGED <<image, named>>

\* failDeployment: the server could not be asked to build.
RecordNotAsked(d) ==
    /\ status' = [status EXCEPT ![d] = "failed"]
    /\ UNCHANGED <<image, created, named>>

\* A variant, for the runs to refute: a status the schema has not got.
RecordBuildUnknown(d, succeeded) ==
    /\ status' = [status EXCEPT ![d] = IF succeeded THEN "built" ELSE "failed"]
    /\ image' = [image EXCEPT ![d] = @ \/ succeeded]
    /\ UNCHANGED <<created, named>>

\* FinishBuild, its transaction.
RecordBuild(d, succeeded) ==
    /\ status' = [status EXCEPT ![d] = IF succeeded THEN "deploying" ELSE "failed"]
    /\ image' = [image EXCEPT ![d] = @ \/ succeeded]
    /\ UNCHANGED <<created, named>>

\* Variants: nothing steps aside; what is live steps aside for any outcome.
RecordRolloutBeside(d, healthy) ==
    /\ status' = [status EXCEPT ![d] = IF healthy THEN "live" ELSE "failed"]
    /\ UNCHANGED <<image, created, named>>

RecordRolloutEarly(d, healthy) ==
    /\ status' = [e \in App |->
                     IF e = d THEN IF healthy THEN "live" ELSE "failed"
                     ELSE IF e \in Siblings(d) /\ status[e] = "live" THEN "superseded"
                     ELSE status[e]]
    /\ UNCHANGED <<image, created, named>>

\* FinishRollout, its transaction: whichever version was live steps aside for the
\* one that answered.
RecordRollout(d, healthy) ==
    /\ status' = IF healthy
                 THEN [e \in App |->
                          IF e = d THEN "live"
                          ELSE IF e \in Siblings(d) /\ status[e] = "live" THEN "superseded"
                          ELSE status[e]]
                 ELSE [status EXCEPT ![d] = "failed"]
    /\ UNCHANGED <<image, created, named>>

\* Rollback, its transaction: a version built before and not serving now goes out
\* again as a deployment of its own.
RecordRollback(previous, d) ==
    /\ status[previous] # "none" /\ image[previous]
    /\ status[previous] # "live"
    /\ status[d] = "none" /\ d \in Siblings(previous)
    /\ status' = [status EXCEPT ![d] = "deploying"]
    /\ image' = [image EXCEPT ![d] = TRUE]
    /\ created' = [created EXCEPT ![d] = Now]
    /\ UNCHANGED named

\* VerifyDomain, its second transaction: a hostname that was added is served from now
\* on.  It may have been before.
RecordVerified(h) ==
    /\ named' = named \cup {h}
    /\ UNCHANGED <<status, image, created>>

\* RemoveDomain, its transaction.
RecordRemoved(h) ==
    /\ named' = named \ {h}
    /\ UNCHANGED <<status, image, created>>

(****************************************************************************)
(* SpecFor.                                                                 *)
(****************************************************************************)

\* Variants: a placement counts before it has an image; only what is newest counts.
PlacedUnbuilt(s) == {d \in App : /\ ServiceOf[d] = s
                                 /\ status[d] \in {"building", "live", "deploying"}}

PlacedNewest(s) ==
    LET out == {d \in App : /\ ServiceOf[d] = s /\ image[d]
                            /\ status[d] \in {"live", "deploying"}}
    IN  {d \in out : \A e \in out : created[e] <= created[d]}

\* ListLivePlacementsForServer, those with something to run.
Placed(s) == {d \in App : /\ ServiceOf[d] = s
                          /\ status[d] \in {"live", "deploying"}
                          /\ image[d]}

\* A variant: traffic goes to what is newest.
ServingNewest(s) ==
    IF Placed(s) = {} THEN None
    ELSE CHOOSE d \in Placed(s) : \A e \in Placed(s) : created[e] <= created[d]

\* Where a service's traffic goes: to the live version, or to the first of those
\* going out when none is.
Serving(s) ==
    IF Placed(s) = {} THEN None
    ELSE IF \E d \in Placed(s) : status[d] = "live"
         THEN CHOOSE d \in Placed(s) : status[d] = "live"
         ELSE CHOOSE d \in Placed(s) : \A e \in Placed(s) : created[d] <= created[e]

\* fallbackRoute: the address leads to an app only when one alone is served.
Fallback ==
    LET served == {s \in Service : Serving(s) # None}
    IN  IF Cardinality(served) = 1 THEN Serving(CHOOSE s \in served : TRUE) ELSE None

\* A watched server is asked for nothing at all.
NothingAsked == [want |-> {}, route |-> [h \in Host |-> None]]

SpecFor ==
    IF ServerMode = "watch" THEN NothingAsked ELSE
    [want  |-> (UNION {Placed(s) : s \in Service})
                 \cup (IF Takeover THEN {Router} ELSE {}),
     route |-> [h \in Host |-> IF ~Takeover THEN None
                               ELSE IF h = Address THEN Fallback
                               ELSE IF h \in named THEN Serving(HostOf[h])
                               ELSE None]]

(****************************************************************************)
(* The record against agents whose reports may come in any order, late or   *)
(* more than once.                                                          *)
(****************************************************************************)
DeployNext ==
    \/ \E d \in App :
          \/ RecordDeploy(d)
          \/ status[d] = "building" /\ RecordNotAsked(d)
          \/ \E succeeded \in BOOLEAN : status[d] = "building" /\ RecordBuild(d, succeeded)
          \/ \E healthy \in BOOLEAN : image[d] /\ RecordRollout(d, healthy)
          \/ \E previous \in App : RecordRollback(previous, d)
    \/ \E h \in Named : RecordVerified(h) \/ RecordRemoved(h)

DeploySpec == DeployInit /\ [][DeployNext]_deployVars

\* One version of a service is live at a time, whatever order reports arrive in
\* (CHANGELOG "Only one deployment is live for a service at a time", queries
\* SupersedePreviousDeployments).
OneLive ==
    \A d, e \in App : status[d] = "live" /\ status[e] = "live"
                          /\ ServiceOf[d] = ServiceOf[e] => d = e

\* Whoever asks for a hostname that is served reaches the version that is live, whatever
\* else is going out, has failed or was recorded late (SpecFor, "nothing is sent to it
\* until it is the one serving").
NamedTrafficIsLive ==
    Takeover /\ ServerMode = "managed" =>
        \A h \in named, d \in App :
            status[d] = "live" /\ ServiceOf[d] = HostOf[h] => SpecFor.route[h] = d

\* A specification sends traffic only to what it asks for, and to nothing that waits
\* to be built.
RoutesAreServed ==
    \A h \in Host : SpecFor.route[h] # None =>
        /\ SpecFor.route[h] \in SpecFor.want
        /\ image[SpecFor.route[h]]
        /\ h # Address => h \in named /\ ServiceOf[SpecFor.route[h]] = HostOf[h]
==============================================================================
