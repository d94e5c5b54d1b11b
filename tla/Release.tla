------------------------------ MODULE Release ------------------------------
(***************************************************************************)
(* Publishing one version to npm, Maven Central and the container registry, *)
(* and the GitHub Release that comes last (release/, .github/workflows).    *)
(* A run of the workflow is a preflight, three publishing jobs in parallel  *)
(* and the release job.  Any job may stop at any step; the same tag is then *)
(* run again.  Runs of one tag do not overlap (the concurrency group).      *)
(***************************************************************************)
EXTENDS Integers, Sequences

CONSTANTS
  Packages,    \* the npm packages, in the order they are published
  Artifacts,   \* the Maven artifacts
  Aliases,     \* the moving container tags
  Builds,      \* the bytes a build of the tagged commit can give
  Keys,        \* the signing keys the release environment may hold
  Images,      \* Images[n]: the digest of the image run n would push
  MaxRuns      \* bound: runs of the workflow

ASSUME RunBound == MaxRuns \in Nat /\ Images \in [1 .. MaxRuns -> STRING]
ASSUME PackageList == Packages \in Seq(STRING)
\* Digests and bytes are no words of the model, and there is something to release.
ASSUME Words ==
  /\ \A n \in 1 .. MaxRuns : Images[n] \notin {"absent", "foreign", "unknown", "older", "newer", "none"}
  /\ "absent" \notin Builds /\ Artifacts # {}

VARIABLES
  head,       \* the head of master: the tagged commit, or a newer release's
  key,        \* the signing key in the release environment
  npm,        \* what the registry serves for each package
  central,    \* the deployments waiting, the one published, and what is served of it
  exact,      \* what the exact version tag resolves to
  alias,      \* what each moving tag resolves to
  run,        \* the workflow run
  released    \* the GitHub Release

releaseVars == <<head, key, npm, central, exact, alias, run, released>>

Publishers == {"npm", "maven", "container"}

\* A run before its preflight: the jobs, the package npm is at, what each job
\* built, and the evidence the publishing jobs wrote.
Idle(n) ==
  [n |-> n, preflight |-> "waiting", npm |-> "waiting", maven |-> "waiting",
   container |-> "waiting", github |-> "waiting", at |-> 1, candidate |-> "none",
   npmBuilt |-> "none", mavenBuilt |-> "none", digest |-> "none", uploaded |-> FALSE]

Deployment(n, bytes, by) == [n |-> n, bytes |-> bytes, key |-> by]

ReleaseInit ==
  /\ head = "tag" /\ key \in Keys
  /\ npm = [p \in DOMAIN Packages |-> "absent"]
  /\ central = [waiting |-> {}, failed |-> {}, published |-> {}, served |-> {}]
  /\ exact \in {"absent", "foreign"}
  /\ alias = [a \in Aliases |-> "older"]
  /\ run = [Idle(0) EXCEPT !.preflight = "failed"]
  /\ released = [made |-> FALSE, npm |-> "none", maven |-> "none", key |-> "none", digest |-> "none"]

Ended == {"ok", "failed", "skipped", "refused"}

Active == run.preflight # "failed" /\ run.github \notin Ended

-----------------------------------------------------------------------------
(* Around the workflow *)

\* The tag is pushed, or the workflow is dispatched again for it.
StartRun ==
  /\ ~Active /\ run.n < MaxRuns
  /\ run' = Idle(run.n + 1)
  /\ UNCHANGED <<head, key, npm, central, exact, alias, released>>

\* The next release is merged.  RELEASING.md: not while this one is running.
MasterAdvances ==
  /\ head = "tag" /\ ~Active /\ run.n > 0
  /\ head' = "newer"
  /\ UNCHANGED <<key, npm, central, exact, alias, run, released>>

\* The newer release's own workflow points the moving tags at its image.
NewerRelease ==
  /\ head = "newer" /\ ~Active
  /\ alias' = [a \in Aliases |-> "newer"]
  /\ UNCHANGED <<head, key, npm, central, exact, run, released>>

RotateKey ==
  /\ ~Active /\ run.n = 1 /\ key' \in Keys \ {key}
  /\ UNCHANGED <<head, npm, central, exact, alias, run, released>>

\* A job stops: its runner is lost, a registry does not answer, a credential
\* is missing, a deadline passes.
JobStops(j) ==
  /\ run[j] \notin Ended \cup {"waiting"}
  /\ run' = [run EXCEPT ![j] = "failed"]
  /\ UNCHANGED <<head, key, npm, central, exact, alias, released>>

-----------------------------------------------------------------------------
(* Preflight *)

\* decideReleaseRef: the tagged commit is the head of master, not an ancestor.
DecideReleaseRef(commit) == commit = "tag"

\* The tag is checked, the rehearsal runs and its candidate is kept.
Preflight ==
  /\ run.preflight = "waiting"
  /\ \/ /\ DecideReleaseRef(head)
        /\ \E b \in Builds :
             run' = [run EXCEPT !.preflight = "ok", !.npm = "building", !.maven = "building",
                                !.container = "looking", !.candidate = b]
     \/ run' = [run EXCEPT !.preflight = "failed"]
  /\ UNCHANGED <<head, key, npm, central, exact, alias, released>>

-----------------------------------------------------------------------------
(* npm *)

\* decideNpmAuth: a bootstrap token, or an identity and an npm that can use it.
DecideNpmAuth(env) == env.token \/ (env.oidc /\ env.recentNpm)

\* The packages are packed and the job finds its credential, or stops.
NpmBuild ==
  /\ run.npm = "building"
  /\ \E b \in Builds, env \in [token : BOOLEAN, oidc : BOOLEAN, recentNpm : BOOLEAN] :
       run' = [run EXCEPT !.npm = IF DecideNpmAuth(env) THEN "publishing" ELSE "failed", !.npmBuilt = b]
  /\ UNCHANGED <<head, key, npm, central, exact, alias, released>>

\* What the registry does with npm publish: the version is there afterwards or
\* not, and npm reports success, or a failure in either case.
Published(bytes) == {[served |-> bytes, ok |-> TRUE], [served |-> bytes, ok |-> FALSE],
                     [served |-> "absent", ok |-> FALSE]}

\* One package: already published and the same, already published and another,
\* or absent and now published.
NpmPublish ==
  /\ run.npm = "publishing" /\ run.at <= Len(Packages)
  /\ LET p == run.at
         next == [run EXCEPT !.at = @ + 1]
         stop == [run EXCEPT !.npm = "failed"] IN
     IF npm[p] # "absent"
       THEN run' = (IF npm[p] = run.npmBuilt THEN next ELSE stop) /\ npm' = npm
       ELSE \E r \in Published(run.npmBuilt) :
              npm' = [npm EXCEPT ![p] = r.served] /\ run' = IF r.ok THEN next ELSE stop
  /\ UNCHANGED <<head, key, central, exact, alias, released>>

\* compareNpmIntegrity: every package is served and is the one that was built.
CompareNpmIntegrity(bytes) == \A p \in DOMAIN Packages : npm[p] = bytes

NpmCompare ==
  /\ run.npm = "publishing" /\ run.at > Len(Packages)
  /\ run' = [run EXCEPT !.npm = IF CompareNpmIntegrity(run.npmBuilt) THEN "ok" ELSE "failed"]
  /\ UNCHANGED <<head, key, npm, central, exact, alias, released>>

-----------------------------------------------------------------------------
(* Maven Central *)

\* The bundle is staged and signed with the key the environment holds.
MavenBundle ==
  /\ run.maven = "building"
  /\ \E b \in Builds : run' = [run EXCEPT !.maven = "looking", !.mavenBuilt = b]
  /\ UNCHANGED <<head, key, npm, central, exact, alias, released>>

\* servedByCentral: what can be downloaded now.
ServedByCentral == central.served

\* Everything is on Central (a resume), a part of it, or nothing: then upload.
MavenUpload ==
  /\ run.maven = "looking"
  /\ \/ ServedByCentral = Artifacts /\ run' = [run EXCEPT !.maven = "comparing"] /\ central' = central
     \/ ServedByCentral \notin {{}, Artifacts} /\ run' = [run EXCEPT !.maven = "failed"] /\ central' = central
     \/ /\ ServedByCentral = {}
        /\ run' = [run EXCEPT !.maven = "polling", !.uploaded = TRUE]
        /\ central' = [central EXCEPT !.waiting = @ \cup {Deployment(run.n, run.mavenBuilt, key)}]
  /\ UNCHANGED <<head, key, npm, exact, alias, released>>

\* acceptCentralState: the portal reports the deployment as PUBLISHED.
AcceptCentralState(n) == \E d \in central.published : d.n = n

\* The deployment of this run is PUBLISHED or FAILED; an unpublished one is polled.
MavenPoll ==
  /\ run.maven = "polling"
  /\ \/ AcceptCentralState(run.n) /\ run' = [run EXCEPT !.maven = "comparing"]
     \/ run.n \in central.failed /\ run' = [run EXCEPT !.maven = "failed"]
  /\ UNCHANGED <<head, key, npm, central, exact, alias, released>>

\* Every artifact is served, with the bytes that were built.
CompareCentralArtifacts(bytes) ==
  ServedByCentral = Artifacts /\ \A d \in central.published : d.bytes = bytes

\* A signature that verifies was made by some key; it has to be the release key.
SignaturesMatchKey(signers, by) == signers \subseteq {by}

\* Every signature served was made by the release key.
VerifyCentralSignatures(by) == SignaturesMatchKey({d.key : d \in central.published}, by)

\* What is missing is awaited; what differs, or is signed by another key, fails.
MavenCompare ==
  /\ run.maven = "comparing" /\ ServedByCentral = Artifacts
  /\ run' = [run EXCEPT !.maven =
       IF CompareCentralArtifacts(run.mavenBuilt) /\ VerifyCentralSignatures(key) THEN "ok" ELSE "failed"]
  /\ UNCHANGED <<head, key, npm, central, exact, alias, released>>

\* Central validates a deployment after it was accepted and publishes it, unless
\* the artifacts are published already; what it serves appears one by one.
CentralDecides ==
  /\ \E d \in central.waiting :
       \/ /\ central.published = {}
          /\ central' = [central EXCEPT !.waiting = @ \ {d}, !.published = {d}]
       \/ central' = [central EXCEPT !.waiting = @ \ {d}, !.failed = @ \cup {d.n}]
  /\ UNCHANGED <<head, key, npm, exact, alias, run, released>>

CentralServes ==
  /\ central.published # {}
  /\ \E a \in Artifacts \ central.served : central' = [central EXCEPT !.served = @ \cup {a}]
  /\ UNCHANGED <<head, key, npm, exact, alias, run, released>>

-----------------------------------------------------------------------------
(* The container *)

\* inspect: what the tag resolves to, or no usable answer.
Inspect(tag) == {tag, "unknown"}

Image(n) == Images[n]

\* A slip: an unanswered question is read as an absent tag.
DecideExactTagOptimist(seen) == CASE seen = "foreign" -> "refuse" [] seen \in {"absent", "unknown"} -> "push" [] OTHER -> "adopt"

\* decideExactTag, from what the inspection found and what the image claims to be.
DecideExactTag(seen) == CASE seen \in {"unknown", "foreign"} -> "refuse" [] seen = "absent" -> "push" [] OTHER -> "adopt"

ContainerLook ==
  /\ run.container = "looking"
  /\ \E seen \in Inspect(exact) :
       run' = CASE DecideExactTag(seen) = "refuse" -> [run EXCEPT !.container = "failed"]
                [] DecideExactTag(seen) = "push"   -> [run EXCEPT !.container = "pushing"]
                [] OTHER -> [run EXCEPT !.container = "aliasing", !.digest = seen]
  /\ UNCHANGED <<head, key, npm, central, exact, alias, released>>

\* The image is built and pushed under the exact tag; another build of the same
\* commit has another digest.
ContainerPush ==
  /\ run.container = "pushing"
  /\ exact' = Image(run.n)
  /\ run' \in {[run EXCEPT !.container = "aliasing", !.digest = Image(run.n)],
               [run EXCEPT !.container = "failed"]}
  /\ UNCHANGED <<head, key, npm, central, alias, released>>

AliasesToRepair == {a \in Aliases : alias[a] # run.digest}

ContainerAlias ==
  /\ run.container = "aliasing"
  /\ \E a \in AliasesToRepair : alias' = [alias EXCEPT ![a] = run.digest]
  /\ UNCHANGED <<head, key, npm, central, exact, run, released>>

\* Every tag resolves to the one digest.
ContainerCheck ==
  /\ run.container = "aliasing" /\ AliasesToRepair = {}
  /\ run' = [run EXCEPT !.container = IF exact = run.digest THEN "ok" ELSE "failed"]
  /\ UNCHANGED <<head, key, npm, central, exact, alias, released>>

-----------------------------------------------------------------------------
(* The GitHub Release *)

\* verify-published.mjs, before a release exists: npm against the candidate, and
\* that Central and every container tag are there.
VerifyPublished ==
  /\ CompareNpmIntegrity(run.candidate)
  /\ central.served = Artifacts
  /\ exact # "absent" /\ \A a \in Aliases : alias[a] = exact

\* publishedEvidence: what a publishing job wrote as it succeeded.  A resume that
\* found everything on Central submitted no bundle.
Evidence(j) ==
  IF run[j] # "ok" THEN [origin |-> "null"]
  ELSE CASE j = "npm" -> [origin |-> "published", registryIntegrity |-> run.npmBuilt]
         [] j = "maven" -> [origin |-> "published", artifacts |-> run.mavenBuilt, signingKey |-> key,
                            uploadBundle |-> IF run.uploaded THEN run.mavenBuilt ELSE "null"]
         [] j = "container" -> [origin |-> "published", digest |-> run.digest]

\* acceptPublishedEvidence: evidence of a publication, not of a rehearsal.
AcceptPublishedEvidence(evidence) == evidence.origin = "published"

\* A slip: the rehearsal's bundle is recorded as what Central serves.
ManifestOfRehearsal ==
  [packages |-> [p \in DOMAIN Packages |-> [integrity |-> run.candidate,
                                           registryIntegrity |-> Evidence("npm").registryIntegrity]],
   candidateBundle |-> run.candidate, published |-> run.candidate,
   signingKey |-> Evidence("maven").signingKey, uploadBundle |-> Evidence("maven").uploadBundle,
   digest |-> Evidence("container").digest]

\* The manifest, when all the evidence is there: what the rehearsal packed and
\* bundled, beside what the registries decided.
Manifest ==
  [packages |-> [p \in DOMAIN Packages |-> [integrity |-> run.candidate,
                                           registryIntegrity |-> Evidence("npm").registryIntegrity]],
   candidateBundle |-> run.candidate, published |-> Evidence("maven").artifacts,
   signingKey |-> Evidence("maven").signingKey, uploadBundle |-> Evidence("maven").uploadBundle,
   digest |-> Evidence("container").digest]

\* manifest.mjs --published: a candidate bundle must not be the only bundle.
ManifestAccepts ==
  /\ \A j \in Publishers : AcceptPublishedEvidence(Evidence(j))
  /\ \A p \in DOMAIN Packages : Manifest.packages[p].registryIntegrity = Manifest.packages[p].integrity
  /\ ~(Manifest.candidateBundle # "null" /\ Manifest.uploadBundle = "null")

\* The jobs the release job needs.
GithubNeeds == \A j \in Publishers : run[j] = "ok"

GithubRelease ==
  /\ run.preflight = "ok" /\ run.github = "waiting" /\ GithubNeeds
  /\ run' = [run EXCEPT !.github = IF VerifyPublished THEN "recording" ELSE "failed"]
  /\ UNCHANGED <<head, key, npm, central, exact, alias, released>>

\* Without all three the release job is skipped.
GithubSkipped ==
  /\ run.preflight = "ok" /\ run.github = "waiting" /\ ~GithubNeeds
  /\ \A j \in Publishers : run[j] \in {"ok", "failed"}
  /\ run' = [run EXCEPT !.github = "skipped"]
  /\ UNCHANGED <<head, key, npm, central, exact, alias, released>>

\* A release that exists is not created again.
GithubCreate ==
  /\ run.github = "recording"
  /\ \/ /\ ManifestAccepts
        /\ run' = [run EXCEPT !.github = "ok"]
        /\ released' = IF released.made THEN released
                       ELSE [made |-> TRUE, npm |-> run.candidate, maven |-> Manifest.published,
                             key |-> Manifest.signingKey, digest |-> Manifest.digest]
     \/ ~ManifestAccepts /\ run' = [run EXCEPT !.github = "refused"] /\ released' = released
  /\ UNCHANGED <<head, key, npm, central, exact, alias>>

ReleaseNext ==
  \/ StartRun \/ MasterAdvances \/ NewerRelease \/ RotateKey
  \/ \E j \in Publishers \cup {"github"} : JobStops(j)
  \/ Preflight \/ NpmBuild \/ NpmPublish \/ NpmCompare
  \/ MavenBundle \/ MavenUpload \/ MavenPoll \/ MavenCompare \/ CentralDecides \/ CentralServes
  \/ ContainerLook \/ ContainerPush \/ ContainerAlias \/ ContainerCheck
  \/ GithubRelease \/ GithubSkipped \/ GithubCreate

ReleaseSpec == ReleaseInit /\ [][ReleaseNext]_releaseVars

-----------------------------------------------------------------------------
(* Properties *)

\* Once the exact version tag exists it resolves to the same image for ever,
\* through outages, lost jobs and resumed runs (container.mjs inspects before it
\* decides to push).
ExactTagStays == exact # "absent" => exact' = exact

\* A moving tag that a newer release took is never pointed back by a run of this
\* one: a tag that master has moved past cannot be resumed (decideReleaseRef).
AliasesStay == \A a \in Aliases : alias[a] = "newer" => alias'[a] = "newer"

\* A package is on npm only when every package it may depend on, those before it
\* in the order, is there too: npm.mjs stops at the first that does not publish.
DependenciesFirst ==
  \A i, j \in DOMAIN Packages : i < j /\ npm[j] # "absent" => npm[i] # "absent"

\* The GitHub Release tells the truth: npm serves what its preflight packed,
\* Central serves what its job built, signed with its key, and the digest it
\* records is the exact tag's, which is an image of this release.
GithubReleaseIsTrue ==
  released.made =>
    /\ \A p \in DOMAIN Packages : npm[p] = released.npm
    /\ central.served = Artifacts
    /\ \A d \in central.published : d.bytes = released.maven /\ d.key = released.key
    /\ exact = released.digest /\ exact # "foreign"

\* No tag a release has published goes back to an older image.
TagsNeverGoBack == [][ExactTagStays /\ AliasesStay]_releaseVars

\* The release job refuses only what is not published: when all three publishing
\* jobs have verified their registries and verify-published agrees, a run that
\* resumes a partial release completes it.
ResumeCompletes == run.github = "refused" => ~VerifyPublished
=============================================================================
