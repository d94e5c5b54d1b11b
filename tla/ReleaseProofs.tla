---------------------------- MODULE ReleaseProofs ----------------------------
(***************************************************************************)
(* What a release keeps, for any packages, artifacts, tags, builds and keys *)
(* and any number of resumed runs.                                          *)
(***************************************************************************)
EXTENDS Release, TLAPS

JobStates == {"waiting", "building", "publishing", "looking", "polling", "comparing",
              "pushing", "aliasing", "recording"} \cup Ended

Digests == {Images[n] : n \in 1 .. MaxRuns}

RunType ==
  [n : 0 .. MaxRuns, preflight : JobStates, npm : JobStates, maven : JobStates,
   container : JobStates, github : JobStates, at : Nat \ {0},
   candidate : Builds \cup {"none"}, npmBuilt : Builds \cup {"none"},
   mavenBuilt : Builds \cup {"none"}, digest : {"none", "foreign"} \cup Digests,
   uploaded : BOOLEAN]

ReleaseTypeOK ==
  /\ head \in {"tag", "newer"} /\ key \in Keys
  /\ npm \in [DOMAIN Packages -> Builds \cup {"absent"}]
  /\ exact \in {"absent", "foreign"} \cup Digests
  /\ alias \in [Aliases -> {"older", "newer", "foreign"} \cup Digests]
  /\ run \in RunType

\* The jobs of a run follow its preflight, and its release job follows them.
JobsInOrder ==
  /\ run.preflight # "failed" => run.n > 0
  /\ run.preflight = "ok" => run.candidate \in Builds
  /\ run.preflight # "ok" => /\ run.npm = "waiting" /\ run.maven = "waiting"
                             /\ run.container = "waiting" /\ run.github = "waiting"
  /\ run.github # "waiting" => /\ run.npm \in {"ok", "failed"} /\ run.maven \in {"ok", "failed"}
                               /\ run.container \in {"ok", "failed"}
  /\ run.github = "recording" => run.npm = "ok" /\ run.maven = "ok" /\ run.container = "ok"

\* While a run goes on master stands at its tag, and no moving tag is newer.
TagIsHead ==
  /\ run.preflight = "ok" /\ run.github \notin Ended => head = "tag"
  /\ head = "tag" => \A a \in Aliases : alias[a] # "newer"

\* The container job pushes only what is absent, and then holds on to its digest.
TagIsKept ==
  /\ run.container = "pushing" => exact = "absent"
  /\ run.container \in {"aliasing", "ok"} => run.digest = exact /\ exact \in Digests

\* npm has the packages up to the one the job is at.
NpmSoFar ==
  /\ DependenciesFirst
  /\ run.npm \in {"waiting", "building"} => run.at = 1
  /\ run.npm = "publishing" =>
       /\ run.npmBuilt \in Builds
       /\ \A i \in DOMAIN Packages : i < run.at => npm[i] # "absent"

ReleaseInv == ReleaseTypeOK /\ JobsInOrder /\ TagIsHead /\ TagIsKept /\ NpmSoFar

-------------------------------------------------------------------------------
\* The initial states satisfy the invariant.
LEMMA InvInit == ReleaseInit => ReleaseInv
  <1> SUFFICES ASSUME ReleaseInit PROVE ReleaseInv
    OBVIOUS
  <1>1. ReleaseTypeOK
    <2>1. "waiting" \in JobStates /\ "failed" \in JobStates /\ 0 \in 0 .. MaxRuns
      BY RunBound DEF JobStates, Ended
    <2>2. Idle(0) \in RunType
      BY <2>1 DEF Idle, RunType
    <2>3. [Idle(0) EXCEPT !.preflight = "failed"] \in RunType
      BY <2>1, <2>2 DEF RunType
    <2> QED BY <2>3 DEF ReleaseInit, ReleaseTypeOK
  <1>2. JobsInOrder /\ TagIsHead /\ TagIsKept
    BY DEF ReleaseInit, Idle, JobsInOrder, TagIsHead, TagIsKept
  <1>3. NpmSoFar
    BY DEF ReleaseInit, Idle, NpmSoFar, DependenciesFirst
  <1> QED BY <1>1, <1>2, <1>3 DEF ReleaseInv

\* A new run of the workflow keeps the invariant.
LEMMA StartRunKeeps == ReleaseInv /\ StartRun => ReleaseInv'
  <1> SUFFICES ASSUME ReleaseInv, StartRun PROVE ReleaseInv'
    OBVIOUS
  <1>1. ReleaseTypeOK'
    BY RunBound DEF ReleaseInv, ReleaseTypeOK, RunType, JobStates, Ended, Digests, TagIsKept, StartRun,
      Idle
  <1>2. JobsInOrder'
    BY DEF ReleaseInv, ReleaseTypeOK, RunType, JobsInOrder, StartRun, Idle
  <1>3. TagIsHead'
    BY DEF ReleaseInv, TagIsHead, StartRun, Idle
  <1>4. TagIsKept'
    BY DEF ReleaseInv, TagIsKept, StartRun, Idle
  <1>5. NpmSoFar'
    BY DEF ReleaseInv, NpmSoFar, DependenciesFirst, StartRun, Idle
  <1> QED BY <1>1, <1>2, <1>3, <1>4, <1>5 DEF ReleaseInv

\* A merge to master between runs keeps the invariant.
LEMMA MasterAdvancesKeeps == ReleaseInv /\ MasterAdvances => ReleaseInv'
  <1> SUFFICES ASSUME ReleaseInv, MasterAdvances PROVE ReleaseInv'
    OBVIOUS
  <1>1. ReleaseTypeOK'
    BY DEF ReleaseInv, ReleaseTypeOK, RunType, MasterAdvances
  <1>2. JobsInOrder'
    BY DEF ReleaseInv, JobsInOrder, MasterAdvances
  <1>3. TagIsHead'
    BY SMTT(30) DEF ReleaseInv, ReleaseTypeOK, RunType, JobsInOrder, Ended, Active, TagIsHead,
      MasterAdvances
  <1>4. TagIsKept'
    BY DEF ReleaseInv, TagIsKept, MasterAdvances
  <1>5. NpmSoFar'
    BY DEF ReleaseInv, NpmSoFar, DependenciesFirst, MasterAdvances
  <1> QED BY <1>1, <1>2, <1>3, <1>4, <1>5 DEF ReleaseInv

\* The next release between runs keeps the invariant.
LEMMA NewerReleaseKeeps == ReleaseInv /\ NewerRelease => ReleaseInv'
  <1> SUFFICES ASSUME ReleaseInv, NewerRelease PROVE ReleaseInv'
    OBVIOUS
  <1>1. ReleaseTypeOK'
    BY DEF ReleaseInv, ReleaseTypeOK, RunType, NewerRelease
  <1>2. JobsInOrder'
    BY DEF ReleaseInv, JobsInOrder, NewerRelease
  <1>3. TagIsHead'
    BY DEF ReleaseInv, TagIsHead, NewerRelease
  <1>4. TagIsKept'
    BY DEF ReleaseInv, TagIsKept, NewerRelease
  <1>5. NpmSoFar'
    BY DEF ReleaseInv, NpmSoFar, DependenciesFirst, NewerRelease
  <1> QED BY <1>1, <1>2, <1>3, <1>4, <1>5 DEF ReleaseInv

\* A change of the signing key between runs keeps the invariant.
LEMMA RotateKeyKeeps == ReleaseInv /\ RotateKey => ReleaseInv'
  <1> SUFFICES ASSUME ReleaseInv, RotateKey PROVE ReleaseInv'
    OBVIOUS
  <1>1. ReleaseTypeOK'
    BY DEF ReleaseInv, ReleaseTypeOK, RunType, RotateKey
  <1>2. JobsInOrder'
    BY DEF ReleaseInv, JobsInOrder, RotateKey
  <1>3. TagIsHead'
    BY DEF ReleaseInv, TagIsHead, RotateKey
  <1>4. TagIsKept'
    BY DEF ReleaseInv, TagIsKept, RotateKey
  <1>5. NpmSoFar'
    BY DEF ReleaseInv, NpmSoFar, DependenciesFirst, RotateKey
  <1> QED BY <1>1, <1>2, <1>3, <1>4, <1>5 DEF ReleaseInv

\* Preflight keeps the invariant.
LEMMA PreflightKeeps == ReleaseInv /\ Preflight => ReleaseInv'
  <1> SUFFICES ASSUME ReleaseInv, Preflight PROVE ReleaseInv'
    OBVIOUS
  <1>0. \/ run' = [run EXCEPT !.preflight = "failed"]
        \/ /\ head = "tag"
           /\ \E b \in Builds : run' = [run EXCEPT !.preflight = "ok", !.npm = "building", !.maven = "building",
                                                  !.container = "looking", !.candidate = b]
    BY ZenonT(30) DEF Preflight, DecideReleaseRef
  <1> /\ run.preflight = "waiting" /\ UNCHANGED <<head, key, npm, central, exact, alias, released>>
    BY Zenon DEF Preflight
  <1>1. ReleaseTypeOK'
    <2>1. CASE run' = [run EXCEPT !.preflight = "failed"]
      BY <2>1 DEF ReleaseInv, ReleaseTypeOK, RunType, JobStates, Ended
    <2>2. ASSUME NEW b \in Builds,
                 run' = [run EXCEPT !.preflight = "ok", !.npm = "building", !.maven = "building",
                                    !.container = "looking", !.candidate = b]
          PROVE  ReleaseTypeOK'
      BY ZenonT(60), <2>2 DEF ReleaseInv, ReleaseTypeOK, RunType, JobStates, Ended
    <2> QED BY Zenon, <1>0, <2>1, <2>2
  <1>2. JobsInOrder'
    BY ZenonT(60), <1>0 DEF ReleaseInv, ReleaseTypeOK, RunType, JobsInOrder
  <1>3. TagIsHead'
    BY ZenonT(60), <1>0 DEF ReleaseInv, ReleaseTypeOK, RunType, TagIsHead, JobsInOrder, Ended
  <1>4. TagIsKept'
    BY ZenonT(60), <1>0 DEF ReleaseInv, ReleaseTypeOK, RunType, TagIsKept, JobsInOrder
  <1>5. NpmSoFar'
    BY ZenonT(60), <1>0 DEF ReleaseInv, ReleaseTypeOK, RunType, NpmSoFar, DependenciesFirst, JobsInOrder
  <1> QED BY SMTT(30), <1>1, <1>2, <1>3, <1>4, <1>5 DEF ReleaseInv

\* NpmBuild keeps the invariant.
LEMMA NpmBuildKeeps == ReleaseInv /\ NpmBuild => ReleaseInv'
  <1> SUFFICES ASSUME ReleaseInv, NpmBuild PROVE ReleaseInv'
    OBVIOUS
  <1>0. PICK b \in Builds, s \in {"publishing", "failed"} :
          run' = [run EXCEPT !.npm = s, !.npmBuilt = b]
    BY Zenon DEF NpmBuild
  <1> /\ run.npm = "building" /\ run.at = 1 /\ UNCHANGED <<head, key, npm, central, exact, alias, released>>
    BY DEF NpmBuild, ReleaseInv, NpmSoFar
  <1>1. ReleaseTypeOK'
    <2>1. s \in JobStates
      BY DEF JobStates, Ended
    <2>2. [run EXCEPT !.npm = s, !.npmBuilt = b] \in RunType
      BY Zenon, <2>1 DEF ReleaseInv, ReleaseTypeOK, RunType
    <2> QED BY <1>0, <2>2 DEF ReleaseInv, ReleaseTypeOK
  <1>2. JobsInOrder'
    BY DEF ReleaseInv, JobsInOrder, NpmBuild
  <1>3. TagIsHead'
    BY DEF ReleaseInv, TagIsHead, NpmBuild
  <1>4. TagIsKept'
    BY DEF ReleaseInv, TagIsKept, NpmBuild
  <1>5. NpmSoFar'
    <2>1. run'.npm = s /\ run'.npmBuilt = b /\ run'.at = 1
      BY <1>0 DEF ReleaseInv, ReleaseTypeOK, RunType
    <2>2. \A i \in DOMAIN Packages : ~(i < 1)
      BY PackageList
    <2> QED BY <2>1, <2>2 DEF ReleaseInv, NpmSoFar, DependenciesFirst
  <1> QED BY <1>1, <1>2, <1>3, <1>4, <1>5 DEF ReleaseInv

\* NpmPublish keeps the invariant.
LEMMA NpmPublishKeeps == ReleaseInv /\ NpmPublish => ReleaseInv'
  <1> SUFFICES ASSUME ReleaseInv, NpmPublish PROVE ReleaseInv'
    OBVIOUS
  <1>1. ReleaseTypeOK'
    <2>1. [run EXCEPT !.at = run.at + 1] \in RunType
      BY DEF ReleaseInv, ReleaseTypeOK, RunType, JobStates, Ended
    <2>2. [run EXCEPT !.npm = "failed"] \in RunType
      BY DEF ReleaseInv, ReleaseTypeOK, RunType, JobStates, Ended
    <2>3. run' \in {[run EXCEPT !.at = run.at + 1], [run EXCEPT !.npm = "failed"]}
      BY DEF NpmPublish
    <2>4. run.at \in DOMAIN Packages /\ run.npmBuilt \in Builds
      BY PackageList DEF ReleaseInv, ReleaseTypeOK, RunType, NpmSoFar, NpmPublish
    <2>5. \E v \in Builds \cup {"absent"} : npm' \in {npm, [npm EXCEPT ![run.at] = v]}
      BY <2>4 DEF NpmPublish, Published
    <2>6. npm' \in [DOMAIN Packages -> Builds \cup {"absent"}]
      BY <2>4, <2>5 DEF ReleaseInv, ReleaseTypeOK
    <2> QED BY <2>1, <2>2, <2>3, <2>6 DEF ReleaseInv, ReleaseTypeOK, NpmPublish
  <1>2. JobsInOrder'
    BY DEF ReleaseInv, ReleaseTypeOK, RunType, JobsInOrder, NpmPublish, Published
  <1>3. TagIsHead'
    BY DEF ReleaseInv, ReleaseTypeOK, RunType, TagIsHead, NpmPublish, Published
  <1>4. TagIsKept'
    BY DEF ReleaseInv, ReleaseTypeOK, RunType, TagIsKept, NpmPublish, Published
  <1>5. NpmSoFar'
    BY Words DEF ReleaseInv, ReleaseTypeOK, RunType, Digests, JobsInOrder, Ended, Active, NpmSoFar,
      DependenciesFirst, NpmPublish, Published
  <1> QED BY <1>1, <1>2, <1>3, <1>4, <1>5 DEF ReleaseInv

\* NpmCompare keeps the invariant.
LEMMA NpmCompareKeeps == ReleaseInv /\ NpmCompare => ReleaseInv'
  <1> SUFFICES ASSUME ReleaseInv, NpmCompare PROVE ReleaseInv'
    OBVIOUS
  <1>1. ReleaseTypeOK'
    BY DEF ReleaseInv, ReleaseTypeOK, RunType, JobStates, Ended, NpmCompare
  <1>2. JobsInOrder'
    BY DEF ReleaseInv, JobsInOrder, NpmCompare
  <1>3. TagIsHead'
    BY DEF ReleaseInv, TagIsHead, NpmCompare
  <1>4. TagIsKept'
    BY DEF ReleaseInv, TagIsKept, NpmCompare
  <1>5. NpmSoFar'
    BY DEF ReleaseInv, NpmSoFar, DependenciesFirst, NpmCompare
  <1> QED BY <1>1, <1>2, <1>3, <1>4, <1>5 DEF ReleaseInv

\* MavenBundle keeps the invariant.
LEMMA MavenBundleKeeps == ReleaseInv /\ MavenBundle => ReleaseInv'
  <1> SUFFICES ASSUME ReleaseInv, MavenBundle PROVE ReleaseInv'
    OBVIOUS
  <1>1. ReleaseTypeOK'
    <2>1. PICK b \in Builds : run' = [run EXCEPT !.maven = "looking", !.mavenBuilt = b]
      BY DEF MavenBundle
    <2> QED BY Zenon, <2>1 DEF ReleaseInv, ReleaseTypeOK, RunType, JobStates, Ended, MavenBundle
  <1>2. JobsInOrder'
    BY DEF ReleaseInv, JobsInOrder, MavenBundle
  <1>3. TagIsHead'
    BY DEF ReleaseInv, TagIsHead, MavenBundle
  <1>4. TagIsKept'
    BY DEF ReleaseInv, TagIsKept, MavenBundle
  <1>5. NpmSoFar'
    BY DEF ReleaseInv, NpmSoFar, DependenciesFirst, MavenBundle
  <1> QED BY <1>1, <1>2, <1>3, <1>4, <1>5 DEF ReleaseInv

\* MavenUpload keeps the invariant.
LEMMA MavenUploadKeeps == ReleaseInv /\ MavenUpload => ReleaseInv'
  <1> SUFFICES ASSUME ReleaseInv, MavenUpload PROVE ReleaseInv'
    OBVIOUS
  <1>0. /\ run.maven = "looking" /\ UNCHANGED <<head, key, npm, exact, alias, released>>
        /\ run' \in {[run EXCEPT !.maven = "comparing"], [run EXCEPT !.maven = "failed"],
                     [run EXCEPT !.maven = "polling", !.uploaded = TRUE]}
    BY DEF MavenUpload
  <1>1. ReleaseTypeOK'
    <2>1. [run EXCEPT !.maven = "comparing"] \in RunType
      BY DEF ReleaseInv, ReleaseTypeOK, RunType, JobStates, Ended
    <2>2. [run EXCEPT !.maven = "failed"] \in RunType
      BY DEF ReleaseInv, ReleaseTypeOK, RunType, JobStates, Ended
    <2>3. [run EXCEPT !.maven = "polling", !.uploaded = TRUE] \in RunType
      BY ZenonT(60) DEF ReleaseInv, ReleaseTypeOK, RunType, JobStates, Ended
    <2> QED BY <1>0, <2>1, <2>2, <2>3 DEF ReleaseInv, ReleaseTypeOK
  <1>2. JobsInOrder'
    BY ZenonT(60), <1>0 DEF ReleaseInv, ReleaseTypeOK, RunType, JobsInOrder
  <1>3. TagIsHead'
    BY ZenonT(60), <1>0 DEF ReleaseInv, ReleaseTypeOK, RunType, TagIsHead, Ended
  <1>4. TagIsKept'
    BY ZenonT(60), <1>0 DEF ReleaseInv, ReleaseTypeOK, RunType, TagIsKept
  <1>5. NpmSoFar'
    BY ZenonT(60), <1>0 DEF ReleaseInv, ReleaseTypeOK, RunType, NpmSoFar, DependenciesFirst
  <1> QED BY <1>1, <1>2, <1>3, <1>4, <1>5 DEF ReleaseInv

\* MavenPoll keeps the invariant.
LEMMA MavenPollKeeps == ReleaseInv /\ MavenPoll => ReleaseInv'
  <1> SUFFICES ASSUME ReleaseInv, MavenPoll PROVE ReleaseInv'
    OBVIOUS
  <1>1. ReleaseTypeOK'
    BY DEF ReleaseInv, ReleaseTypeOK, RunType, JobStates, Ended, MavenPoll
  <1>2. JobsInOrder'
    BY DEF ReleaseInv, ReleaseTypeOK, RunType, JobsInOrder, MavenPoll
  <1>3. TagIsHead'
    BY DEF ReleaseInv, ReleaseTypeOK, RunType, TagIsHead, MavenPoll
  <1>4. TagIsKept'
    BY DEF ReleaseInv, ReleaseTypeOK, RunType, TagIsKept, MavenPoll
  <1>5. NpmSoFar'
    BY DEF ReleaseInv, ReleaseTypeOK, RunType, NpmSoFar, DependenciesFirst, MavenPoll
  <1> QED BY <1>1, <1>2, <1>3, <1>4, <1>5 DEF ReleaseInv

\* MavenCompare keeps the invariant.
LEMMA MavenCompareKeeps == ReleaseInv /\ MavenCompare => ReleaseInv'
  <1> SUFFICES ASSUME ReleaseInv, MavenCompare PROVE ReleaseInv'
    OBVIOUS
  <1>1. ReleaseTypeOK'
    BY DEF ReleaseInv, ReleaseTypeOK, RunType, JobStates, Ended, MavenCompare
  <1>2. JobsInOrder'
    BY DEF ReleaseInv, JobsInOrder, MavenCompare
  <1>3. TagIsHead'
    BY DEF ReleaseInv, TagIsHead, MavenCompare
  <1>4. TagIsKept'
    BY DEF ReleaseInv, TagIsKept, MavenCompare
  <1>5. NpmSoFar'
    BY DEF ReleaseInv, NpmSoFar, DependenciesFirst, MavenCompare
  <1> QED BY <1>1, <1>2, <1>3, <1>4, <1>5 DEF ReleaseInv

\* CentralDecides keeps the invariant.
LEMMA CentralDecidesKeeps == ReleaseInv /\ CentralDecides => ReleaseInv'
  <1> SUFFICES ASSUME ReleaseInv, CentralDecides PROVE ReleaseInv'
    OBVIOUS
  <1>1. ReleaseTypeOK'
    BY DEF ReleaseInv, ReleaseTypeOK, RunType, CentralDecides
  <1>2. JobsInOrder'
    BY DEF ReleaseInv, JobsInOrder, CentralDecides
  <1>3. TagIsHead'
    BY DEF ReleaseInv, TagIsHead, CentralDecides
  <1>4. TagIsKept'
    BY DEF ReleaseInv, TagIsKept, CentralDecides
  <1>5. NpmSoFar'
    BY DEF ReleaseInv, NpmSoFar, DependenciesFirst, CentralDecides
  <1> QED BY <1>1, <1>2, <1>3, <1>4, <1>5 DEF ReleaseInv

\* CentralServes keeps the invariant.
LEMMA CentralServesKeeps == ReleaseInv /\ CentralServes => ReleaseInv'
  <1> SUFFICES ASSUME ReleaseInv, CentralServes PROVE ReleaseInv'
    OBVIOUS
  <1>1. ReleaseTypeOK'
    BY DEF ReleaseInv, ReleaseTypeOK, RunType, CentralServes
  <1>2. JobsInOrder'
    BY DEF ReleaseInv, JobsInOrder, CentralServes
  <1>3. TagIsHead'
    BY DEF ReleaseInv, TagIsHead, CentralServes
  <1>4. TagIsKept'
    BY DEF ReleaseInv, TagIsKept, CentralServes
  <1>5. NpmSoFar'
    BY DEF ReleaseInv, NpmSoFar, DependenciesFirst, CentralServes
  <1> QED BY <1>1, <1>2, <1>3, <1>4, <1>5 DEF ReleaseInv

\* ContainerLook keeps the invariant.
LEMMA ContainerLookKeeps == ReleaseInv /\ ContainerLook => ReleaseInv'
  <1> SUFFICES ASSUME ReleaseInv, ContainerLook PROVE ReleaseInv'
    OBVIOUS
  <1>1. ReleaseTypeOK'
    <2>1. [run EXCEPT !.container = "failed"] \in RunType
      BY DEF ReleaseInv, ReleaseTypeOK, RunType, JobStates, Ended
    <2>2. [run EXCEPT !.container = "pushing"] \in RunType
      BY DEF ReleaseInv, ReleaseTypeOK, RunType, JobStates, Ended
    <2>3. exact # "absent" => [run EXCEPT !.container = "aliasing", !.digest = exact] \in RunType
      BY Zenon DEF ReleaseInv, ReleaseTypeOK, RunType, JobStates, Ended
    <2>4. \/ run' \in {[run EXCEPT !.container = "failed"], [run EXCEPT !.container = "pushing"]}
          \/ exact # "absent" /\ run' = [run EXCEPT !.container = "aliasing", !.digest = exact]
      BY Zenon DEF ContainerLook, Inspect, DecideExactTag
    <2> QED BY <2>1, <2>2, <2>3, <2>4 DEF ReleaseInv, ReleaseTypeOK, ContainerLook
  <1>2. JobsInOrder'
    BY DEF ReleaseInv, JobsInOrder, ContainerLook, Inspect, DecideExactTag
  <1>3. TagIsHead'
    BY DEF ReleaseInv, TagIsHead, ContainerLook, Inspect, DecideExactTag
  <1>4. TagIsKept'
    BY DEF ReleaseInv, ReleaseTypeOK, RunType, TagIsKept, ContainerLook, Inspect, DecideExactTag
  <1>5. NpmSoFar'
    BY DEF ReleaseInv, NpmSoFar, DependenciesFirst, ContainerLook, Inspect, DecideExactTag
  <1> QED BY <1>1, <1>2, <1>3, <1>4, <1>5 DEF ReleaseInv

\* ContainerPush keeps the invariant.
LEMMA ContainerPushKeeps == ReleaseInv /\ ContainerPush => ReleaseInv'
  <1> SUFFICES ASSUME ReleaseInv, ContainerPush PROVE ReleaseInv'
    OBVIOUS
  <1>0. /\ run.container = "pushing" /\ exact' = Images[run.n] /\ UNCHANGED <<head, key, npm, alias>>
        /\ run' \in {[run EXCEPT !.container = "aliasing", !.digest = Images[run.n]],
                     [run EXCEPT !.container = "failed"]}
    BY DEF ContainerPush, Image
  <1>i. Images[run.n] \in Digests
    BY <1>0, RunBound DEF ReleaseInv, ReleaseTypeOK, RunType, JobsInOrder, Digests
  <1>1. ReleaseTypeOK'
    <2>1. [run EXCEPT !.container = "aliasing", !.digest = Images[run.n]] \in RunType
      BY ZenonT(60), <1>i DEF ReleaseInv, ReleaseTypeOK, RunType, JobStates, Ended
    <2>2. [run EXCEPT !.container = "failed"] \in RunType
      BY <1>i DEF ReleaseInv, ReleaseTypeOK, RunType, JobStates, Ended
    <2> QED BY <1>0, <1>i, <2>1, <2>2 DEF ReleaseInv, ReleaseTypeOK
  <1>2. JobsInOrder'
    BY ZenonT(60), <1>0 DEF ReleaseInv, ReleaseTypeOK, RunType, JobsInOrder
  <1>3. TagIsHead'
    BY Zenon, <1>0 DEF ReleaseInv, ReleaseTypeOK, RunType, TagIsHead
  <1>4. TagIsKept'
    BY Zenon, <1>0, <1>i DEF ReleaseInv, ReleaseTypeOK, RunType, TagIsKept
  <1>5. NpmSoFar'
    BY ZenonT(60), <1>0 DEF ReleaseInv, ReleaseTypeOK, RunType, NpmSoFar, DependenciesFirst
  <1> QED BY <1>1, <1>2, <1>3, <1>4, <1>5 DEF ReleaseInv

\* ContainerAlias keeps the invariant.
LEMMA ContainerAliasKeeps == ReleaseInv /\ ContainerAlias => ReleaseInv'
  <1> SUFFICES ASSUME ReleaseInv, ContainerAlias PROVE ReleaseInv'
    OBVIOUS
  <1>1. ReleaseTypeOK'
    BY SMTT(30), RunBound DEF ReleaseInv, ReleaseTypeOK, RunType, JobStates, Ended, Digests, TagIsKept,
      ContainerAlias, AliasesToRepair
  <1>2. JobsInOrder'
    BY DEF ReleaseInv, JobsInOrder, ContainerAlias, AliasesToRepair
  <1>3. TagIsHead'
    BY Words DEF ReleaseInv, ReleaseTypeOK, RunType, Digests, JobsInOrder, Ended, Active, TagIsHead,
      ContainerAlias, AliasesToRepair
  <1>4. TagIsKept'
    BY DEF ReleaseInv, TagIsKept, ContainerAlias, AliasesToRepair
  <1>5. NpmSoFar'
    BY DEF ReleaseInv, NpmSoFar, DependenciesFirst, ContainerAlias, AliasesToRepair
  <1> QED BY <1>1, <1>2, <1>3, <1>4, <1>5 DEF ReleaseInv

\* ContainerCheck keeps the invariant.
LEMMA ContainerCheckKeeps == ReleaseInv /\ ContainerCheck => ReleaseInv'
  <1> SUFFICES ASSUME ReleaseInv, ContainerCheck PROVE ReleaseInv'
    OBVIOUS
  <1>1. ReleaseTypeOK'
    BY DEF ReleaseInv, ReleaseTypeOK, RunType, JobStates, Ended, ContainerCheck, AliasesToRepair
  <1>2. JobsInOrder'
    BY DEF ReleaseInv, JobsInOrder, ContainerCheck, AliasesToRepair
  <1>3. TagIsHead'
    BY DEF ReleaseInv, TagIsHead, ContainerCheck, AliasesToRepair
  <1>4. TagIsKept'
    BY DEF ReleaseInv, TagIsKept, ContainerCheck, AliasesToRepair
  <1>5. NpmSoFar'
    BY DEF ReleaseInv, NpmSoFar, DependenciesFirst, ContainerCheck, AliasesToRepair
  <1> QED BY <1>1, <1>2, <1>3, <1>4, <1>5 DEF ReleaseInv

\* GithubRelease keeps the invariant.
LEMMA GithubReleaseKeeps == ReleaseInv /\ GithubRelease => ReleaseInv'
  <1> SUFFICES ASSUME ReleaseInv, GithubRelease PROVE ReleaseInv'
    OBVIOUS
  <1>1. ReleaseTypeOK'
    BY DEF ReleaseInv, ReleaseTypeOK, RunType, JobStates, Ended, GithubRelease, GithubNeeds, Publishers
  <1>2. JobsInOrder'
    BY DEF ReleaseInv, JobsInOrder, GithubRelease, GithubNeeds, Publishers
  <1>3. TagIsHead'
    BY DEF ReleaseInv, ReleaseTypeOK, RunType, Ended, TagIsHead, GithubRelease, GithubNeeds, Publishers
  <1>4. TagIsKept'
    BY DEF ReleaseInv, TagIsKept, GithubRelease, GithubNeeds, Publishers
  <1>5. NpmSoFar'
    BY DEF ReleaseInv, NpmSoFar, DependenciesFirst, GithubRelease, GithubNeeds, Publishers
  <1> QED BY <1>1, <1>2, <1>3, <1>4, <1>5 DEF ReleaseInv

\* GithubSkipped keeps the invariant.
LEMMA GithubSkippedKeeps == ReleaseInv /\ GithubSkipped => ReleaseInv'
  <1> SUFFICES ASSUME ReleaseInv, GithubSkipped PROVE ReleaseInv'
    OBVIOUS
  <1>1. ReleaseTypeOK'
    BY DEF ReleaseInv, ReleaseTypeOK, RunType, JobStates, Ended, GithubSkipped, GithubNeeds, Publishers
  <1>2. JobsInOrder'
    BY DEF ReleaseInv, JobsInOrder, GithubSkipped, GithubNeeds, Publishers
  <1>3. TagIsHead'
    BY DEF ReleaseInv, ReleaseTypeOK, RunType, Ended, TagIsHead, GithubSkipped, GithubNeeds, Publishers
  <1>4. TagIsKept'
    BY DEF ReleaseInv, TagIsKept, GithubSkipped, GithubNeeds, Publishers
  <1>5. NpmSoFar'
    BY DEF ReleaseInv, NpmSoFar, DependenciesFirst, GithubSkipped, GithubNeeds, Publishers
  <1> QED BY <1>1, <1>2, <1>3, <1>4, <1>5 DEF ReleaseInv

\* GithubCreate keeps the invariant.
LEMMA GithubCreateKeeps == ReleaseInv /\ GithubCreate => ReleaseInv'
  <1> SUFFICES ASSUME ReleaseInv, GithubCreate PROVE ReleaseInv'
    OBVIOUS
  <1>1. ReleaseTypeOK'
    BY DEF ReleaseInv, ReleaseTypeOK, RunType, JobStates, Ended, GithubCreate
  <1>2. JobsInOrder'
    BY DEF ReleaseInv, ReleaseTypeOK, RunType, JobsInOrder, GithubCreate
  <1>3. TagIsHead'
    BY DEF ReleaseInv, ReleaseTypeOK, RunType, Ended, TagIsHead, GithubCreate
  <1>4. TagIsKept'
    BY DEF ReleaseInv, ReleaseTypeOK, RunType, TagIsKept, GithubCreate
  <1>5. NpmSoFar'
    BY DEF ReleaseInv, ReleaseTypeOK, RunType, NpmSoFar, DependenciesFirst, GithubCreate
  <1> QED BY <1>1, <1>2, <1>3, <1>4, <1>5 DEF ReleaseInv

\* A job that stops, wherever it is, keeps the invariant.
LEMMA JobStopsKeeps ==
    ASSUME ReleaseInv, NEW j \in Publishers \cup {"github"}, JobStops(j)
    PROVE  ReleaseInv'
  <1>0. /\ j \in {"npm", "maven", "container", "github"}
        /\ run[j] \notin Ended \cup {"waiting"} /\ run' = [run EXCEPT ![j] = "failed"]
        /\ UNCHANGED <<head, key, npm, exact, alias>>
    BY DEF JobStops, Publishers
  <1>1. CASE j = "npm"
    <2>1. run.npm \notin Ended \cup {"waiting"} /\ run' = [run EXCEPT !.npm = "failed"]
      BY Zenon, <1>0, <1>1
    <2> QED BY <1>0, <2>1 DEF ReleaseInv, ReleaseTypeOK, RunType, JobStates, Ended, JobsInOrder, TagIsHead, TagIsKept,
                              NpmSoFar, DependenciesFirst
  <1>2. CASE j = "maven"
    <2>1. run.maven \notin Ended \cup {"waiting"} /\ run' = [run EXCEPT !.maven = "failed"]
      BY Zenon, <1>0, <1>2
    <2> QED BY <1>0, <2>1 DEF ReleaseInv, ReleaseTypeOK, RunType, JobStates, Ended, JobsInOrder, TagIsHead, TagIsKept,
                              NpmSoFar, DependenciesFirst
  <1>3. CASE j = "container"
    <2>1. run.container \notin Ended \cup {"waiting"} /\ run' = [run EXCEPT !.container = "failed"]
      BY Zenon, <1>0, <1>3
    <2> QED BY <1>0, <2>1 DEF ReleaseInv, ReleaseTypeOK, RunType, JobStates, Ended, JobsInOrder, TagIsHead, TagIsKept,
                              NpmSoFar, DependenciesFirst
  <1>4. CASE j = "github"
    <2>1. run.github \notin Ended \cup {"waiting"} /\ run' = [run EXCEPT !.github = "failed"]
      BY Zenon, <1>0, <1>4
    <2> QED BY <1>0, <2>1 DEF ReleaseInv, ReleaseTypeOK, RunType, JobStates, Ended, JobsInOrder, TagIsHead, TagIsKept,
                              NpmSoFar, DependenciesFirst
  <1> QED BY <1>0, <1>1, <1>2, <1>3, <1>4

\* A step that changes nothing keeps it.
LEMMA StutterKeeps == ReleaseInv /\ UNCHANGED releaseVars => ReleaseInv'
  <1> SUFFICES ASSUME ReleaseInv, UNCHANGED releaseVars PROVE ReleaseInv'
    OBVIOUS
  <1>1. ReleaseTypeOK' BY DEF ReleaseInv, ReleaseTypeOK, releaseVars
  <1>2. JobsInOrder' BY DEF ReleaseInv, JobsInOrder, releaseVars
  <1>3. TagIsHead' BY DEF ReleaseInv, TagIsHead, releaseVars
  <1>4. TagIsKept' BY DEF ReleaseInv, TagIsKept, releaseVars
  <1>5. NpmSoFar' BY DEF ReleaseInv, NpmSoFar, DependenciesFirst, releaseVars
  <1> QED BY <1>1, <1>2, <1>3, <1>4, <1>5 DEF ReleaseInv

-------------------------------------------------------------------------------
\* The invariant holds throughout a release: its jobs run in order, on a tag that
\* is the head of master, and know what the registries hold.
THEOREM ReleaseInvariant == ReleaseSpec => []ReleaseInv
  <1>1. ReleaseInit => ReleaseInv
    BY InvInit
  <1>2. ReleaseInv /\ [ReleaseNext]_releaseVars => ReleaseInv'
    <2> SUFFICES ASSUME ReleaseInv, [ReleaseNext]_releaseVars PROVE ReleaseInv'
      OBVIOUS
    <2>1. ASSUME NEW j \in Publishers \cup {"github"}, JobStops(j) PROVE ReleaseInv'
      BY <2>1, JobStopsKeeps
    <2> QED
      BY Zenon, <2>1, StutterKeeps, StartRunKeeps, MasterAdvancesKeeps, NewerReleaseKeeps, RotateKeyKeeps,
         PreflightKeeps, NpmBuildKeeps, NpmPublishKeeps, NpmCompareKeeps, MavenBundleKeeps, MavenUploadKeeps,
         MavenPollKeeps, MavenCompareKeeps, CentralDecidesKeeps, CentralServesKeeps, ContainerLookKeeps,
         ContainerPushKeeps, ContainerAliasKeeps, ContainerCheckKeeps, GithubReleaseKeeps, GithubSkippedKeeps,
         GithubCreateKeeps DEF ReleaseNext
  <1> QED BY <1>1, <1>2, PTL DEF ReleaseSpec

\* npm never has a package without the ones before it, whatever the packages,
\* wherever npm.mjs stops and however often the release is resumed.
THEOREM PackagesInOrder == ReleaseSpec => []DependenciesFirst
  <1>1. ReleaseInv => DependenciesFirst
    BY DEF ReleaseInv, NpmSoFar
  <1> QED BY <1>1, ReleaseInvariant, PTL

\* The exact tag never moves: container.mjs pushes only after it found the tag
\* absent, and nothing else of the workflow writes it.
LEMMA ExactTagKept == ReleaseInv /\ ReleaseNext => ExactTagStays
  <1> SUFFICES ASSUME ReleaseInv, ReleaseNext PROVE exact # "absent" => exact' = exact
    BY DEF ExactTagStays
  <1>1. CASE ContainerPush
    BY <1>1 DEF ContainerPush, ReleaseInv, TagIsKept
  <1>2. CASE UNCHANGED exact
    BY <1>2
  <1>3. ContainerPush \/ UNCHANGED exact
    BY Zenon DEF ReleaseNext, StartRun, MasterAdvances, NewerRelease, RotateKey, JobStops, Preflight, NpmBuild,
       NpmPublish, NpmCompare, MavenBundle, MavenUpload, MavenPoll, MavenCompare, CentralDecides, CentralServes,
       ContainerLook, ContainerAlias, ContainerCheck, GithubRelease, GithubSkipped, GithubCreate
  <1> QED BY <1>1, <1>2, <1>3

\* No run of this release points a moving tag back from a newer one: a run is
\* under way only while its tag is the head of master.
LEMMA AliasesKept == ReleaseInv /\ ReleaseNext => AliasesStay
  <1> SUFFICES ASSUME ReleaseInv, ReleaseNext, NEW a \in Aliases, alias[a] = "newer" PROVE alias'[a] = "newer"
    BY Zenon DEF AliasesStay
  <1>1. CASE ContainerAlias
    <2>1. run.container = "aliasing"
      BY <1>1 DEF ContainerAlias
    <2>2. head = "tag"
      BY <2>1 DEF ReleaseInv, JobsInOrder, TagIsHead, Ended
    <2> QED BY <2>2 DEF ReleaseInv, TagIsHead
  <1>2. CASE NewerRelease
    BY <1>2 DEF NewerRelease
  <1>3. CASE UNCHANGED alias
    BY SMTT(30), <1>3
  <1>4. ContainerAlias \/ NewerRelease \/ UNCHANGED alias
    BY Zenon DEF ReleaseNext, StartRun, MasterAdvances, RotateKey, JobStops, Preflight, NpmBuild,
       NpmPublish, NpmCompare, MavenBundle, MavenUpload, MavenPoll, MavenCompare, CentralDecides, CentralServes,
       ContainerLook, ContainerPush, ContainerCheck, GithubRelease, GithubSkipped, GithubCreate
  <1> QED BY <1>1, <1>2, <1>3, <1>4

\* No tag goes back, through outages, lost jobs, resumed runs and newer releases.
THEOREM TagsKept == ReleaseSpec => TagsNeverGoBack
  <1>1. ReleaseInv /\ [ReleaseNext]_releaseVars => [ExactTagStays /\ AliasesStay]_releaseVars
    BY ExactTagKept, AliasesKept
  <1> QED BY <1>1, ReleaseInvariant, PTL DEF ReleaseSpec, TagsNeverGoBack

-------------------------------------------------------------------------------
(* Why the GitHub Release tells the truth about three registries that none *)
(* of its steps can lock: what a job verified stays as it verified it.     *)

Deployments == [n : 0 .. MaxRuns, bytes : Builds \cup {"none"}, key : Keys]

\* Central serves only what it published.
CentralTypeOK ==
  /\ central \in [waiting : SUBSET Deployments, failed : SUBSET (0 .. MaxRuns),
                  published : SUBSET Deployments, served : SUBSET Artifacts]
  /\ central.served # {} => central.published # {}

\* A finished npm job saw every package as it built it.
NpmIsBuilt == run.npm = "ok" => \A p \in DOMAIN Packages : npm[p] = run.npmBuilt /\ npm[p] # "absent"

\* A finished Maven job saw every artifact as it built it, signed with the key
\* that the environment keeps while the run is under way.
MavenIsBuilt ==
  run.maven = "ok" =>
    /\ central.served = Artifacts
    /\ \A d \in central.published : d.bytes = run.mavenBuilt
    /\ run.github \notin Ended => \A d \in central.published : d.key = key

ReleaseStands ==
  /\ GithubReleaseIsTrue
  /\ released.made => released.npm # "absent" /\ exact # "absent"

TruthInv == CentralTypeOK /\ NpmIsBuilt /\ MavenIsBuilt /\ ReleaseStands

-------------------------------------------------------------------------------
(* Who writes what *)

\* Each registry, the key and the release are written by few of the steps.
LEMMA Writers ==
    ASSUME ReleaseNext
    PROVE  /\ npm' = npm \/ NpmPublish
           /\ central' = central \/ MavenUpload \/ CentralDecides \/ CentralServes
           /\ exact' = exact \/ ContainerPush
           /\ key' = key \/ RotateKey
           /\ released' = released \/ GithubCreate
  BY Zenon DEF ReleaseNext, StartRun, MasterAdvances, NewerRelease, RotateKey, JobStops, Preflight, NpmBuild,
     NpmPublish, NpmCompare, MavenBundle, MavenUpload, MavenPoll, MavenCompare, CentralDecides, CentralServes,
     ContainerLook, ContainerPush, ContainerAlias, ContainerCheck, GithubRelease, GithubSkipped, GithubCreate

\* What is published stays: npm and Central take no second version, and
\* container.mjs does not push over a tag.
LEMMA RegistriesKeep ==
    ASSUME ReleaseInv, CentralTypeOK, ReleaseNext
    PROVE  /\ \A p \in DOMAIN Packages : npm[p] # "absent" => npm'[p] = npm[p]
           /\ exact # "absent" => exact' = exact
           /\ central.published # {} => central'.published = central.published
           /\ central.served = Artifacts => central'.served = Artifacts
  <1>1. ASSUME NEW p \in DOMAIN Packages, npm[p] # "absent" PROVE npm'[p] = npm[p]
    <2>1. CASE NpmPublish
      <3>1. npm' = npm \/ (npm[run.at] = "absent" /\ \E v : npm' = [npm EXCEPT ![run.at] = v])
        BY <2>1 DEF NpmPublish
      <3> QED BY <1>1, <3>1 DEF ReleaseInv, ReleaseTypeOK
    <2> QED BY <2>1, Writers
  <1>2. exact # "absent" => exact' = exact
    BY Writers DEF ContainerPush, ReleaseInv, TagIsKept
  <1>3. /\ central.published # {} => central'.published = central.published
        /\ central.served = Artifacts => central'.served = Artifacts
    <2>1. CASE MavenUpload
      BY <2>1 DEF MavenUpload, CentralTypeOK
    <2>2. CASE CentralDecides
      BY Zenon, <2>2 DEF CentralDecides, CentralTypeOK
    <2>3. CASE CentralServes
      BY <2>3 DEF CentralServes, CentralTypeOK
    <2> QED BY <2>1, <2>2, <2>3, Writers
  <1> QED BY <1>1, <1>2, <1>3

\* A job is found finished only by its own comparison; from then on to the end
\* of the run nothing changes what it built.
JobsFinished ==
  /\ run'.npm = "ok" => NpmCompare \/ (run.npm = "ok" /\ run'.npmBuilt = run.npmBuilt)
  /\ run'.maven = "ok" => \/ MavenCompare
                          \/ /\ run.maven = "ok" /\ run'.mavenBuilt = run.mavenBuilt
                             /\ run'.github \notin Ended => run.github \notin Ended

\* Every step keeps what a finished job built.
LEMMA FinishedJobsKeep == ASSUME ReleaseInv, ReleaseNext PROVE JobsFinished
  <1>1. CASE run' = run
    BY <1>1 DEF JobsFinished
  <1>2. CASE StartRun
    BY SMTT(30), <1>2 DEF StartRun, Idle, JobsFinished, ReleaseInv, ReleaseTypeOK, RunType, Ended
  <1>3. CASE Preflight
    BY ZenonT(60), <1>3 DEF Preflight, JobsInOrder, JobsFinished, ReleaseInv, ReleaseTypeOK, RunType, Ended
  <1>4. CASE NpmBuild
    BY <1>4 DEF NpmBuild, JobsFinished, ReleaseInv, ReleaseTypeOK, RunType, Ended
  <1>5. CASE NpmPublish
    BY <1>5 DEF NpmPublish, JobsFinished, ReleaseInv, ReleaseTypeOK, RunType, Ended
  <1>6. CASE MavenBundle
    BY <1>6 DEF MavenBundle, JobsFinished, ReleaseInv, ReleaseTypeOK, RunType, Ended
  <1>7. CASE MavenUpload
    BY ZenonT(60), <1>7 DEF MavenUpload, JobsFinished, ReleaseInv, ReleaseTypeOK, RunType, Ended
  <1>8. CASE MavenPoll
    BY <1>8 DEF MavenPoll, JobsFinished, ReleaseInv, ReleaseTypeOK, RunType, Ended
  <1>9. CASE ContainerLook
    BY <1>9 DEF ContainerLook, JobsFinished, ReleaseInv, ReleaseTypeOK, RunType, Ended
  <1>10. CASE ContainerPush
    BY ZenonT(60), <1>10 DEF ContainerPush, JobsFinished, ReleaseInv, ReleaseTypeOK, RunType, Ended
  <1>11. CASE ContainerCheck
    BY <1>11 DEF ContainerCheck, JobsFinished, ReleaseInv, ReleaseTypeOK, RunType, Ended
  <1>12. CASE GithubRelease
    BY <1>12 DEF GithubRelease, JobsFinished, ReleaseInv, ReleaseTypeOK, RunType, Ended
  <1>13. CASE GithubSkipped
    BY <1>13 DEF GithubSkipped, JobsFinished, ReleaseInv, ReleaseTypeOK, RunType, Ended
  <1>14. CASE GithubCreate
    BY <1>14 DEF GithubCreate, JobsFinished, ReleaseInv, ReleaseTypeOK, RunType, Ended
  <1>15. CASE NpmCompare
    BY <1>15 DEF NpmCompare, JobsFinished, ReleaseInv, ReleaseTypeOK, RunType, Ended
  <1>16. CASE MavenCompare
    BY <1>16 DEF MavenCompare, JobsFinished, ReleaseInv, ReleaseTypeOK, RunType, Ended
  <1>17. ASSUME NEW j \in Publishers \cup {"github"}, JobStops(j) PROVE JobsFinished
    <2>1. \E i \in {"npm", "maven", "container", "github"} : run' = [run EXCEPT ![i] = "failed"]
      BY Zenon, <1>17 DEF JobStops, Publishers
    <2>2. \/ run' = [run EXCEPT !.npm = "failed"] \/ run' = [run EXCEPT !.maven = "failed"]
          \/ run' = [run EXCEPT !.container = "failed"] \/ run' = [run EXCEPT !.github = "failed"]
      BY Zenon, <2>1
    <2> QED BY <2>2 DEF JobsFinished, ReleaseInv, ReleaseTypeOK, RunType, Ended
  <1> QED BY Zenon, <1>1, <1>2, <1>3, <1>4, <1>5, <1>6, <1>7, <1>8, <1>9, <1>10, <1>11,
       <1>12, <1>13, <1>14, <1>15, <1>16, <1>17
       DEF ReleaseNext, MasterAdvances, NewerRelease, RotateKey, CentralDecides, CentralServes, ContainerAlias

-------------------------------------------------------------------------------
\* Central's record stays well formed, and serves only what it published.
LEMMA CentralKeeps == ASSUME ReleaseInv, CentralTypeOK, ReleaseNext PROVE CentralTypeOK'
  <1>1. CASE MavenUpload
    <2>1. Deployment(run.n, run.mavenBuilt, key) \in Deployments
      BY DEF Deployment, Deployments, ReleaseInv, ReleaseTypeOK, RunType
    <2>2. central' = central \/ central' = [central EXCEPT !.waiting = @ \cup {Deployment(run.n, run.mavenBuilt, key)}]
      BY <1>1 DEF MavenUpload
    <2> QED BY <2>1, <2>2 DEF CentralTypeOK
  <1>2. CASE CentralDecides
    <2>1. PICK d \in central.waiting :
            \/ central' = [central EXCEPT !.waiting = @ \ {d}, !.published = {d}]
            \/ central' = [central EXCEPT !.waiting = @ \ {d}, !.failed = @ \cup {d.n}]
      BY Zenon, <1>2 DEF CentralDecides
    <2>2. d \in Deployments /\ d.n \in 0 .. MaxRuns
      BY DEF CentralTypeOK, Deployments
    <2>3. CASE central' = [central EXCEPT !.waiting = @ \ {d}, !.published = {d}]
      BY Zenon, <2>2, <2>3 DEF CentralTypeOK
    <2>4. CASE central' = [central EXCEPT !.waiting = @ \ {d}, !.failed = @ \cup {d.n}]
      BY Zenon, <2>2, <2>4 DEF CentralTypeOK
    <2> QED BY <2>1, <2>3, <2>4
  <1>3. CASE CentralServes
    BY <1>3 DEF CentralServes, CentralTypeOK
  <1>4. CASE central' = central
    BY <1>4 DEF CentralTypeOK
  <1> QED BY <1>1, <1>2, <1>3, <1>4, Writers

\* What the npm job verified is still so after any step.
LEMMA NpmKeeps == ASSUME ReleaseInv, TruthInv, ReleaseNext PROVE NpmIsBuilt'
  <1> SUFFICES ASSUME run'.npm = "ok", NEW p \in DOMAIN Packages
               PROVE  npm'[p] = run'.npmBuilt /\ npm'[p] # "absent"
    BY DEF NpmIsBuilt
  <1>1. CASE NpmCompare
    <2>1. CompareNpmIntegrity(run.npmBuilt) /\ run'.npmBuilt = run.npmBuilt /\ npm' = npm
      BY <1>1 DEF NpmCompare, ReleaseInv, ReleaseTypeOK, RunType
    <2>2. run.npmBuilt \in Builds
      BY <1>1 DEF NpmCompare, ReleaseInv, NpmSoFar
    <2> QED BY <2>1, <2>2, Words DEF CompareNpmIntegrity
  <1>2. CASE run.npm = "ok" /\ run'.npmBuilt = run.npmBuilt
    BY <1>2, RegistriesKeep DEF TruthInv, NpmIsBuilt
  <1> QED BY <1>1, <1>2, FinishedJobsKeep DEF JobsFinished

\* What the Maven job verified is still so after any step.
LEMMA MavenKeeps == ASSUME ReleaseInv, TruthInv, ReleaseNext PROVE MavenIsBuilt'
  <1> SUFFICES ASSUME run'.maven = "ok"
               PROVE  /\ central'.served = Artifacts
                      /\ \A d \in central'.published : d.bytes = run'.mavenBuilt
                      /\ run'.github \notin Ended => \A d \in central'.published : d.key = key'
    BY DEF MavenIsBuilt
  <1>1. CASE MavenCompare
    <2>1. /\ CompareCentralArtifacts(run.mavenBuilt) /\ VerifyCentralSignatures(key)
          /\ run'.mavenBuilt = run.mavenBuilt /\ central' = central /\ key' = key
      BY <1>1 DEF MavenCompare, ReleaseInv, ReleaseTypeOK, RunType
    <2> QED BY <2>1 DEF CompareCentralArtifacts, ServedByCentral, VerifyCentralSignatures, SignaturesMatchKey
  <1>2. CASE /\ run.maven = "ok" /\ run'.mavenBuilt = run.mavenBuilt
             /\ run'.github \notin Ended => run.github \notin Ended
    <2>1. central.served = Artifacts /\ central.published # {}
      BY <1>2, Words DEF TruthInv, MavenIsBuilt, CentralTypeOK
    <2>2. central'.served = Artifacts /\ central'.published = central.published
      BY <2>1, RegistriesKeep DEF TruthInv
    <2>3. run'.github \notin Ended => key' = key
      <3>1. CASE RotateKey
        BY <1>2, <3>1 DEF RotateKey, Active, ReleaseInv, JobsInOrder
      <3> QED BY <3>1, Writers
    <2> QED BY <1>2, <2>1, <2>2, <2>3 DEF TruthInv, MavenIsBuilt
  <1> QED BY <1>1, <1>2, FinishedJobsKeep DEF JobsFinished

\* What the GitHub Release says is true when it is made, and stays so.
LEMMA ReleaseKeeps == ASSUME ReleaseInv, TruthInv, ReleaseNext PROVE ReleaseStands'
  <1>1. CASE released.made /\ released' = released
    <2>1. central.served = Artifacts /\ central.published # {} /\ exact # "absent"
      BY <1>1, Words DEF TruthInv, ReleaseStands, GithubReleaseIsTrue, CentralTypeOK
    <2>2. /\ central'.served = Artifacts /\ central'.published = central.published /\ exact' = exact
          /\ \A p \in DOMAIN Packages : npm'[p] = npm[p]
      BY <1>1, <2>1, RegistriesKeep DEF TruthInv, ReleaseStands, GithubReleaseIsTrue
    <2> QED BY <1>1, <2>2 DEF TruthInv, ReleaseStands, GithubReleaseIsTrue
  <1>2. CASE ~released.made /\ released' = released
    BY <1>2 DEF ReleaseStands, GithubReleaseIsTrue
  <1>3. CASE ~released.made /\ released' # released
    <2>1. /\ GithubCreate /\ ManifestAccepts /\ UNCHANGED <<npm, central, exact, key>>
          /\ released' = [made |-> TRUE, npm |-> run.candidate, maven |-> Manifest.published,
                          key |-> Manifest.signingKey, digest |-> Manifest.digest]
      BY <1>3, Writers DEF GithubCreate
    <2>2. /\ run.npm = "ok" /\ run.maven = "ok" /\ run.container = "ok" /\ run.github = "recording"
          /\ run.candidate \in Builds
      BY <2>1 DEF GithubCreate, ReleaseInv, JobsInOrder
    <2>3. /\ Manifest.published = run.mavenBuilt /\ Manifest.signingKey = key /\ Manifest.digest = run.digest
          /\ \A p \in DOMAIN Packages : /\ Manifest.packages[p].integrity = run.candidate
                                        /\ Manifest.packages[p].registryIntegrity = run.npmBuilt
      BY <2>2 DEF Manifest, Evidence
    <2>4. \A p \in DOMAIN Packages : npm[p] = run.candidate
      BY <2>1, <2>2, <2>3 DEF ManifestAccepts, TruthInv, NpmIsBuilt
    <2>5. central.served = Artifacts /\ \A d \in central.published : d.bytes = run.mavenBuilt /\ d.key = key
      BY <2>2 DEF TruthInv, MavenIsBuilt, Ended
    <2>6. exact = run.digest /\ exact # "foreign" /\ exact # "absent"
      BY <2>2, Words DEF ReleaseInv, TagIsKept, Digests
    <2>7. run.candidate # "absent"
      BY <2>2, Words
    <2> QED BY <2>1, <2>3, <2>4, <2>5, <2>6, <2>7 DEF ReleaseStands, GithubReleaseIsTrue
  <1>4. released.made => released' = released
    BY Writers DEF GithubCreate
  <1> QED BY <1>1, <1>2, <1>3, <1>4

\* The GitHub Release, once made, tells the truth for ever: npm serves what the
\* preflight packed, Central what the Maven job built under the key it names, and
\* the exact tag is the digest it records, whatever stopped and was resumed.
THEOREM ReleaseIsTrue == ReleaseSpec => []GithubReleaseIsTrue
  <1>1. ReleaseInit => TruthInv
    <2> SUFFICES ASSUME ReleaseInit PROVE TruthInv
      OBVIOUS
    <2>1. CentralTypeOK
      BY DEF ReleaseInit, CentralTypeOK
    <2>2. NpmIsBuilt /\ MavenIsBuilt
      BY DEF ReleaseInit, Idle, NpmIsBuilt, MavenIsBuilt
    <2>3. ReleaseStands
      BY DEF ReleaseInit, ReleaseStands, GithubReleaseIsTrue
    <2> QED BY <2>1, <2>2, <2>3 DEF TruthInv
  <1>2. ReleaseInv /\ TruthInv /\ [ReleaseNext]_releaseVars => TruthInv'
    <2>1. ASSUME ReleaseInv, TruthInv, ReleaseNext PROVE TruthInv'
      BY <2>1, CentralKeeps, NpmKeeps, MavenKeeps, ReleaseKeeps DEF TruthInv
    <2>2. ASSUME TruthInv, UNCHANGED releaseVars PROVE TruthInv'
      BY <2>2 DEF TruthInv, CentralTypeOK, NpmIsBuilt, MavenIsBuilt, ReleaseStands, GithubReleaseIsTrue, releaseVars
    <2> QED BY <2>1, <2>2
  <1>3. TruthInv => GithubReleaseIsTrue
    BY DEF TruthInv, ReleaseStands
  <1> QED BY <1>1, <1>2, <1>3, ReleaseInvariant, PTL DEF ReleaseSpec
===============================================================================
