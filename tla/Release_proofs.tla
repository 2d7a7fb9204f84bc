--------------------------- MODULE Release_proofs ---------------------------
(***************************************************************************)
(* What is published has been checked, and latest/ is the newest final     *)
(* release deployed, for every set of tags, of any lines and any number,   *)
(* and every set of platforms.                                             *)
(***************************************************************************)
EXTENDS Release, TLAPS

\* The jobs that must have passed before the crate is published.
Checks == {"check-tag", "verify"} \cup Platforms

\* The inductive invariant. A job that is "ok" leaves that state only when the
\* whole run is run again, so what it stood for still holds.
JobsMeanWhatTheySay ==
    /\ \A t \in tags :
          /\ job[t]["check-tag"] = "ok" => t \in sound
          /\ job[t]["publish-crates"] = "ok" => t \in crates
          /\ fetched[t] # {} => t \in crates
    /\ tags \in Series
    /\ fetched = [t \in tags |-> fetched[t]]

ReleaseInv == ReleaseTypeOK /\ JobsMeanWhatTheySay /\ PublishedIsChecked

-----------------------------------------------------------------------------

\* No platform is taken for one of the other jobs.
LEMMA NeedsOfEachJob ==
    /\ Needs("publish-crates") = {"check-tag", "verify"} \cup Platforms
    /\ Needs("github-release") = {"check-tag", "publish-crates"} \cup Platforms
    /\ Needs("book") = {"check-tag", "publish-crates"}
BY PlatformsNamed DEF Needs

\* A turn leaves the other tags alone, and the jobs outside S.
LEMMA TurnTurns ==
    ASSUME ReleaseTypeOK, NEW t \in tags, NEW S,
           NEW state \in {"none", "waiting", "running", "ok", "failed"},
           Turn(t, S, state)
    PROVE  /\ job' \in [tags -> [Jobs -> {"none", "waiting", "running", "ok",
                                          "failed"}]]
           /\ \A u \in tags \ {t} : job'[u] = job[u]
           /\ \A j \in Jobs \ S : job'[t][j] = job[t][j]
           /\ \A j \in Jobs : j \in S => job'[t][j] = state
BY DEF Turn, ReleaseTypeOK

\* A step of the run of t has only t to answer for.
LEMMA StepOfOneRun ==
    ASSUME ReleaseInv, NEW t \in tags, NEW S,
           NEW state \in {"none", "waiting", "running", "ok", "failed"},
           Turn(t, S, state), UNCHANGED given,
           fetched' = [u \in tags |-> fetched'[u]],
           \A u \in tags : fetched'[u] # {} => u \in crates',
           crates \subseteq crates', crates' \subseteq crates \cup {t},
           repeated \subseteq repeated', pages' \cup deployed' \subseteq crates',
           job'[t]["check-tag"] = "ok" => t \in sound,
           job'[t]["publish-crates"] = "ok" => t \in crates',
           t \in crates' => t \in sound,
           t \in crates' \ repeated' => \A j \in Checks : job'[t][j] = "ok"
    PROVE  ReleaseInv'
<1>0. ReleaseTypeOK /\ JobsMeanWhatTheySay /\ PublishedIsChecked
  BY DEF ReleaseInv
<1>1. /\ job' \in [tags -> [Jobs -> {"none", "waiting", "running", "ok", "failed"}]]
      /\ \A u \in tags \ {t} : job'[u] = job[u]
  BY <1>0, TurnTurns
<1>2. tags' = tags /\ sound' = sound
  BY DEF given
<1>3. ReleaseTypeOK'
  BY <1>0, <1>1, <1>2 DEF ReleaseTypeOK
<1>4. JobsMeanWhatTheySay'
  BY <1>0, <1>1, <1>2 DEF JobsMeanWhatTheySay
<1>5. \A u \in crates' :
          u \in sound /\ (u \notin repeated' => \A j \in Checks : job'[u][j] = "ok")
  BY <1>0, <1>1 DEF PublishedIsChecked, Checks, ReleaseTypeOK
<1>6. PublishedIsChecked'
  BY <1>2, <1>5 DEF PublishedIsChecked, Checks
<1> QED  BY <1>3, <1>4, <1>6 DEF ReleaseInv

\* Before any tag is pushed nothing has been done.
LEMMA InvInit == ReleaseInit => ReleaseInv
BY DEF ReleaseInit, ReleaseInv, ReleaseTypeOK, JobsMeanWhatTheySay,
       PublishedIsChecked, Jobs

\* Every step keeps the invariant, that of a job or of the maintainer.
LEMMA InvNext == ReleaseInv /\ [ReleaseNext]_releaseVars => ReleaseInv'
<1> SUFFICES ASSUME ReleaseInv, [ReleaseNext]_releaseVars PROVE ReleaseInv'
  OBVIOUS
<1> USE DEF ReleaseInv, JobsMeanWhatTheySay, PublishedIsChecked
<1>typed. ReleaseTypeOK /\ DOMAIN job = tags
  BY DEF ReleaseTypeOK
<1>jobs. /\ {"check-tag", "verify", "publish-crates", "github-release",
             "book"} \subseteq Jobs
         /\ Platforms \subseteq Jobs
         /\ "publish-crates" \notin Platforms /\ "check-tag" \notin Platforms
         /\ "book" \notin Platforms /\ "github-release" \notin Platforms
  BY PlatformsNamed DEF Jobs
<1>0. CASE UNCHANGED releaseVars
  BY <1>0 DEF releaseVars, given, registry, branch, ReleaseTypeOK
<1>1. ASSUME NEW t \in tags, PushTag(t) PROVE ReleaseInv'
  <2>1. Turn(t, Jobs, "waiting") /\ UNCHANGED <<given, registry, branch, repeated>>
    BY <1>1 DEF PushTag
  <2>2. \A j \in Jobs : job[t][j] = "none" /\ job'[t][j] = "waiting"
    BY <1>1, <2>1, <1>typed, TurnTurns DEF PushTag
  <2> QED
    BY <2>1, <2>2, <1>typed, <1>jobs, TurnTurns, StepOfOneRun, SMTT(30)
       DEF Checks, given, registry, branch, ReleaseTypeOK
<1>2. ASSUME NEW t \in tags, CheckTag(t) PROVE ReleaseInv'
  <2>1. /\ Turn(t, {"check-tag"}, "ok") /\ t \in sound
        /\ UNCHANGED <<given, registry, branch, repeated>>
    BY <1>2 DEF CheckTag, Succeeds
  <2> QED
    BY <2>1, <1>typed, <1>jobs, TurnTurns, StepOfOneRun, SMTT(30)
       DEF Checks, given, registry, branch, ReleaseTypeOK
<1>3. ASSUME NEW t \in tags, NEW j \in Jobs, Build(t, j) PROVE ReleaseInv'
  <2>1. /\ Turn(t, {j}, "ok") /\ j \in {"verify"} \cup Platforms
        /\ UNCHANGED <<given, registry, branch, repeated>>
    BY <1>3 DEF Build, Succeeds
  <2> QED
    BY <2>1, <1>typed, <1>jobs, TurnTurns, StepOfOneRun, SMTT(30)
       DEF Checks, given, registry, branch, ReleaseTypeOK
<1>4. ASSUME NEW t \in tags, NEW j \in Jobs, Break(t, j) PROVE ReleaseInv'
  <2>1. /\ Turn(t, {j}, "failed") /\ job[t][j] \in {"waiting", "running"}
        /\ UNCHANGED <<given, registry, site, deployed, repeated>>
        /\ fetched' = fetched \/ fetched' = [fetched EXCEPT ![t] = {}]
    BY <1>4 DEF Break, Fails, Ready
  <2>2. t \in crates \ repeated => j \notin {"check-tag", "verify"} \cup Platforms
    BY <2>1
  <2>3. DOMAIN fetched = tags
    OBVIOUS
  <2>4. /\ fetched' = [u \in tags |-> fetched'[u]]
        /\ \A u \in tags : fetched'[u] # {} => fetched[u] # {}
    BY <2>1, <2>3
  <2>5. /\ given' = given /\ crates' = crates /\ pages' = pages
        /\ deployed' = deployed /\ repeated' = repeated
    BY <2>1 DEF registry
  <2>6. /\ job'[t]["check-tag"] = "ok" => t \in sound
        /\ job'[t]["publish-crates"] = "ok" => t \in crates
    BY <2>1, <1>typed, <1>jobs, TurnTurns
  <2>7. t \in crates \ repeated => \A i \in Checks : job'[t][i] = "ok"
    BY <2>1, <2>2, <1>typed, <1>jobs, TurnTurns DEF Checks
  <2> QED
    BY <2>1, <2>4, <2>5, <2>6, <2>7, StepOfOneRun
<1>5. ASSUME NEW t \in tags, Publish(t) PROVE ReleaseInv'
  <2>1. /\ crates' = crates \cup {t}
        /\ Turn(t, {"publish-crates"}, "ok") \/ Turn(t, {"publish-crates"}, "failed")
        /\ UNCHANGED <<given, pages, branch, repeated>>
    BY <1>5 DEF Publish, Succeeds, Fails
  <2>2. \A j \in {"check-tag", "verify"} \cup Platforms : job[t][j] = "ok"
    BY <1>5, NeedsOfEachJob DEF Publish, Ready
  <2>3. t \in sound
    BY <2>2
  <2>4. \A j \in {"check-tag", "verify"} \cup Platforms : job'[t][j] = "ok"
    BY <2>1, <2>2, <1>typed, <1>jobs, TurnTurns
  <2> QED
    BY <2>1, <2>3, <2>4, <1>typed, <1>jobs, TurnTurns, StepOfOneRun
       DEF Checks, given, branch, ReleaseTypeOK
<1>6. ASSUME NEW t \in tags, MakePage(t) \/ PageAnswerLost(t) PROVE ReleaseInv'
  <2>1. /\ pages' = pages \cup {t}
        /\ Turn(t, {"github-release"}, "ok") \/ Turn(t, {"github-release"}, "failed")
        /\ UNCHANGED <<given, crates, branch, repeated>>
    BY <1>6 DEF MakePage, PageAnswerLost, Succeeds, Fails
  <2>2. t \in crates
    BY <1>6, NeedsOfEachJob DEF MakePage, PageAnswerLost, Ready
  <2> QED
    BY <2>1, <2>2, <1>typed, <1>jobs, TurnTurns, StepOfOneRun
       DEF Checks, given, branch, ReleaseTypeOK
<1>7. ASSUME NEW t \in tags, FetchBranch(t) PROVE ReleaseInv'
  <2>1. /\ Turn(t, {"book"}, "running")
        /\ fetched' = [fetched EXCEPT ![t] = {[site |-> site, fresh |-> TRUE]}]
        /\ UNCHANGED <<given, registry, site, deployed, repeated>>
    BY <1>7 DEF FetchBranch
  <2>2. t \in crates
    BY <1>7, NeedsOfEachJob DEF FetchBranch, Ready
  <2>3. DOMAIN fetched = tags
    OBVIOUS
  <2>4. /\ fetched' = [u \in tags |-> fetched'[u]]
        /\ \A u \in tags : fetched'[u] # {} => u = t \/ fetched[u] # {}
    BY <2>1, <2>3
  <2>5. /\ given' = given /\ crates' = crates /\ pages' = pages
        /\ deployed' = deployed /\ repeated' = repeated
    BY <2>1 DEF registry
  <2>6. /\ job'[t]["check-tag"] = "ok" => t \in sound
        /\ job'[t]["publish-crates"] = "ok" => t \in crates
        /\ t \in crates \ repeated => \A i \in Checks : job'[t][i] = "ok"
    BY <2>1, <1>typed, <1>jobs, TurnTurns DEF Checks
  <2> QED
    BY <2>1, <2>2, <2>4, <2>5, <2>6, StepOfOneRun
<1>8. ASSUME NEW t \in tags, PushBook(t) \/ PushAnswerLost(t) PROVE ReleaseInv'
  <2>1. /\ t \in crates
        /\ Commit(t) \/ LeaveBranch(t)
        /\ Turn(t, {"book"}, "ok") \/ Turn(t, {"book"}, "failed")
        /\ UNCHANGED <<given, registry, repeated>>
    BY <1>8 DEF PushBook, PushAnswerLost, Succeeds, Fails
  <2>2. /\ fetched' = [u \in tags |-> fetched'[u]]
        /\ \A u \in tags : fetched'[u] # {} => fetched[u] # {}
        /\ deployed' \subseteq deployed \cup {t}
    <3>1. DOMAIN fetched = tags
      OBVIOUS
    <3>2. CASE Commit(t)
      BY <3>1, <3>2 DEF Commit
    <3>3. CASE LeaveBranch(t)
      BY <3>1, <3>3 DEF LeaveBranch
    <3> QED  BY <2>1, <3>2, <3>3
  <2>3. /\ given' = given /\ crates' = crates /\ pages' = pages
        /\ repeated' = repeated
    BY <2>1 DEF registry
  <2>4. /\ job'[t]["check-tag"] = "ok" => t \in sound
        /\ job'[t]["publish-crates"] = "ok" => t \in crates
        /\ t \in crates \ repeated => \A i \in Checks : job'[t][i] = "ok"
    BY <2>1, <1>typed, <1>jobs, TurnTurns DEF Checks
  <2> QED
    BY <2>1, <2>2, <2>3, <2>4, StepOfOneRun
<1>9. ASSUME NEW t \in tags, RerunFailed(t) PROVE ReleaseInv'
  <2>1. /\ Turn(t, {j \in Jobs : job[t][j] = "failed"}, "waiting")
        /\ UNCHANGED <<given, registry, branch, repeated>>
    BY <1>9 DEF RerunFailed
  <2>2. \A j \in Jobs : job'[t][j] = "ok" <=> job[t][j] = "ok"
    BY <2>1, <1>typed, TurnTurns
  <2> QED
    BY <2>1, <2>2, <1>typed, <1>jobs, TurnTurns, StepOfOneRun
       DEF Checks, given, registry, branch, ReleaseTypeOK
<1>10. ASSUME NEW t \in tags, RerunAll(t) PROVE ReleaseInv'
  <2>1. /\ Turn(t, Jobs, "waiting") /\ repeated' = repeated \cup {t}
        /\ UNCHANGED <<given, registry, branch>>
    BY <1>10 DEF RerunAll
  <2>2. \A j \in Jobs : job'[t][j] = "waiting"
    BY <2>1, <1>typed, TurnTurns
  <2> QED
    BY <2>1, <2>2, <1>typed, <1>jobs, TurnTurns, StepOfOneRun
       DEF Checks, given, registry, branch, ReleaseTypeOK
<1> QED
  BY <1>0, <1>1, <1>2, <1>3, <1>4, <1>5, <1>6, <1>7, <1>8, <1>9, <1>10
     DEF ReleaseNext

\* Whatever fails and is run again, a crate was published on checks that had
\* passed, and neither page nor book comes before it.
THEOREM NothingUncheckedIsPublished == ReleaseSpec => []PublishedIsChecked
<1>1. ReleaseInv => PublishedIsChecked
  BY DEF ReleaseInv
<1> QED  BY InvInit, InvNext, <1>1, PTL DEF ReleaseSpec

-----------------------------------------------------------------------------
(* The branch *)

\* A commit takes latest/ only from an older release, and its own directory.
LEMMA CommitKeepsLatest ==
    ASSUME tags \in Series, deployed \subseteq tags, LatestIsNewest,
           NEW t \in tags, Commit(t)
    PROVE  LatestIsNewest'
<1>1. /\ site' = Deployed(site, t) /\ deployed' = deployed \cup {t}
  BY DEF Commit
<1>2. tags \subseteq Tag
  BY SeriesTyped
<1>3. \A u \in tags : u.rank \in Nat
  BY <1>2 DEF Tag
<1> DEFINE L == site.latest
           newer == ~t.pre /\ \A u \in L : u.rank <= t.rank
<1>4. /\ site'.latest = IF newer THEN {t} ELSE L
      /\ site'.lines = DirectoryOf(site, t)
  BY <1>1 DEF Deployed
<1>5. /\ L \subseteq {u \in deployed : ~u.pre}
      /\ \A u \in deployed : ~u.pre => \E v \in L : u.rank <= v.rank
  BY DEF LatestIsNewest
<1>6. /\ site'.latest \subseteq {u \in deployed' : ~u.pre}
      /\ \A u \in deployed' : ~u.pre => \E v \in site'.latest : u.rank <= v.rank
  <2>1. CASE newer
    <3>1. \A u \in deployed' : ~u.pre => u.rank <= t.rank
      BY <2>1, <1>1, <1>3, <1>5
    <3> QED  BY <2>1, <3>1, <1>1, <1>4
  <2>2. CASE ~newer
    <3>1. ~t.pre => \E v \in L : t.rank <= v.rank
      BY <2>2, <1>3, <1>5
    <3> QED  BY <2>2, <3>1, <1>1, <1>4, <1>5
  <2> QED  BY <2>1, <2>2
<1>7. \A l \in DOMAIN site'.lines :
          site'.lines[l] \in deployed' /\ site'.lines[l].line = l
  BY <1>1, <1>4 DEF DirectoryOf, LatestIsNewest
<1>8. \A u \in deployed' : u.line \in DOMAIN site'.lines
  BY <1>1, <1>4 DEF DirectoryOf, LatestIsNewest
<1> QED  BY <1>6, <1>7, <1>8 DEF LatestIsNewest

\* Whoever fetches first, pushes last or is rejected, latest/ is the newest.
THEOREM LatestStaysNewest == ReleaseSpec => []LatestIsNewest
<1>1. ReleaseInit => LatestIsNewest
  BY DEF ReleaseInit, LatestIsNewest
<1>2. ReleaseInv /\ LatestIsNewest /\ [ReleaseNext]_releaseVars => LatestIsNewest'
  <2> SUFFICES ASSUME ReleaseInv, LatestIsNewest, [ReleaseNext]_releaseVars
               PROVE  LatestIsNewest'
    OBVIOUS
  <2>1. \/ UNCHANGED <<site, deployed>>
        \/ \E t \in tags : Commit(t)
    BY DEF ReleaseNext, releaseVars, branch, PushTag, CheckTag, Publish, MakePage,
           PageAnswerLost, FetchBranch, PushBook, PushAnswerLost, LeaveBranch,
           RerunFailed, RerunAll, Build, Break
  <2>2. tags \in Series /\ deployed \subseteq tags
    BY DEF ReleaseInv, ReleaseTypeOK, JobsMeanWhatTheySay, PublishedIsChecked
  <2>3. UNCHANGED <<site, deployed>> => LatestIsNewest'
    BY DEF LatestIsNewest
  <2> QED  BY <2>1, <2>2, <2>3, CommitKeepsLatest
<1> QED  BY InvInit, InvNext, <1>1, <1>2, PTL DEF ReleaseSpec
=============================================================================
