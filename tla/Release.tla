------------------------------- MODULE Release -------------------------------
(***************************************************************************)
(* The release workflow, .github/workflows/release.yml, one run of it for  *)
(* each pushed tag, and the scripts its jobs call that decide or publish   *)
(* something: check-release-tag.py and deploy-book.sh.                     *)
(*                                                                         *)
(* Jobs may fail for reasons of their own, and the maintainer may run the  *)
(* failed ones, or all of them, again. An upload may be accepted and its   *)
(* answer lost. Runs of different tags go on at the same time: nothing     *)
(* keeps their documentation jobs from pushing one branch. A tag is a      *)
(* record: rank orders the versions as sort -V does, line is major.minor.  *)
(* The registry, the release pages and the branch outlive every run.       *)
(***************************************************************************)
EXTENDS Integers

CONSTANTS
    Series,    \* sets of tags that may be pushed
    Platforms  \* what the binaries are built for

Tag == [rank : Nat, line : Nat, pre : BOOLEAN]

ASSUME SeriesTyped == \A tags \in Series :
    tags \subseteq Tag /\ \A t, u \in tags : t.rank = u.rank => t = u
ASSUME PlatformsNamed ==
    Platforms \cap {"check-tag", "verify", "publish-crates", "github-release",
                    "book"} = {}

VARIABLES
    tags,      \* the tags there will be
    sound,     \* those on main, with the crate's version and a changelog section
    job,       \* tag -> the state of each job of its run
    crates,    \* versions on the registry
    pages,     \* versions with a release page
    site,      \* gh-pages: the tag of each line's directory and of latest/
    fetched,   \* tag -> the branch its book job has fetched, {} for none
    deployed,  \* history: tags whose book has been on the branch
    repeated   \* history: tags whose whole run was run again

registry == <<crates, pages>>
branch == <<site, fetched, deployed>>
given == <<tags, sound>>
releaseVars == <<given, job, registry, branch, repeated>>

Jobs == {"check-tag", "verify", "publish-crates", "github-release", "book"}
            \cup Platforms

\* Mutant: the crate is not kept waiting for the binaries.
Needs_NoBinaries(j) ==
    CASE j = "check-tag" -> {}
      [] j \in {"verify"} \cup Platforms -> {"check-tag"}
      [] j = "publish-crates" -> {"check-tag", "verify"}
      [] j = "github-release" -> {"check-tag", "publish-crates"} \cup Platforms
      [] j = "book" -> {"check-tag", "publish-crates"}

Needs(j) ==
    CASE j = "check-tag" -> {}
      [] j \in {"verify"} \cup Platforms -> {"check-tag"}
      [] j = "publish-crates" -> {"check-tag", "verify"} \cup Platforms
      [] j = "github-release" -> {"check-tag", "publish-crates"} \cup Platforms
      [] j = "book" -> {"check-tag", "publish-crates"}

-----------------------------------------------------------------------------

ReleaseInit ==
    /\ tags \in Series /\ sound \in SUBSET tags
    /\ job = [t \in tags |-> [j \in Jobs |-> "none"]]
    /\ crates = {} /\ pages = {}
    /\ site = [lines |-> <<>>, latest |-> {}]
    /\ fetched = [t \in tags |-> {}]
    /\ deployed = {} /\ repeated = {}

\* Every job waits for those it needs; if one of them fails it is skipped,
\* which is to wait until that one is run again.
Ready(t, j) == job[t][j] = "waiting" /\ \A n \in Needs(j) : job[t][n] = "ok"

\* The jobs of t in S turn to this state.
Turn(t, S, state) ==
    job' = [job EXCEPT ![t] = [j \in Jobs |-> IF j \in S THEN state ELSE @[j]]]

Succeeds(t, j) == Turn(t, {j}, "ok")
Fails(t, j) == Turn(t, {j}, "failed")

PushTag(t) ==
    /\ \A j \in Jobs : job[t][j] = "none"
    /\ Turn(t, Jobs, "waiting")
    /\ UNCHANGED <<given, registry, branch, repeated>>

\* A runner is lost, a download fails, a time limit is reached. Only the book
\* has done something by then that shows: fetched the branch, or not.
Break(t, j) ==
    /\ IF j = "book" THEN job[t][j] = "running" ELSE Ready(t, j)
    /\ Fails(t, j)
    /\ fetched' = IF j = "book" THEN [fetched EXCEPT ![t] = {}] ELSE fetched
    /\ UNCHANGED <<given, registry, site, deployed, repeated>>

\* check-release-tag.py and the steps around it: no tag passes that is not
\* sound, and none whose commit's latest gate check has not succeeded, which
\* is not up to the workflow.
CheckTag(t) ==
    /\ Ready(t, "check-tag")
    /\ t \in sound /\ Succeeds(t, "check-tag")
    /\ UNCHANGED <<given, registry, branch, repeated>>

Build(t, j) ==
    /\ j \in {"verify"} \cup Platforms /\ Ready(t, j)
    /\ Succeeds(t, j)
    /\ UNCHANGED <<given, registry, branch, repeated>>

\* cargo publish: the registry takes a version once. The job may fail after
\* it has.
Publish(t) ==
    /\ Ready(t, "publish-crates") /\ t \notin crates
    /\ crates' = crates \cup {t}
    /\ Succeeds(t, "publish-crates") \/ Fails(t, "publish-crates")
    /\ UNCHANGED <<given, pages, branch, repeated>>

\* The page is made, or made again; the job may fail after it is.
MakePage(t) ==
    /\ Ready(t, "github-release")
    /\ pages' = pages \cup {t}
    /\ Succeeds(t, "github-release")
    /\ UNCHANGED <<given, crates, branch, repeated>>

PageAnswerLost(t) ==
    /\ Ready(t, "github-release")
    /\ pages' = pages \cup {t}
    /\ Fails(t, "github-release")
    /\ UNCHANGED <<given, crates, branch, repeated>>

-----------------------------------------------------------------------------
(* deploy-book.sh *)

DirectoryOf(s, t) == [l \in DOMAIN s.lines \cup {t.line} |->
    IF l = t.line THEN t ELSE s.lines[l]]

\* Mutant: whoever deploys takes latest/.
Deployed_AlwaysLatest(s, t) ==
    [lines |-> DirectoryOf(s, t),
     latest |-> IF t.pre THEN s.latest ELSE {t}]

\* The directory of the tag's line, and latest/ unless it is newer already.
Deployed(s, t) ==
    [lines |-> DirectoryOf(s, t),
     latest |-> IF ~t.pre /\ \A u \in s.latest : u.rank <= t.rank THEN {t}
                ELSE s.latest]

FetchBranch(t) ==
    /\ Ready(t, "book")
    /\ Turn(t, {"book"}, "running")
    /\ fetched' = [fetched EXCEPT ![t] = {[site |-> site, fresh |-> TRUE]}]
    /\ UNCHANGED <<given, registry, site, deployed, repeated>>

\* The branch takes a commit only on top of its own last.
Commit(t) ==
    /\ site' = Deployed(site, t)
    /\ fetched' = [u \in tags |-> IF u = t THEN {} ELSE
                      {[f EXCEPT !.fresh = FALSE] : f \in fetched[u]}]
    /\ deployed' = deployed \cup {t}

LeaveBranch(t) ==
    /\ fetched' = [fetched EXCEPT ![t] = {}]
    /\ UNCHANGED <<site, deployed>>

\* Mutant: the script commits even when nothing differs, which git refuses.
PushBook_AlwaysCommits(t) ==
    /\ \E f \in fetched[t] : Deployed(f.site, t) # f.site /\ f.fresh
    /\ Commit(t)
    /\ Succeeds(t, "book")
    /\ UNCHANGED <<given, registry, repeated>>

\* Nothing to commit on what was fetched, or the commit is taken.
PushBook(t) ==
    /\ \E f \in fetched[t] :
          \/ Deployed(f.site, t) = f.site /\ LeaveBranch(t)
          \/ Deployed(f.site, t) # f.site /\ f.fresh /\ Commit(t)
    /\ Succeeds(t, "book")
    /\ UNCHANGED <<given, registry, repeated>>

\* The commit is taken and its answer lost. (A rejected one breaks the job.)
PushAnswerLost(t) ==
    /\ \E f \in fetched[t] : Deployed(f.site, t) # f.site /\ f.fresh
    /\ Commit(t)
    /\ Fails(t, "book")
    /\ UNCHANGED <<given, registry, repeated>>

-----------------------------------------------------------------------------
(* The maintainer *)

RunOver(t) ==
    \A j \in Jobs : job[t][j] \notin {"none", "running"} /\ ~Ready(t, j)

RerunFailed(t) ==
    /\ RunOver(t) /\ \E j \in Jobs : job[t][j] = "failed"
    /\ Turn(t, {j \in Jobs : job[t][j] = "failed"}, "waiting")
    /\ UNCHANGED <<given, registry, branch, repeated>>

RerunAll(t) ==
    /\ RunOver(t)
    /\ Turn(t, Jobs, "waiting")
    /\ repeated' = repeated \cup {t}
    /\ UNCHANGED <<given, registry, branch>>

ReleaseNext ==
    \E t \in tags :
        \/ PushTag(t) \/ CheckTag(t) \/ Publish(t) \/ MakePage(t)
        \/ PageAnswerLost(t) \/ FetchBranch(t) \/ PushBook(t)
        \/ PushAnswerLost(t) \/ RerunFailed(t) \/ RerunAll(t)
        \/ \E j \in Jobs : Build(t, j) \/ Break(t, j)

\* A book job that could start does, and ends; what failed is run again.
Proceed(t) ==
    FetchBranch(t) \/ PushBook(t) \/ Break(t, "book") \/ RerunFailed(t)

\* Neither the page nor the book fails for ever.
ReleaseFairness == \A t \in UNION Series :
    /\ WF_releaseVars(t \in tags /\ Proceed(t))
    /\ SF_releaseVars(t \in tags /\ MakePage(t))
    /\ SF_releaseVars(t \in tags /\ PushBook(t))

ReleaseSpec == ReleaseInit /\ [][ReleaseNext]_releaseVars
FairReleaseSpec == ReleaseSpec /\ ReleaseFairness

-----------------------------------------------------------------------------
(* Properties *)

ReleaseTypeOK ==
    /\ job \in [tags -> [Jobs -> {"none", "waiting", "running", "ok",
                                  "failed"}]]
    /\ crates \subseteq tags /\ pages \subseteq tags

\* A version is on the registry, where it stays for ever, only if its tag is
\* sound and, in the run that put it there, the tag, the checks and every
\* binary passed; it has a page or a book only once it is on the registry,
\* however jobs fail and are run again (release.yml:3-12). A tag whose whole
\* run was run again is judged by its soundness alone: its jobs' states are
\* those of the last run, not of the one that published.
PublishedIsChecked ==
    /\ \A t \in crates :
          /\ t \in sound
          /\ t \notin repeated =>
                \A j \in {"check-tag", "verify"} \cup Platforms : job[t][j] = "ok"
    /\ pages \cup deployed \subseteq crates

\* latest/ is the newest final release whose book was ever deployed, and each
\* line has a directory of that line, in whatever order the jobs of the tags
\* fetch, push, are rejected and are run again (deploy-book.sh:8-11).
LatestIsNewest ==
    LET final == {t \in deployed : ~t.pre} IN
    /\ site.latest \subseteq final
    /\ \A t \in final : \E u \in site.latest : t.rank <= u.rank
    /\ \A t \in deployed : t.line \in DOMAIN site.lines
    /\ \A l \in DOMAIN site.lines : site.lines[l] \in deployed /\ site.lines[l].line = l

\* A run whose publication succeeded ends with its page and its book made,
\* whatever answers are lost on the way, unless the maintainer runs all of it
\* again, which the registry then stops.
AnnouncedInTheEnd == \A t \in UNION Series :
    (t \in tags /\ job[t]["publish-crates"] = "ok")
        ~> \/ t \in repeated
           \/ /\ t \in pages /\ job[t]["github-release"] = "ok"
              /\ t \in deployed /\ job[t]["book"] = "ok"
=============================================================================
