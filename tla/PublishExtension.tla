-------------------------- MODULE PublishExtension --------------------------
(***************************************************************************)
(* tools/publish_extension.py: the workflow on the checkout's main branch   *)
(* and people at their desks publish the extension to one target            *)
(* repository, while the checkout they read goes on being edited.  A run    *)
(* reads the checkout three times (is it clean, what to copy, which commit  *)
(* to name), clones the target, pushes its branch, and then a tag if        *)
(* nobody has pushed that tag yet; it may die anywhere.                     *)
(***************************************************************************)
EXTENDS Integers, Sequences, FiniteSets

CONSTANTS
    Options,    \* publisher -> the options it may give
    MaxEdits, MaxVersion, MaxPublishes

Publishers == DOMAIN Options

ASSUME PublishAssumption ==
    {MaxEdits, MaxPublishes} \subseteq Nat /\ MaxVersion \in Nat \ {0}

VARIABLES
    checkout,   \* the working tree, config's version, and the commits made of it
    remote,     \* the target's branch (its commits) and its tags
    publisher   \* each run: where it is, what it assembled, what it cloned

publishVars == <<checkout, remote, publisher>>

NoTag == 0
Versions == 1 .. MaxVersion

\* A tree: what the published files hold, and pxt.json's version.
Tree(content, version) == [content |-> content, version |-> version]

Dirty == checkout.tree # checkout.commits[Len(checkout.commits)]      \* source_revision()
Branch == remote.branch
RemoteTree == Branch[Len(Branch)].tree

Stopped == [at |-> "idle", options |-> {}, tree |-> Tree(0, 0), base |-> 0,
            sha |-> 0, dirty |-> FALSE, calm |-> TRUE]

PublishInit ==
    /\ checkout = [tree |-> Tree(1, 1), config |-> 1, commits |-> <<Tree(1, 1)>>, edits |-> 0]
    /\ remote = [branch |-> <<[tree |-> Tree(0, 0), sha |-> 0, dirty |-> FALSE, calm |-> TRUE]>>,
                 tags |-> [v \in Versions |-> NoTag]]
    /\ publisher = [p \in Publishers |-> Stopped]

-----------------------------------------------------------------------------
(* The checkout. *)

Touched == publisher' = [p \in Publishers |-> [publisher[p] EXCEPT !.calm = @ /\ publisher[p].at = "idle"]]

EditFiles ==
    /\ checkout.edits < MaxEdits
    /\ checkout' = [checkout EXCEPT !.tree.content = checkout.edits + 2, !.edits = @ + 1]
    /\ Touched /\ UNCHANGED remote

\* `dotconfig version bump`, which pxt.json follows only by --sync-version.
BumpVersion ==
    /\ checkout.config < MaxVersion
    /\ checkout' = [checkout EXCEPT !.config = @ + 1]
    /\ Touched /\ UNCHANGED remote

sync_version ==
    /\ checkout.tree.version # checkout.config
    /\ checkout' = [checkout EXCEPT !.tree.version = checkout.config]
    /\ Touched /\ UNCHANGED remote

CommitSource ==
    /\ Dirty
    /\ checkout' = [checkout EXCEPT !.commits = Append(@, checkout.tree)]
    /\ Touched /\ UNCHANGED remote

-----------------------------------------------------------------------------
(* A run of --publish. *)

Goes(p, where) == publisher' = [publisher EXCEPT ![p].at = where]
RunEnds(p) == publisher' = [publisher EXCEPT ![p] = Stopped]
RunsLeft == Len(Branch) <= MaxPublishes

\* main(): a dirty tree is refused unless the options allow it.
StartPublish(p) ==
    /\ publisher[p].at = "idle" /\ RunsLeft
    /\ \E options \in Options[p] :
         /\ Dirty => options # {}
         /\ publisher' = [publisher EXCEPT ![p] =
              [Stopped EXCEPT !.at = "assemble", !.options = options]]
    /\ UNCHANGED <<checkout, remote>>

check_version == checkout.tree.version = checkout.config

assemble(p) ==
    /\ publisher[p].at = "assemble"
    /\ IF check_version
         THEN publisher' = [publisher EXCEPT ![p].at = "clone", ![p].tree = checkout.tree]
         ELSE RunEnds(p)
    /\ UNCHANGED <<checkout, remote>>

\* The clone's tree is replaced; a commit is made if that changed anything,
\* and names the checkout as it is by now.
CloneAndCommit(p) ==
    /\ publisher[p].at = "clone"
    /\ publisher' = [publisher EXCEPT ![p].at = "push", ![p].base = Len(Branch),
                                      ![p].sha = Len(checkout.commits), ![p].dirty = Dirty]
    /\ UNCHANGED <<checkout, remote>>

Changed(p) == Branch[publisher[p].base].tree # publisher[p].tree
Pushes(p) == "dry run" \notin publisher[p].options

\* commit_message()
Named(p) == [field \in {"tree", "sha", "dirty", "calm"} |-> publisher[p][field]]

\* The server takes only a fast-forward; git's failure ends the run.
PushBranch(p) ==
    /\ publisher[p].at = "push"
    /\ IF ~Changed(p) \/ ~Pushes(p)
         THEN Goes(p, "look") /\ UNCHANGED remote
         ELSE IF Len(Branch) = publisher[p].base
         THEN /\ remote' = [remote EXCEPT !.branch = Append(@, Named(p))]
              /\ publisher' = [publisher EXCEPT ![p].at = "look", ![p].base = @ + 1]
         ELSE RunEnds(p) /\ UNCHANGED remote
    /\ UNCHANGED checkout

TagOf(p) == publisher[p].tree.version

LookForTag(p) ==
    /\ publisher[p].at = "look"
    /\ IF remote.tags[TagOf(p)] = NoTag /\ Pushes(p) THEN Goes(p, "tag") ELSE RunEnds(p)
    /\ UNCHANGED <<checkout, remote>>

\* Mutant: the tag takes config's version, which is the one to be released.
PushTag_ConfigVersion(p) ==
    /\ publisher[p].at = "tag"
    /\ remote' = IF remote.tags[checkout.config] = NoTag
                   THEN [remote EXCEPT !.tags[checkout.config] = publisher[p].base] ELSE remote
    /\ RunEnds(p)
    /\ UNCHANGED checkout

\* The server refuses a tag it already has.
PushTag(p) ==
    /\ publisher[p].at = "tag"
    /\ remote' = IF remote.tags[TagOf(p)] = NoTag
                   THEN [remote EXCEPT !.tags[TagOf(p)] = publisher[p].base] ELSE remote
    /\ RunEnds(p)
    /\ UNCHANGED checkout

Dies(p) ==
    /\ publisher[p].at # "idle"
    /\ RunEnds(p)
    /\ UNCHANGED <<checkout, remote>>

PublishNext ==
    \/ EditFiles \/ BumpVersion \/ sync_version \/ CommitSource
    \/ \E p \in Publishers :
         \/ StartPublish(p) \/ assemble(p) \/ CloneAndCommit(p) \/ PushBranch(p)
         \/ LookForTag(p) \/ PushTag(p) \/ Dies(p)

PublishSpec == PublishInit /\ [][PublishNext]_publishVars

-----------------------------------------------------------------------------
(* Types of the checkout, the target and the runs. *)
PublishTypeOK ==
    /\ checkout.config \in Versions /\ checkout.edits \in 0 .. MaxEdits
    /\ remote.tags \in [Versions -> 0 .. Len(Branch)]
    /\ \A p \in Publishers :
         /\ publisher[p].at \in {"idle", "assemble", "clone", "push", "look", "tag"}
         /\ publisher[p].base \in 0 .. Len(Branch)

(* A tag names a commit of the branch, whose manifest carries the tag's own *)
(* version, whoever else published meanwhile and wherever a run died.       *)
TagNamesItsVersion ==
    \A v \in Versions :
        remote.tags[v] # NoTag => Branch[remote.tags[v]].tree.version = v

(* What the branch holds is what the commit it names holds, unless it says  *)
(* "-dirty" or the checkout was touched while the run read it.              *)
ReproducibleWhenCalm ==
    \A i \in 2 .. Len(Branch) :
        ~Branch[i].dirty /\ Branch[i].calm => Branch[i].tree = checkout.commits[Branch[i].sha]

PublishedIsAuthored == TagNamesItsVersion /\ ReproducibleWhenCalm

(* The same without that exception (publish_extension.py, "the published    *)
(* tree must be reproducible from the commit its message names").           *)
Reproducible ==
    \A i \in 2 .. Len(Branch) :
        ~Branch[i].dirty => Branch[i].tree = checkout.commits[Branch[i].sha]
=============================================================================
