-------------------------- MODULE BlocksWorkspace --------------------------
(***************************************************************************)
(* blocks_env.py: the local blocks editor with the extension in it.  The    *)
(* tool lays out projects/ on disk, installs, starts pxt serve and opens    *)
(* the editor; it is run again and again over what earlier runs, an         *)
(* interrupted one, the editor and its user left there.                     *)
(***************************************************************************)
EXTENDS Integers, FiniteSets

CONSTANTS
    BlocksArgs,     \* command lines [reset, add, open, stop]
    BlocksRuns      \* how often it is run

ASSUME BlocksAssumption ==
    /\ BlocksRuns \in Nat
    /\ BlocksArgs \subseteq [reset : BOOLEAN, add : BOOLEAN, open : BOOLEAN, stop : BOOLEAN]

VARIABLES
    blocksDisk,     \* projects/: the link, the scratch project, the user's own
    pxtServer,      \* who listens on the port
    blocksEditor,   \* the browser tab
    blocksTool      \* this run

blocksVars == <<blocksDisk, pxtServer, blocksEditor, blocksTool>>

Listed == {"main.blocks", "main.ts", "README.md"}
Both == {"scratch", "own"}
\* An own project is one the editor's New Project button made.
NoProject == [there |-> FALSE, files |-> {}, pxt |-> "none", dep |-> "none", installed |-> FALSE,
              work |-> FALSE, lost |-> FALSE, history |-> FALSE, cutShort |-> FALSE]
OwnProject == [NoProject EXCEPT !.there = TRUE, !.files = Listed, !.pxt = "whole"]

Target == IF blocksTool.args.add THEN "own" ELSE "scratch"
Project == blocksDisk[Target]
Write(project) == blocksDisk' = [blocksDisk EXCEPT ![Target] = project]

On(step) == blocksTool.at = step
Then(step) == blocksTool' = [blocksTool EXCEPT !.at = step]
Exits(how) == blocksTool' = [blocksTool EXCEPT !.at = "done", !.exit = how]
OnDisk == UNCHANGED <<pxtServer, blocksEditor>>

-----------------------------------------------------------------------------

\* main(), up to its first step.
Launch ==
    /\ On("done") /\ blocksTool.runs < BlocksRuns
    /\ \E args \in BlocksArgs :
         blocksTool' = [blocksTool EXCEPT !.args = args, !.runs = @ + 1, !.exit = "none", !.mine = FALSE,
                          !.at = IF args.stop THEN "stop" ELSE "link", !.fresh = FALSE,
                          !.wrote = {}]
    /\ UNCHANGED <<blocksDisk, pxtServer, blocksEditor>>

\* link_extension(): a link of another target is replaced, anything else not.
link_extension ==
    /\ On("link")
    /\ IF blocksDisk.link = "directory" THEN Exits("refused") /\ UNCHANGED blocksDisk
       ELSE /\ blocksDisk' = [blocksDisk EXCEPT !.link = ".."]
            /\ Then(IF blocksTool.args.add THEN "has project" ELSE "make")
    /\ OnDisk

\* --add-extension wants a project.
has_project ==
    /\ On("has project")
    /\ IF Project.pxt = "none" THEN Exits("refused") ELSE Then("dependency")
    /\ UNCHANGED blocksDisk /\ OnDisk

\* make_consumer(): the directory, then its files one after another.
\* Mutant: the starter files are written whenever it runs.
Starts_Always(fresh, reset) == TRUE
Starts(fresh, reset) == fresh \/ reset

make_directory ==
    /\ On("make")
    /\ blocksTool' = [blocksTool EXCEPT !.fresh = ~Project.there,
                        !.at = IF Starts(~Project.there, blocksTool.args.reset) THEN "starter" ELSE "pxt.json"]
    /\ Write([Project EXCEPT !.there = TRUE])
    /\ OnDisk

starter_file ==
    /\ On("starter")
    /\ \E file \in Listed :
         /\ file \notin blocksTool.wrote
         /\ Write([Project EXCEPT !.files = @ \cup {file},
                                  !.work = @ /\ file # "main.blocks",
                                  !.lost = @ \/ (file = "main.blocks" /\ Project.work /\ ~blocksTool.args.reset)])
         /\ blocksTool' = [blocksTool EXCEPT !.wrote = IF @ \cup {file} = Listed THEN {} ELSE @ \cup {file},
                             !.at = IF blocksTool.wrote \cup {file} = Listed THEN "pxt.json" ELSE @]
    /\ OnDisk

pxt_json ==
    /\ On("pxt.json")
    /\ Write(IF Project.pxt = "none" THEN [Project EXCEPT !.pxt = "whole", !.dep = "none"] ELSE Project)
    /\ Then("dependency")
    /\ OnDisk

\* set_dependency(): read, and rewritten in place unless it already points there.
\* Mutant: any entry of that name will do.
Points_Any(dep) == dep # "none"
Points(dep) == dep = "link"
set_dependency ==
    /\ On("dependency")
    /\ IF Project.pxt = "torn" THEN Exits("traceback") /\ UNCHANGED blocksDisk
       ELSE IF Points(Project.dep) THEN Then("history") /\ UNCHANGED blocksDisk
       ELSE /\ Write([Project EXCEPT !.pxt = "torn"])
            /\ Then("rewriting")
    /\ OnDisk
rewritten ==
    /\ On("rewriting")
    /\ Write([Project EXCEPT !.pxt = "whole", !.dep = "link", !.installed = FALSE])
    /\ Then("history")
    /\ OnDisk

\* clear_history(), of the scratch project only.
clear_history ==
    /\ On("history")
    /\ Write(IF blocksTool.args.add THEN Project ELSE [Project EXCEPT !.history = FALSE])
    /\ Then("install")
    /\ OnDisk

pxt_install ==
    /\ On("install")
    /\ \/ Exits("install failed") /\ UNCHANGED blocksDisk
       \/ /\ Write([Project EXCEPT !.installed = TRUE])
          /\ IF blocksTool.args.add THEN Exits("ok") ELSE Then("serve")
    /\ OnDisk

\* port_open(), on every address family.
port_open(by) == by # "nobody"

reuse_server ==
    /\ On("serve") /\ port_open(pxtServer.by)
    /\ Then("open")
    /\ UNCHANGED <<blocksDisk, pxtServer, blocksEditor>>

\* start_server(): it says its token, or does not, or never opens the port.
start_server ==
    /\ On("serve") /\ ~port_open(pxtServer.by)
    /\ \/ \E token \in BOOLEAN :
            /\ pxtServer' = [by |-> "pxt", token |-> token]
            /\ blocksTool' = [blocksTool EXCEPT !.at = "open", !.mine = TRUE]
       \/ Exits("never opened") /\ UNCHANGED pxtServer
    /\ UNCHANGED <<blocksDisk, blocksEditor>>

\* open_editor(): a page with the token rewrites its own address, and the
\* query with it; the page after it stays on the file system.  Whoever listens
\* on the port is behind the tab: only pxt serve has the project to save to.
\* Mutant: one page is enough.
Pages_Once(token) == IF token THEN <<"token">> ELSE <<"fs">>
Pages(token) == IF token THEN <<"token", "fs">> ELSE <<"fs">>
LastPage(pages) == pages[Cardinality(DOMAIN pages)]

open_editor ==
    /\ On("open")
    /\ IF blocksTool.args.open
         THEN blocksEditor' = [store |-> CASE pxtServer.by # "pxt" -> "none"
                                            [] LastPage(Pages(blocksTool.mine /\ pxtServer.token)) = "token" -> "browser"
                                            [] OTHER -> IF blocksDisk.scratch.history THEN "memory" ELSE "disk",
                               behind |-> pxtServer.by,
                               tabs |-> blocksEditor.tabs \cup {blocksTool.runs}]
         ELSE UNCHANGED blocksEditor
    /\ IF blocksTool.mine THEN Then("serving") ELSE Exits("ok")
    /\ UNCHANGED <<blocksDisk, pxtServer>>

\* Ctrl-C ends the server it started; elsewhere it cuts the run short.
interrupt ==
    /\ ~On("done")
    /\ Exits(IF On("serving") THEN "ok" ELSE "interrupted")
    /\ pxtServer' = IF On("serving") THEN [by |-> "nobody", token |-> FALSE] ELSE pxtServer
    /\ blocksDisk' = IF On("starter") /\ blocksTool.fresh
                       THEN [blocksDisk EXCEPT ![Target].cutShort = TRUE] ELSE blocksDisk
    /\ UNCHANGED blocksEditor
\* It goes on in its terminal while the next run begins in another.
left_serving ==
    /\ On("serving") /\ Exits("ok") /\ UNCHANGED <<blocksDisk, pxtServer, blocksEditor>>

pxt_ends ==
    /\ pxtServer.by = "pxt" /\ pxtServer' = [by |-> "nobody", token |-> FALSE]
    /\ IF On("serving") THEN Exits("ok") ELSE UNCHANGED blocksTool
    /\ UNCHANGED <<blocksDisk, blocksEditor>>

\* --stop: whoever listens there.
stop_server ==
    /\ On("stop") /\ Exits("ok")
    /\ pxtServer' = [by |-> "nobody", token |-> FALSE]
    /\ UNCHANGED <<blocksDisk, blocksEditor>>

-----------------------------------------------------------------------------
(* The user and the editor, between the runs and during them. *)

\* The user works in a tab that saves to disk; the editor keeps a history.
edit ==
    /\ blocksEditor.store = "disk" /\ pxtServer.by = "pxt" /\ blocksDisk.scratch.there
    /\ blocksDisk' = [blocksDisk EXCEPT !.scratch.work = "main.blocks" \in blocksDisk.scratch.files,
                                        !.scratch.history = TRUE]
    /\ UNCHANGED <<pxtServer, blocksEditor, blocksTool>>
close_tabs ==
    /\ On("done") /\ blocksEditor.tabs # {}
    /\ blocksEditor' = [store |-> "none", behind |-> "nobody", tabs |-> {}]
    /\ UNCHANGED <<blocksDisk, pxtServer, blocksTool>>

\* Another checkout, another tool: what the first run may find.
Disks ==
    {[link |-> link, scratch |-> scratch, own |-> own] :
        link \in {"none", "..", "elsewhere", "directory"},
        scratch \in {NoProject, [OwnProject EXCEPT !.dep = "climbs", !.work = TRUE, !.history = TRUE]},
        own \in {NoProject, OwnProject}}

BlocksInit ==
    /\ blocksDisk \in Disks
    /\ pxtServer \in {[by |-> by, token |-> FALSE] : by \in {"nobody", "stranger"}}
    /\ blocksEditor = [store |-> "none", behind |-> "nobody", tabs |-> {}]
    /\ blocksTool = [at |-> "done", args |-> [reset |-> FALSE, add |-> FALSE, open |-> FALSE, stop |-> FALSE],
                     runs |-> 0, exit |-> "none", fresh |-> FALSE, wrote |-> {}, mine |-> FALSE]

BlocksNext ==
    \/ Launch \/ link_extension \/ has_project \/ make_directory \/ starter_file \/ pxt_json
    \/ set_dependency \/ rewritten \/ clear_history \/ pxt_install
    \/ reuse_server \/ start_server \/ open_editor \/ interrupt \/ left_serving \/ pxt_ends \/ stop_server
    \/ edit \/ close_tabs

BlocksSpec == BlocksInit /\ [][BlocksNext]_blocksVars

-----------------------------------------------------------------------------
(* Types. *)
BlocksTypeOK ==
    /\ blocksDisk.link \in {"none", "..", "elsewhere", "directory"}
    /\ \A p \in Both : blocksDisk[p].files \subseteq Listed /\ blocksDisk[p].pxt \in {"none", "torn", "whole"}
    /\ pxtServer.by \in {"nobody", "pxt", "stranger"}
    /\ blocksEditor.tabs \subseteq 1 .. BlocksRuns
    /\ blocksTool.wrote \subseteq Listed /\ blocksTool.runs \in 0 .. BlocksRuns

Ready == (blocksTool.exit = "ok" /\ ~blocksTool.args.stop) \/ On("serving")

(* A run that ends well leaves a project whose dependency goes through the  *)
(* link, installed after it was set, and with every file its list names     *)
(* unless an earlier run was cut short while it made them.                  *)
ProjectIsComplete ==
    Ready =>
        /\ blocksDisk.link = ".."
        /\ Project.pxt = "whole" /\ Project.dep = "link" /\ Project.installed
        /\ Project.files = Listed \/ Project.cutShort

(* Blocks the user has made are overwritten only when a reset is asked for, *)
(* whatever state an earlier run left the project in.                       *)
NoWorkIsLost == ~blocksDisk.scratch.lost

(* The tab a run opened on a pxt serve, the run's own or one it found,      *)
(* saves to disk, if no tab of an earlier run wrote a history after it was  *)
(* cleared.  open_editor() reuses any listener: of a tab opened on another  *)
(* program, or after the server has ended, this says nothing.               *)
SavesReachDisk ==
    Ready /\ blocksTool.args.open /\ ~blocksTool.args.add
    /\ blocksEditor.tabs = {blocksTool.runs} /\ blocksEditor.behind = "pxt"
        => blocksEditor.store = "disk"

WorkspaceIsSound == ProjectIsComplete /\ NoWorkIsLost /\ SavesReachDisk
=============================================================================
