---------------------------- MODULE SettingsPages ----------------------------
(***************************************************************************)
(* The settings section (src/src/plugin/client/Section.tsx, dialogs.tsx)   *)
(* over the management routes it reads and writes through                  *)
(* (src/src/plugin/client/index.ts, src/src/plugin/api.ts).                *)
(*                                                                         *)
(* A page shows what its newest read answered.  The two requests of a      *)
(* read are answered in one step here; reads overlap, because a running    *)
(* change polls.  A change is asked from a control of the page or from a   *)
(* dialog, one at a time, and the page may be left meanwhile: what it      *)
(* asked goes on in the host.  The reads a new identity of the props       *)
(* begins (Section.tsx 438-452) are not modelled.                          *)
(***************************************************************************)
EXTENDS Records

CONSTANTS
  HostOf,  \* the host that serves a page
  Polls,   \* slots of the reads besides the one a change ends with
  Reread   \* the read a change ends with

ASSUME PagesAssumption == HostOf \in [Pages -> Hosts] /\ Reread \notin Polls
ASSUME DialogsAssumption == {"none", "machine"} \cap (Machines \cup Repos) = {}

VARIABLES
  page,  \* the section as mounted in each page
  load   \* the reads each page has in flight

pageVars == <<recordVars, page, load>>

-----------------------------------------------------------------------------

Loads == Polls \cup {Reread}

Snapshot == [nodes : SUBSET Machines, repos : SUBSET Repos,
             own   : BOOLEAN]   \* history: with the page's own last change

Unread == [nodes |-> {}, repos |-> {}, own |-> FALSE]

\* A dialog adds a machine, a repository of a machine, or a worktree of one.
Dialogs == {"machine"} \cup Machines \cup Repos

Page == [open   : BOOLEAN,
         shown  : Snapshot,
         error  : BOOLEAN,                   \* the banner tells a failure
         busy   : {"no", "mutate", "submit"},         \* a change, to its reread
         dialog : Dialogs \cup {"none"},
         failed : BOOLEAN,                   \* the dialog tells a failure
         last   : {"none", "done", "failed"},  \* history: the last change asked
         unsaid : BOOLEAN,   \* history: it failed with a read in flight, or its
                             \* dialog closed
         missed : SUBSET Machines]           \* history: shown once, and no more

NewPage == [open |-> TRUE, shown |-> Unread, error |-> FALSE,
            busy |-> "no", dialog |-> "none", failed |-> FALSE, last |-> "none",
            unsaid |-> FALSE, missed |-> {}]

NoPage == [NewPage EXCEPT !.open = FALSE]

Load == [flying : BOOLEAN,
         newest : BOOLEAN,        \* mine === generation.current
         got    : BOOLEAN,        \* the answers came
         found  : Snapshot]

NoLoad == [flying |-> FALSE, newest |-> FALSE, got |-> FALSE, found |-> Unread]

Started == [NoLoad EXCEPT !.flying = TRUE, !.newest = TRUE]

\* A newer read has begun: nothing comes of this one, but that a change may
\* still await its end.
Superseded(l, x) ==
  IF l = Reread /\ x.flying THEN [NoLoad EXCEPT !.flying = TRUE] ELSE NoLoad

BeginBeside(p, l) ==  \* mutant: an older read may still be shown
  [load EXCEPT ![p][l] = Started]

\* refresh: a read begins, and is the newest.
Begin(p, l) ==
  [load EXCEPT ![p] = [i \in Loads |-> IF i = l THEN Started
                                       ELSE Superseded(i, load[p][i])]]

SetPage(p, x) == page' = [page EXCEPT ![p] = x]

Resting(p) == page[p].open /\ page[p].busy = "no"

\* A read whose answer will be shown is in flight.
Reading(p) == \E l \in Loads : load[p][l].newest

SettingsInit ==
  /\ RecordsInit
  /\ page = [p \in Pages |-> NoPage]
  /\ load = [p \in Pages |-> [l \in Loads |-> NoLoad]]

-----------------------------------------------------------------------------
(* Mounting and reading *)

\* The section is mounted, and reads.
OpenPage(p) ==
  /\ ~page[p].open
  /\ SetPage(p, NewPage)
  /\ \E l \in Polls : load' = Begin(p, l)
  /\ UNCHANGED recordVars

\* The section is unmounted: what it asked goes on, and answers nobody.
LeavePage(p) ==
  /\ page[p].open
  /\ SetPage(p, NoPage)
  /\ load' = [load EXCEPT ![p] = [l \in Loads |-> NoLoad]]
  /\ \/ /\ job[p].phase \in {"idle", "answered"}
        /\ SetJob(p, NoJob)
     \/ /\ job[p].phase \notin {"idle", "answered"}
        /\ \E o \in Left : /\ job[o].phase = "idle"
                          /\ job' = [job EXCEPT ![o] = job[p], ![p] = NoJob]
  /\ UNCHANGED <<document, held, minted, calm, astray>>

\* The refresh button.
Refresh(p) ==
  /\ Resting(p)
  /\ page[p].dialog = "none"
  /\ SetPage(p, [page[p] EXCEPT !.last = "none", !.unsaid = FALSE])
  /\ \E l \in Polls : load' = Begin(p, l)
  /\ UNCHANGED recordVars

\* The timer of a change asked from a control; a dialog's has none.
Poll(p) ==
  /\ page[p].open
  /\ page[p].busy = "mutate"
  /\ \E l \in Polls : load' = Begin(p, l)
  /\ UNCHANGED <<recordVars, page>>

\* The host has answered the requests of a read (GET /nodes, GET /repos).
Reads(p, l) ==
  /\ load[p][l].newest
  /\ ~load[p][l].got
  /\ LET has == held[HostOf[p]]
     IN  load' = [load EXCEPT ![p][l] = [@ EXCEPT !.got = TRUE,
           !.found = [nodes |-> has.nodes, repos |-> has.repos, own |-> TRUE]]]
  /\ UNCHANGED <<recordVars, page>>

\* What a read that ended leaves of the page's change.
Ended(x, l) ==
  IF l = Reread THEN [x EXCEPT !.busy = "no", !.dialog = "none"] ELSE x

\* Every answer of the newest read came: it is shown.
Shows(p, l) ==
  LET found == load[p][l].found
  IN  /\ load[p][l].newest
      /\ load[p][l].got
      /\ load' = [load EXCEPT ![p][l] = NoLoad]
      /\ SetPage(p, Ended([page[p] EXCEPT !.error = FALSE, !.shown = found,
           !.missed = @ \cup (page[p].shown.nodes \ found.nodes)], l))
      /\ UNCHANGED recordVars

LoadFailsBusy(p, l) ==  \* mutant: only a read that came ends the change
  /\ load[p][l].flying
  /\ load' = [load EXCEPT ![p][l] = NoLoad]
  /\ SetPage(p, [page[p] EXCEPT !.error = @ \/ load[p][l].newest])
  /\ UNCHANGED recordVars

\* A request of the newest read failed, which is told; or one that a newer
\* read superseded is over, however it went.
LoadFails(p, l) ==
  /\ load[p][l].flying
  /\ load' = [load EXCEPT ![p][l] = NoLoad]
  /\ SetPage(p, Ended([page[p] EXCEPT !.error = @ \/ load[p][l].newest], l))
  /\ UNCHANGED recordVars

-----------------------------------------------------------------------------
(* Changing *)

\* The repositories a page lists: each under its machine.
Listed(x) == {r \in x.shown.repos : On[r] \in x.shown.nodes}

\* The add buttons: of the section, of a machine's card and of a repository.
OpenDialog(p, kind) ==
  /\ Resting(p)
  /\ page[p].dialog = "none"
  /\ kind \in {"machine"} \cup page[p].shown.nodes \cup Listed(page[p])
  /\ SetPage(p, [page[p] EXCEPT !.dialog = kind])
  /\ UNCHANGED <<recordVars, load>>

\* Cancel, which no change disables.
CloseDialog(p) ==
  /\ page[p].dialog # "none"
  /\ SetPage(p, [page[p] EXCEPT !.dialog = "none", !.failed = FALSE,
       !.last = IF page[p].failed THEN "none" ELSE @,
       !.unsaid = @ \/ page[p].busy # "no"])
  /\ UNCHANGED <<recordVars, load>>

\* The controls of a machine's card, and of a repository and its worktrees.
MachineControls(x) == {"removeNode", "other"} \X x.shown.nodes
RepoControls(x) == {"removeRepo", "other"} \X Listed(x)

\* A change begins: the controls are disabled until it is over.
Changes(p, kind, op, of) ==
  /\ Take(p, Asked(HostOf[p], op, of))
  /\ SetPage(p, [page[p] EXCEPT !.busy = kind, !.failed = FALSE,
                                !.last = "none", !.unsaid = FALSE])
  /\ UNCHANGED load

\* mutate: from a control, or from the confirmation behind it.
Mutate(p) ==
  /\ Resting(p)
  /\ page[p].dialog = "none"
  /\ \E c \in MachineControls(page[p]) \cup RepoControls(page[p]) :
       Changes(p, "mutate", c[1], c[2])

SubmitMachine(p) ==
  /\ page[p].dialog = "machine"
  /\ \E m \in Machines \ minted : Changes(p, "submit", "addNode", m)

SubmitRepo(p) ==
  \E r \in Repos : /\ page[p].dialog = On[r]
                   /\ Changes(p, "submit", "addRepo", r)

SubmitWorktree(p) ==
  \E r \in Repos : /\ page[p].dialog = r
                   /\ Changes(p, "submit", "other", r)

\* submit: from a dialog.
Submit(p) == Resting(p) /\ (SubmitMachine(p) \/ SubmitRepo(p) \/ SubmitWorktree(p))

\* The request of the page's change is answered.
Answers(p, ok) ==
  /\ job[p].phase = "answered"
  /\ job[p].ok = ok
  /\ SetJob(p, NoJob)
  /\ UNCHANGED <<document, held, minted, calm, astray>>

\* The change was made: the banner is cleared, unless a dialog asked, and the
\* page reads again.
Done(p) ==
  /\ Answers(p, TRUE)
  /\ SetPage(p, [page[p] EXCEPT !.last = "done",
                                !.error = @ /\ page[p].busy = "submit"])
  /\ load' = Begin(p, Reread)

\* The change failed: the banner tells, or the dialog that asked, while it is
\* open.
Failed(p) ==
  /\ Answers(p, FALSE)
  /\ SetPage(p, [page[p] EXCEPT !.busy = "no", !.last = "failed",
       !.error  = @ \/ page[p].busy = "mutate",
       !.failed = page[p].busy = "submit" /\ page[p].dialog # "none",
       !.unsaid = @ \/ (page[p].busy = "mutate" /\ Reading(p))])
  /\ UNCHANGED load

-----------------------------------------------------------------------------

\* A list of request j's is published: what its page has read is without it.
PublishSeen(j) ==
  /\ Publish(j)
  /\ \/ j \in Left /\ UNCHANGED <<page, load>>
     \/ /\ j \in Pages
        /\ SetPage(j, [page[j] EXCEPT !.shown.own = FALSE])
        /\ load' = [load EXCEPT ![j] =
             [l \in Loads |-> [load[j][l] EXCEPT !.found.own = FALSE]]]

HostStep ==
  \/ \E j \in Jobs : PublishSeen(j)
  \/ /\ \/ \E j \in Jobs : Serves(j)
        \/ \E h \in Hosts : Restart(h)
     /\ UNCHANGED <<page, load>>

LoadStep(p, l) ==
  \/ Reads(p, l)
  \/ Shows(p, l)
  \/ LoadFails(p, l)

PageStep(p) ==
  \/ OpenPage(p) \/ LeavePage(p) \/ Refresh(p) \/ Poll(p) \/ CloseDialog(p)
  \/ \E kind \in Dialogs : OpenDialog(p, kind)
  \/ \E l \in Loads : LoadStep(p, l)
  \/ Mutate(p) \/ Submit(p) \/ Done(p) \/ Failed(p)

SettingsNext == HostStep \/ \E p \in Pages : PageStep(p)

SettingsSpec == SettingsInit /\ [][SettingsNext]_pageVars

-----------------------------------------------------------------------------
(* Safety *)

(* The pages and their reads have their declared shape.                      *)
PageTypeOK == page \in [Pages -> Page] /\ load \in [Pages -> [Loads -> Load]]

(* A page at rest, with no read in flight, tells how its last change ended:  *)
(* it shows the records as that change left them, or a failure; unless the   *)
(* failure came with a read in flight or its dialog closed (unsaid).         *)
TellsTheOutcome ==
  \A p \in Pages : Resting(p) /\ ~Reading(p) =>
    LET x == page[p]
    IN  /\ x.last = "done" => x.error \/ x.shown.own
        /\ x.last = "failed" => x.error \/ x.failed \/ x.unsaid

(* "Only the newest answer may be published" (refresh): with one host whose  *)
(* writes do not overlap, a machine that has gone from a page does not come  *)
(* back to it.                                                               *)
GoneStaysGone ==
  calm => \A p \in Pages : page[p].shown.nodes \cap page[p].missed = {}

(* Page and records agree, whatever reads and changes overlap.               *)
PageInv == PageTypeOK /\ TellsTheOutcome /\ GoneStaysGone

(* "A failure lands in the banner" (mutate), "the dialog shows the failure   *)
(* itself" (submit): a page at rest tells that its last change failed.       *)
FailureTold ==
  \A p \in Pages : Resting(p) /\ page[p].last = "failed" =>
    page[p].error \/ page[p].failed

-----------------------------------------------------------------------------
(* Liveness *)

(* A host serves what it was asked, a machine answers or its request fails,  *)
(* and answers reach their page; nothing is asked of whoever uses the page.  *)
SettingsFairness ==
  /\ \A j \in Jobs : WF_pageVars(\/ PublishSeen(j)
                                \/ (Serves(j) /\ UNCHANGED <<page, load>>))
  /\ \A p \in Pages : /\ \A l \in Loads : WF_pageVars(LoadStep(p, l))
                      /\ WF_pageVars(Done(p) \/ Failed(p))

FairSettingsSpec == SettingsSpec /\ SettingsFairness

(* The controls come back: a page does not stay disabled by a change.        *)
PageSettles == \A p \in Pages : page[p].busy # "no" ~> page[p].busy = "no"

=============================================================================
