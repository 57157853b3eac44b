------------------------------- MODULE Logbook -------------------------------
(***************************************************************************)
(* The logbook (logbook.py): pages of cells kept as files, edited by       *)
(* processes that do not know of each other -- the logbook commands, the   *)
(* notes that init() and log_artifact() make, publish -- and pushed to a   *)
(* static Space by publish and by the processes that an edit starts.       *)
(*                                                                         *)
(* A command reads a file and later writes the whole of it back; only a    *)
(* cell is appended.  Nothing but the push of the sync workers is locked.  *)
(***************************************************************************)
EXTENDS Naturals, FiniteSets

CONSTANTS Editors,     \* processes that edit, one command after another
          Pushers,     \* slots of sync workers
          NoPusher,
          Cells,       \* the cells that may be written
          PageOf,      \* the page each is meant for
          LinkOf,      \* the local dashboard or artifact each links to, or
          NoLink,
          Dashboards,  \* the links that are dashboards
          Cloned,      \* the cells, without links, of a logbook that was cloned
          Noted,       \* the cells that auto_note_dashboard writes
          NoPage,
          MaxRewrites, \* publications and pins
          MaxPushFaults

ASSUME LogbookAssumption ==
    /\ NoPusher \notin Pushers
    /\ Cloned \subseteq Cells /\ Noted \cap Cloned = {}

VARIABLES meta,      \* metadata.json: local links, those placed on a Space, autosync, last page
          pages,     \* per page, whether it is made and the cells in it
          toc,       \* pages with a row in index.md
          editor,    \* per editor, what it does and the copies it works on
          pending,   \* .sync_pending exists
          lock,      \* who holds .sync_lock
          pusher,    \* per sync worker, what it does
          space,     \* the pages the Space shows
          mishaps,   \* what went wrong beside the commands
          pushFaults, cellsWritten, rewrites

asked == <<cellsWritten, rewrites>>

bookVars == <<meta, pages, toc, editor, pending, lock, pusher, space, mishaps, pushFaults, asked>>

BookPages == {PageOf[c] : c \in Cells}

Links == {LinkOf[c] : c \in Cells} \ {NoLink}

Blank == [made |-> FALSE, cells |-> {}]

NoPages == [p \in BookPages |-> Blank]

NoMeta == [known |-> {}, placed |-> {}, auto |-> FALSE, last |-> NoPage]

Resting == [op |-> "none", pc |-> "idle", page |-> NoPage, cell |-> NoLink, link |-> NoLink,
            meta |-> NoMeta, seen |-> NoMeta, text |-> {}, shot |-> NoPages, todo |-> {},
            left |-> {}, prior |-> FALSE, began |-> {}, skipped |-> {}]

\* create_logbook, or clone_logbook: published before, its last page not known.
Origins == {NoPages, [p \in BookPages |-> LET cells == {c \in Cloned : PageOf[c] = p} IN
                        [made |-> cells # {}, cells |-> {[cell |-> c, local |-> FALSE] : c \in cells}]]}

BookInit == \E origin \in Origins :
    /\ meta = [NoMeta EXCEPT !.auto = origin # NoPages]
    /\ pages = origin
    /\ toc = {p \in BookPages : origin[p].made}
    /\ editor = [e \in Editors |-> Resting]
    /\ pending = FALSE
    /\ lock = NoPusher
    /\ pusher = [w \in Pushers |-> [pc |-> "idle", text |-> NoPages]]
    /\ space = origin
    /\ mishaps = {}
    /\ pushFaults = 0
    /\ cellsWritten = {} /\ rewrites = 0

On(e, op, pc) == editor[e].op \in op /\ editor[e].pc = pc

Idle(e) == editor[e].pc \in {"idle", "done", "failed"}

To(e, pc) == editor' = [editor EXCEPT ![e].pc = pc]

\* What is written replaces something newer than what was read.
Clobbers(stale, what) == mishaps' = mishaps \cup (IF stale THEN {what} ELSE {})

-----------------------------------------------------------------------------
(* metadata.json is read and then written whole. *)

ReadMeta(e, op, pc, next) ==
    /\ On(e, op, pc)
    /\ editor' = [editor EXCEPT ![e].pc = next, ![e].meta = meta, ![e].seen = meta]
    /\ UNCHANGED <<meta, pages, toc, pending, lock, pusher, space, mishaps, pushFaults, asked>>

WriteMeta(e, op, pc, new, next) ==
    /\ On(e, op, pc)
    /\ meta' = new
    /\ Clobbers(meta # editor[e].seen, "meta")
    /\ editor' = [editor EXCEPT ![e].pc = next, ![e].meta = NoMeta, ![e].seen = NoMeta]
    /\ UNCHANGED <<pages, toc, pending, lock, pusher, space, pushFaults, asked>>

Copy(e) == editor[e].meta

\* _remember_page
Remembering(e) == [Copy(e) EXCEPT !.last = editor[e].page]

\* register_local
Registering(e) == [Copy(e) EXCEPT !.known = @ \cup ({editor[e].link} \ {NoLink})]

-----------------------------------------------------------------------------
(* A cell: find or make its page, register its link, append it. *)

BeginCell(e, c) ==
    /\ Idle(e)
    /\ c \notin Noted \cup Cloned \cup cellsWritten
    /\ cellsWritten' = cellsWritten \cup {c}
    /\ editor' = [editor EXCEPT ![e] = [Resting EXCEPT !.op = "cell", !.pc = "find", !.cell = c,
                                                      !.page = PageOf[c], !.link = LinkOf[c]]]
    /\ UNCHANGED <<meta, pages, toc, pending, lock, pusher, space, mishaps, pushFaults, rewrites>>

\* auto_note_dashboard writes to the last page, unless the dashboard is there.
BeginNote(e, c) ==
    /\ Idle(e)
    /\ c \in Noted \ cellsWritten
    /\ cellsWritten' = cellsWritten \cup {c}
    /\ meta.last # NoPage
    /\ \A n \in pages[meta.last].cells : LinkOf[n.cell] # LinkOf[c]
    /\ editor' = [editor EXCEPT ![e] = [Resting EXCEPT !.op = "cell", !.pc = "register", !.cell = c,
                                                      !.page = meta.last, !.link = LinkOf[c]]]
    /\ UNCHANGED <<meta, pages, toc, pending, lock, pusher, space, mishaps, pushFaults, rewrites>>

\* ensure_page
EnsurePage(e) ==
    /\ On(e, {"cell"}, "find")
    /\ To(e, IF pages[editor[e].page].made THEN "recall" ELSE "create")
    /\ UNCHANGED <<meta, pages, toc, pending, lock, pusher, space, mishaps, pushFaults, asked>>

\* add_page writes the title: what another has written since is gone.
AddPage(e) ==
    /\ On(e, {"cell"}, "create")
    /\ pages' = [pages EXCEPT ![editor[e].page] = [made |-> TRUE, cells |-> {}]]
    /\ Clobbers(pages[editor[e].page].cells # {}, "text")
    /\ To(e, "list")
    /\ UNCHANGED <<meta, toc, pending, lock, pusher, space, pushFaults, asked>>

ReadIndex(e) ==
    /\ On(e, {"cell"}, "list")
    /\ editor' = [editor EXCEPT ![e].pc = "row", ![e].left = toc]
    /\ UNCHANGED <<meta, pages, toc, pending, lock, pusher, space, mishaps, pushFaults, asked>>

InsertTocRow(e) ==
    /\ On(e, {"cell"}, "row")
    /\ toc' = editor[e].left \cup {editor[e].page}
    /\ Clobbers(toc # editor[e].left, "index")
    /\ editor' = [editor EXCEPT ![e].pc = "recall", ![e].left = {}]
    /\ UNCHANGED <<meta, pages, pending, lock, pusher, space, pushFaults, asked>>

\* Faulty variant: the link is registered after the cell is appended.
CellMetaRegistersLast(e) ==
    \/ ReadMeta(e, {"cell"}, "recall", "recalled")
    \/ WriteMeta(e, {"cell"}, "recalled", Remembering(e), "append")
    \/ ReadMeta(e, {"cell"}, "remember", "remembered")
    \/ WriteMeta(e, {"cell"}, "remembered", Remembering(e), "register")
    \/ ReadMeta(e, {"cell"}, "register", "registered")
    \/ WriteMeta(e, {"cell"}, "registered", Registering(e), "trigger")

\* The steps of a cell that update metadata.json.
CellMeta(e) ==
    \/ ReadMeta(e, {"cell"}, "recall", "recalled")
    \/ WriteMeta(e, {"cell"}, "recalled", Remembering(e), "register")
    \/ ReadMeta(e, {"cell"}, "register", "registered")
    \/ WriteMeta(e, {"cell"}, "registered", Registering(e), "append")
    \/ ReadMeta(e, {"cell"}, "remember", "remembered")
    \/ WriteMeta(e, {"cell"}, "remembered", Remembering(e), "trigger")

NewCell(e) == [cell |-> editor[e].cell, local |-> editor[e].link # NoLink]

\* _append_cell
AppendCell(e) ==
    /\ On(e, {"cell"}, "append")
    /\ pages' = [pages EXCEPT ![editor[e].page].cells = @ \cup {NewCell(e)}]
    /\ To(e, "remember")
    /\ UNCHANGED <<meta, toc, pending, lock, pusher, space, mishaps, pushFaults, asked>>

\* trigger_autosync leaves .sync_pending and starts a worker.
TriggerAutosync(e) ==
    /\ On(e, {"cell", "pin"}, "trigger")
    /\ editor' = [editor EXCEPT ![e] = [Resting EXCEPT !.pc = "done"]]
    /\ IF meta.auto
       THEN \E w \in Pushers :
               /\ pusher[w].pc = "idle"
               /\ pusher' = [pusher EXCEPT ![w].pc = "start"]
               /\ pending' = TRUE
               /\ Clobbers(\E h \in Pushers : pusher[h].pc = "unlock", "missed")
       ELSE UNCHANGED <<pending, pusher, mishaps>>
    /\ UNCHANGED <<meta, pages, toc, lock, space, pushFaults, asked>>

-----------------------------------------------------------------------------
(* set_cell_pinned reads the page and writes the whole of it. *)

BeginPin(e, p) ==
    /\ Idle(e)
    /\ pages[p].cells # {}
    /\ rewrites < MaxRewrites /\ rewrites' = rewrites + 1
    /\ editor' = [editor EXCEPT ![e] = [Resting EXCEPT !.op = "pin", !.pc = "pin", !.page = p,
                                                      !.text = pages[p].cells]]
    /\ UNCHANGED <<meta, pages, toc, pending, lock, pusher, space, mishaps, pushFaults,
                   cellsWritten>>

SetCellPinned(e) ==
    /\ On(e, {"pin"}, "pin")
    /\ pages' = [pages EXCEPT ![editor[e].page].cells = editor[e].text]
    /\ Clobbers(pages[editor[e].page].cells # editor[e].text, "text")
    /\ editor' = [editor EXCEPT ![e].pc = "trigger", ![e].text = {}]
    /\ UNCHANGED <<meta, toc, pending, lock, pusher, space, pushFaults, asked>>

-----------------------------------------------------------------------------
(* publish *)

AllCells == UNION {{n.cell : n \in pages[p].cells} : p \in BookPages}

BeginPublish(e) ==
    /\ Idle(e)
    /\ rewrites < MaxRewrites /\ rewrites' = rewrites + 1
    /\ \A o \in Editors : Idle(o) \/ editor[o].op # "publish"
    /\ editor' = [editor EXCEPT ![e] = [Resting EXCEPT !.op = "publish", !.pc = "begin",
                                                      !.began = AllCells]]
    /\ UNCHANGED <<meta, pages, toc, pending, lock, pusher, space, mishaps, pushFaults,
                   cellsWritten>>

\* The links to promote now: the dashboards, and then the artifacts.
Turn(e) == IF editor[e].todo \cap Dashboards # {} THEN editor[e].todo \cap Dashboards
           ELSE editor[e].todo

\* What _promote_local_deps reads: the links known, some of them placed.
BeginPromote(e) ==
    /\ On(e, {"publish"}, "promote")
    /\ editor' = [editor EXCEPT ![e].pc = "next", ![e].meta = meta, ![e].seen = meta,
                                ![e].todo = meta.known]
    /\ UNCHANGED <<meta, pages, toc, pending, lock, pusher, space, mishaps, pushFaults, asked>>

\* A dashboard is synced unless it is placed, an artifact is uploaded again.
Promote(e, d) ==
    /\ On(e, {"publish"}, "next")
    /\ d \in Turn(e)
    /\ editor' = [editor EXCEPT ![e].pc = "rewrite", ![e].link = d, ![e].todo = @ \ {d},
                                ![e].meta.placed = @ \cup {d}, ![e].left = BookPages]
    /\ UNCHANGED <<meta, pages, toc, pending, lock, pusher, space, mishaps, pushFaults, asked>>

\* A dashboard that is not synced is left; an upload that fails leaves the
\* artifacts.  publish goes on.
PromoteFails(e, d) ==
    /\ On(e, {"publish"}, "next")
    /\ d \in Turn(e)
    /\ d \in Dashboards => d \notin Copy(e).placed
    /\ pushFaults < MaxPushFaults
    /\ pushFaults' = pushFaults + 1
    /\ LET left == IF d \in Dashboards THEN {d} ELSE editor[e].todo IN
       editor' = [editor EXCEPT ![e].todo = @ \ left, ![e].skipped = @ \cup left]
    /\ UNCHANGED <<meta, pages, toc, pending, lock, pusher, space, mishaps, asked>>

Names(e, p) == \E n \in pages[p].cells : n.local /\ LinkOf[n.cell] = editor[e].link

\* _rewrite_in_pages reads a page, for the local link...
RewriteReads(e, p) ==
    /\ On(e, {"publish"}, "rewrite")
    /\ p \in editor[e].left
    /\ editor' = [editor EXCEPT ![e].left = @ \ {p}, ![e].pc = IF Names(e, p) THEN "replace" ELSE @,
                                ![e].page = p, ![e].text = IF Names(e, p) THEN pages[p].cells ELSE {}]
    /\ UNCHANGED <<meta, pages, toc, pending, lock, pusher, space, mishaps, pushFaults, asked>>

Replaced(e, n) == IF LinkOf[n.cell] = editor[e].link THEN [n EXCEPT !.local = FALSE] ELSE n

\* ... and writes it, if it has it.
RewriteReplaces(e) ==
    /\ On(e, {"publish"}, "replace")
    /\ pages' = [pages EXCEPT ![editor[e].page].cells = {Replaced(e, n) : n \in editor[e].text}]
    /\ Clobbers(pages[editor[e].page].cells # editor[e].text, "text")
    /\ editor' = [editor EXCEPT ![e].pc = "rewrite", ![e].text = {}]
    /\ UNCHANGED <<meta, toc, pending, lock, pusher, space, pushFaults, asked>>

RewriteEnds(e) ==
    /\ On(e, {"publish"}, "rewrite")
    /\ editor[e].left = {}
    /\ editor' = [editor EXCEPT ![e].pc = "next", ![e].link = NoLink, ![e].page = NoPage]
    /\ UNCHANGED <<meta, pages, toc, pending, lock, pusher, space, mishaps, pushFaults, asked>>

PublishMeta(e) ==
    \/ /\ On(e, {"publish"}, "begin")
       /\ editor' = [editor EXCEPT ![e].pc = "began", ![e].meta = meta, ![e].seen = meta,
                                   ![e].prior = meta.auto]
       /\ UNCHANGED <<meta, pages, toc, pending, lock, pusher, space, mishaps, pushFaults, asked>>
    \/ WriteMeta(e, {"publish"}, "began", [Copy(e) EXCEPT !.auto = TRUE], "promote")
    \/ editor[e].todo = {} /\ WriteMeta(e, {"publish"}, "next", Copy(e), "push")
    \/ ReadMeta(e, {"publish"}, "revert", "reverted")
    \/ WriteMeta(e, {"publish"}, "reverted", [Copy(e) EXCEPT !.auto = editor[e].prior], "failed")

\* _push by publish reads the files...
PublishReads(e) ==
    /\ On(e, {"publish"}, "push")
    /\ editor' = [editor EXCEPT ![e].pc = "commit", ![e].shot = pages]
    /\ UNCHANGED <<meta, pages, toc, pending, lock, pusher, space, mishaps, pushFaults, asked>>

Committing == {w \in Pushers : pusher[w].pc = "commit"}

\* ... and commits them to the Space, maybe beside a worker.
PublishPushes(e) ==
    /\ On(e, {"publish"}, "commit")
    /\ space' = editor[e].shot
    /\ editor' = [editor EXCEPT ![e] = [Resting EXCEPT !.op = "publish", !.pc = "done",
                                         !.began = editor[e].began, !.skipped = editor[e].skipped]]
    /\ Clobbers(Committing # {}, "crossed")
    /\ UNCHANGED <<meta, pages, toc, pending, lock, pusher, pushFaults, asked>>

PublishFails(e) ==
    /\ On(e, {"publish"}, "commit")
    /\ pushFaults < MaxPushFaults
    /\ pushFaults' = pushFaults + 1
    /\ To(e, "revert")
    /\ UNCHANGED <<meta, pages, toc, pending, lock, pusher, space, mishaps, asked>>

-----------------------------------------------------------------------------
(* sync_worker *)

TakeSyncLock(w) ==
    /\ pusher[w].pc = "start"
    /\ IF lock = NoPusher
       THEN lock' = w /\ pusher' = [pusher EXCEPT ![w].pc = "look"]
       ELSE lock' = lock /\ pusher' = [pusher EXCEPT ![w].pc = "idle"]
    /\ UNCHANGED <<meta, pages, toc, editor, pending, space, mishaps, pushFaults, asked>>

\* Faulty variant: the mark is removed after the push.
UnlinkPendingLate(w) ==
    /\ pusher[w].pc = "look"
    /\ pending' = (pending /\ pusher[w].text = NoPages)
    /\ pusher' = [pusher EXCEPT ![w].pc = IF pending' THEN "push" ELSE "unlock",
                              ![w].text = NoPages]
    /\ UNCHANGED <<meta, pages, toc, editor, lock, space, mishaps, pushFaults, asked>>

\* The mark is removed before the push it asks for.
UnlinkPending(w) ==
    /\ pusher[w].pc = "look"
    /\ pending' = FALSE
    /\ pusher' = [pusher EXCEPT ![w].pc = IF pending THEN "push" ELSE "unlock",
                              ![w].text = NoPages]
    /\ UNCHANGED <<meta, pages, toc, editor, lock, space, mishaps, pushFaults, asked>>

WorkerReads(w) ==
    /\ pusher[w].pc = "push"
    /\ pusher' = [pusher EXCEPT ![w].pc = "commit", ![w].text = pages]
    /\ UNCHANGED <<meta, pages, toc, editor, pending, lock, space, mishaps, pushFaults, asked>>

WorkerPushes(w) ==
    /\ pusher[w].pc = "commit"
    /\ space' = pusher[w].text
    /\ pusher' = [pusher EXCEPT ![w].pc = "look"]
    /\ Clobbers(\E e \in Editors : On(e, {"publish"}, "commit"), "crossed")
    /\ UNCHANGED <<meta, pages, toc, editor, pending, lock, pushFaults, asked>>

\* An error of the push is swallowed; a worker may also die.
WorkerFails(w) ==
    /\ pusher[w].pc = "commit"
    /\ pushFaults < MaxPushFaults
    /\ pushFaults' = pushFaults + 1
    /\ mishaps' = mishaps \cup {"failed"}
    /\ \/ pusher' = [pusher EXCEPT ![w].pc = "look"] /\ lock' = lock
       \/ pusher' = [pusher EXCEPT ![w] = [pc |-> "idle", text |-> NoPages]] /\ lock' = NoPusher
    /\ UNCHANGED <<meta, pages, toc, editor, pending, space, asked>>

\* Faulty variant: the lock stays with a worker that found nothing more to push.
EndLocked(w) ==
    /\ pusher[w].pc = "unlock"
    /\ pusher' = [pusher EXCEPT ![w].pc = "idle"]
    /\ UNCHANGED <<meta, pages, toc, editor, pending, lock, space, mishaps, pushFaults, asked>>

ReleaseSyncLock(w) ==
    /\ pusher[w].pc = "unlock"
    /\ lock' = NoPusher
    /\ pusher' = [pusher EXCEPT ![w].pc = "idle"]
    /\ UNCHANGED <<meta, pages, toc, editor, pending, space, mishaps, pushFaults, asked>>

BookNext ==
    \/ \E e \in Editors :
          \/ \E c \in Cells : BeginCell(e, c) \/ BeginNote(e, c)
          \/ EnsurePage(e) \/ AddPage(e) \/ ReadIndex(e) \/ InsertTocRow(e)
          \/ CellMeta(e) \/ AppendCell(e) \/ TriggerAutosync(e)
          \/ \E p \in BookPages : BeginPin(e, p) \/ RewriteReads(e, p)
          \/ SetCellPinned(e)
          \/ BeginPublish(e) \/ PublishMeta(e) \/ BeginPromote(e)
          \/ \E d \in Links : Promote(e, d) \/ PromoteFails(e, d)
          \/ RewriteReplaces(e) \/ RewriteEnds(e)
          \/ PublishReads(e) \/ PublishPushes(e) \/ PublishFails(e)
    \/ \E w \in Pushers : \/ TakeSyncLock(w) \/ UnlinkPending(w) \/ WorkerReads(w)
                         \/ WorkerPushes(w) \/ WorkerFails(w) \/ ReleaseSyncLock(w)

BookSpec == BookInit /\ [][BookNext]_bookVars

-----------------------------------------------------------------------------
(* Properties. *)

BookTypeOK ==
    /\ meta.known \subseteq Links /\ meta.placed \subseteq Links
    /\ \A p \in BookPages : pages[p].cells \subseteq [cell : Cells, local : BOOLEAN]
    /\ toc \subseteq BookPages
    /\ lock # NoPusher => pusher[lock].pc \notin {"idle", "start"}

Quiet == /\ \A e \in Editors : Idle(e)
         /\ \A w \in Pushers : pusher[w].pc = "idle"

\* When nobody works on a published logbook, its Space shows its pages, unless
\* a push failed, a publish pushed beside a worker, an edit asked for a push
\* between the last look of a worker and its release of the lock, or an edit
\* wrote back metadata that a publish had changed.
SpaceShowsBook ==
    Quiet /\ meta.auto /\ pushFaults = 0 /\ mishaps \cap {"missed", "crossed", "meta"} = {}
       => space = pages

\* On the Space, what a publish found has no local links but those it could
\* not promote, unless files were written beside it.
PublishedResolves ==
    \A e \in Editors : editor[e].op = "publish" /\ editor[e].pc = "done" =>
       \A p \in BookPages : \A n \in space[p].cells :
          n.local /\ n.cell \in editor[e].began =>
             LinkOf[n.cell] \in editor[e].skipped \/ mishaps \cap {"meta", "text", "crossed"} # {}

\* Every page has its row in the index, unless two were added at once.
PagesAreListed ==
    Quiet /\ "index" \notin mishaps => \A p \in BookPages : pages[p].made => p \in toc

\* All three: nothing is lost between the logbook, its index and its Space
\* but what the unlocked edits lose.
BookSound == SpaceShowsBook /\ PublishedResolves /\ PagesAreListed

=============================================================================
