------------------------------- MODULE Deploy -------------------------------
(***************************************************************************)
(* Sending what changed to the VM (tools/preprocess/deploy.py and          *)
(* editor.py, `DeployJob`): the job compares the files on this PC with     *)
(* their hashes at the last mark, sends the difference, restarts the       *)
(* server if one of them is read at its start, and marks what is on disk   *)
(* now.  Meanwhile the editor goes on saving, every command over ssh may   *)
(* fail, and browsers keep what they fetched under the asset version the   *)
(* server computed when it started (server/app/catalog.py).                *)
(*                                                                         *)
(* A content is a number, 0 for a file that is not there.                  *)
(***************************************************************************)
EXTENDS Naturals

CONSTANTS
    Files,        \* files the game reads on the VM
    Targets,      \* those deploy.py lists
    ReadAtStart,  \* those whose change it lets restart the server
    Fetched,      \* those a browser fetches and keeps
    Hashed,       \* those whose content is in the asset version
    Bundle,       \* the file `npm run build` makes, one of Targets
    Contents,     \* 0 .. n
    MaxEdits      \* bound: saves on the PC

ASSUME DeployAssumption == Targets \subseteq Files

VARIABLES
    pc,           \* contents on this PC
    marked,       \* contents at the last mark
    vm,           \* contents on the VM
    running,      \* contents the server read when it started
    stale,        \* client/src is newer than the bundle
    job,          \* the deploy that runs: [step, upload, delete, restart, data]
    kept,         \* what the browser keeps: by file, the asset version it was fetched under and the content
    edits,
    slipped,      \* history: files saved after the job read them and marked by it as sent
    half          \* history: files a job that broke off has changed on the VM

deployVars == <<pc, marked, vm, running, stale, job, kept, edits, slipped, half>>

NoJob == [step |-> "none", upload |-> {}, delete |-> {}, restart |-> FALSE, data |-> [f \in Files |-> 0]]

\* The difference to the mark.  A file that is gone is deleted on the VM as well.
Upload == {f \in Targets : pc[f] # 0 /\ pc[f] # marked[f]}
Delete == {f \in Targets : pc[f] = 0 /\ marked[f] # 0}
NeedsRestart(changed) == changed \intersect ReadAtStart # {}

\* A save on this PC, at any time.
Edit(f, c) ==
    /\ edits < MaxEdits /\ edits' = edits + 1
    /\ pc[f] # c
    /\ pc' = [pc EXCEPT ![f] = c]
    /\ UNCHANGED <<marked, vm, running, stale, job, kept, slipped, half>>

EditSource ==
    /\ edits < MaxEdits /\ edits' = edits + 1
    /\ ~stale /\ stale' = TRUE
    /\ UNCHANGED <<pc, marked, vm, running, job, kept, slipped, half>>

\* Everything by hand (deploy/sync.sh), then "올렸음".
SyncByHand ==
    /\ job.step = "none" /\ ~stale
    /\ vm' = pc /\ running' = pc
    /\ marked' = [f \in Files |-> IF f \in Targets THEN pc[f] ELSE marked[f]]
    /\ slipped' = {} /\ half' = {}
    /\ UNCHANGED <<pc, stale, job, kept, edits>>

\* The button: one job at a time, the bundle first; with nothing to send the job ends at once.
StartDeploy ==
    /\ job.step = "none"
    /\ job' = [NoJob EXCEPT !.step = IF stale THEN "bundle" ELSE "list"]
    /\ UNCHANGED <<pc, marked, vm, running, stale, kept, edits, slipped, half>>

BuildBundle ==
    /\ job.step = "bundle"
    /\ \/ \E c \in Contents \ {0} :
             /\ pc' = [pc EXCEPT ![Bundle] = c]
             /\ stale' = FALSE
             /\ job' = [job EXCEPT !.step = "list"]
       \/ job' = NoJob /\ UNCHANGED <<pc, stale>>
    /\ UNCHANGED <<marked, vm, running, kept, edits, slipped, half>>

ListChanges ==
    /\ job.step = "list"
    /\ job' = IF Upload \union Delete = {} THEN NoJob
              ELSE [job EXCEPT !.step = "pack", !.upload = Upload, !.delete = Delete, !.data = pc,
                               !.restart = NeedsRestart(Upload \union Delete)]
    /\ UNCHANGED <<pc, marked, vm, running, stale, kept, edits, slipped, half>>

\* The files are read into one archive; one that is gone by now ends the job.
Pack ==
    /\ job.step = "pack"
    /\ job' = IF \E f \in job.upload : pc[f] = 0 THEN NoJob
              ELSE [job EXCEPT !.step = "send", !.data = [f \in Files |-> IF f \in job.upload THEN pc[f] ELSE @[f]]]
    /\ UNCHANGED <<pc, marked, vm, running, stale, kept, edits, slipped, half>>

\* (for a mutant: the exit code is not looked at)
AfterAnyway(step, ok) == [job EXCEPT !.step = step]
\* What the job does after a command ended well or not.
After(step, ok) == IF ok THEN [job EXCEPT !.step = step] ELSE NoJob

Landed(landed) == [f \in Files |-> IF f \in landed THEN job.data[f] ELSE vm[f]]

\* A connection that breaks leaves the part of the archive that was unpacked.
Send ==
    /\ job.step = "send"
    /\ \E landed \in SUBSET job.upload :
          /\ vm' = Landed(landed)
          /\ job' = After("delete", landed = job.upload)
          /\ half' = IF landed = job.upload THEN half ELSE half \union landed
    /\ UNCHANGED <<pc, marked, running, stale, kept, edits, slipped>>

Remove ==
    /\ job.step = "delete"
    /\ \E ok \in BOOLEAN :
          /\ ok \/ job.delete # {}
          /\ vm' = IF ok THEN [f \in Files |-> IF f \in job.delete THEN 0 ELSE vm[f]] ELSE vm
          /\ job' = After("restart", ok)
          /\ half' = IF ok THEN half ELSE half \union job.upload
    /\ UNCHANGED <<pc, marked, running, stale, kept, edits, slipped>>

RestartServer ==
    /\ job.step = "restart"
    /\ \E ok \in BOOLEAN :
          /\ ok \/ job.restart
          /\ running' = IF ok /\ job.restart THEN vm ELSE running
          /\ job' = After("mark", ok)
          /\ half' = IF ok THEN half ELSE half \union job.upload \union job.delete
    /\ UNCHANGED <<pc, marked, vm, stale, kept, edits, slipped>>

\* The disk is hashed once more: what was saved during the job is marked as sent.
Mark ==
    /\ job.step = "mark"
    /\ marked' = [f \in Files |-> IF f \in Targets THEN pc[f] ELSE marked[f]]
    /\ half' = half \ (job.upload \union job.delete)
    /\ slipped' = (slipped \ (job.upload \union job.delete)) \union {f \in Targets : pc[f] # job.data[f]}
    /\ job' = NoJob
    /\ UNCHANGED <<pc, vm, running, stale, kept, edits>>

\* systemd starts the server again.
VmRestart ==
    /\ running' = vm
    /\ UNCHANGED <<pc, marked, vm, stale, job, kept, edits, slipped, half>>

\* The page is loaded: what was fetched under this asset version is not fetched again.
AssetVersion == [f \in Hashed |-> running[f]]
Seen(f) == IF kept[f].under = AssetVersion THEN kept[f].content ELSE vm[f]
Reload ==
    /\ kept' = [f \in Fetched |-> [under |-> AssetVersion, content |-> Seen(f)]]
    /\ UNCHANGED <<pc, marked, vm, running, stale, job, edits, slipped, half>>

DeployInit ==
    /\ pc = [f \in Files |-> 1] /\ marked = [f \in Files |-> IF f \in Targets THEN 1 ELSE 0]
    /\ vm = pc /\ running = pc
    /\ stale = FALSE
    /\ job = NoJob
    /\ kept = [f \in Fetched |-> [under |-> AssetVersion, content |-> 1]]
    /\ edits = 0 /\ slipped = {} /\ half = {}

DeployNext ==
    \/ \E f \in Files, c \in Contents : Edit(f, c)
    \/ EditSource \/ SyncByHand
    \/ StartDeploy \/ BuildBundle \/ ListChanges \/ Pack \/ Send \/ Remove \/ RestartServer \/ Mark
    \/ VmRestart \/ Reload

DeploySpec == DeployInit /\ [][DeployNext]_deployVars
-----------------------------------------------------------------------------
(* Properties. *)

\* Between jobs a file that the report calls unchanged is on the VM as it is here, and the server runs with it if it
\* reads it at its start: a job that breaks off at any command leaves its files on the list, and no restart is left
\* out.  Two kinds of files escape it: one saved while a job runs, which the mark takes as sent, and one taken back
\* after a job that broke off had changed it on the VM.
ReportIsTrue ==
    job.step = "none" =>
        \A f \in Targets \ (slipped \union half) :
            marked[f] = pc[f] => vm[f] = pc[f] /\ (f \in ReadAtStart => running[f] = vm[f])

\* client/src/assets.ts: a rebuild changes the URL and every browser fetches the new file at once instead of drawing
\* a stale atlas.  So after a deploy that was finished a page that is loaded shows what is on the VM.
RebuildIsSeen ==
    job.step = "none" /\ (\A f \in Targets : marked[f] = pc[f] /\ vm[f] = pc[f]) => \A f \in Fetched : Seen(f) = vm[f]
=============================================================================
