------------------------------ MODULE WorldProofs ------------------------------
(***************************************************************************)
(* Proofs about the world's files, for any files, contents, lists, worlds  *)
(* and art: what the deploy job leaves on the VM (Deploy), and what the    *)
(* editor's checks are worth when the server starts (WorldEditor).         *)
(***************************************************************************)
EXTENDS Deploy, WorldEditor, Sums, FiniteSetTheorems

-----------------------------------------------------------------------------
(* The deploy job. *)

Steps == {"none", "bundle", "list", "pack", "send", "delete", "restart", "mark"}
Sent(step) == step \in {"delete", "restart", "mark"}
Removed(step) == step \in {"restart", "mark"}

DeployTyped ==
  /\ {pc, marked, vm, running, job.data} \subseteq [Files -> Contents \cup {0, 1}]
  /\ job = [step |-> job.step, upload |-> job.upload, delete |-> job.delete, restart |-> job.restart, data |-> job.data]
  /\ job.step \in Steps /\ job.upload \in SUBSET Targets /\ job.delete \in SUBSET Targets

\* What the job holds once it has looked at the disk, and how far it has come.
JobSound ==
  job.step \in {"pack", "send", "delete", "restart", "mark"} =>
    /\ \A f \in Targets \ (job.upload \cup job.delete) : job.data[f] = marked[f]
    /\ \A f \in job.delete : f \notin job.upload /\ job.data[f] = 0
    /\ job.restart = NeedsRestart(job.upload \cup job.delete)
    /\ Sent(job.step) => \A f \in job.upload : vm[f] = job.data[f]
    /\ Removed(job.step) => \A f \in job.delete : vm[f] = 0
    /\ job.step = "mark" => \A f \in (job.upload \cup job.delete) \cap ReadAtStart : running[f] = vm[f]

\* A file the job has not touched yet.
Untouched(f) == (f \in job.upload => ~Sent(job.step)) /\ (f \in job.delete => ~Removed(job.step))
AsMarked(f) == vm[f] = marked[f] /\ (f \in ReadAtStart => running[f] = vm[f])
VmSound == \A f \in Targets \ (slipped \cup half) : Untouched(f) => AsMarked(f)

DeployInv == DeployTyped /\ JobSound /\ VmSound

\* A job that ends, of itself or broken off, leaves what it has touched to be told of.
LEMMA JobEnds ==
  ASSUME job' = NoJob, DeployTyped, {pc', marked', vm', running'} \subseteq [Files -> Contents \cup {0, 1}],
         \A f \in Targets \ (slipped' \cup half') : AsMarked(f)'
  PROVE  DeployInv'
<1>1. NoJob.step = "none" /\ NoJob.upload = {} /\ NoJob.delete = {} /\ NoJob.restart = FALSE
      /\ NoJob.data = [f \in Files |-> 0]
      /\ NoJob = [step |-> NoJob.step, upload |-> NoJob.upload, delete |-> NoJob.delete, restart |-> NoJob.restart,
                  data |-> NoJob.data]
  BY DEF NoJob
<1>2. job'.data \in [Files -> Contents \cup {0, 1}] BY <1>1
<1>3. DeployTyped' BY <1>1, <1>2 DEF DeployTyped, Steps
<1>4. JobSound' BY <1>1 DEF JobSound
<1>5. VmSound' BY DEF VmSound
<1> QED BY <1>3, <1>4, <1>5 DEF DeployInv

\* What only the PC sees.
LEMMA PCStep ==
  ASSUME DeployInv, pc' \in [Files -> Contents \cup {0, 1}], UNCHANGED <<marked, vm, running, job, slipped, half>>
  PROVE  DeployInv'
<1>1. DeployTyped' BY DEF DeployInv, DeployTyped
<1>2. JobSound' BY DEF DeployInv, JobSound, Sent, Removed
<1>3. VmSound' BY DEF DeployInv, VmSound, Untouched, AsMarked
<1> QED BY <1>1, <1>2, <1>3 DEF DeployInv

\* The job has not touched the VM so far: everything there is as it was marked.
Early(step) == step \in {"none", "bundle", "list", "pack", "send"}

LEMMA AllUntouched ==
  ASSUME DeployInv, Early(job.step)
  PROVE  \A f \in Targets \ (slipped \cup half) : AsMarked(f)
BY DEF DeployInv, VmSound, Untouched, Early, Sent, Removed

\* The record of the job after it has taken a step.
LEMMA Stepped ==
  ASSUME DeployTyped, NEW step \in Steps
  PROVE  LET j == [job EXCEPT !.step = step]
         IN  /\ j.step = step /\ j.upload = job.upload /\ j.delete = job.delete /\ j.restart = job.restart /\ j.data = job.data
             /\ j = [step |-> j.step, upload |-> j.upload, delete |-> j.delete, restart |-> j.restart, data |-> j.data]
<1> DEFINE R == [step |-> job.step, upload |-> job.upload, delete |-> job.delete, restart |-> job.restart, data |-> job.data]
<1>1. job = R BY DEF DeployTyped
<1>2. ASSUME NEW r, r = R
      PROVE  LET j == [r EXCEPT !.step = step]
             IN  /\ j.step = step /\ j.upload = job.upload /\ j.delete = job.delete /\ j.restart = job.restart /\ j.data = job.data
                 /\ j = [step |-> j.step, upload |-> j.upload, delete |-> j.delete, restart |-> j.restart, data |-> j.data]
  BY <1>2
<1> HIDE DEF R
<1> QED BY <1>1, <1>2

LEMMA StartDeployStep ==
  ASSUME DeployInv, StartDeploy
  PROVE  DeployInv'
<1>1. job.step = "none" /\ UNCHANGED <<pc, marked, vm, running, slipped, half>> BY DEF StartDeploy
<1>2. PICK step \in {"bundle", "list"} : job' = [NoJob EXCEPT !.step = step]
  BY DEF StartDeploy
<1>3. /\ job'.step = step /\ job'.upload = {} /\ job'.delete = {} /\ job'.data = [f \in Files |-> 0]
      /\ job' = [step |-> job'.step, upload |-> job'.upload, delete |-> job'.delete, restart |-> job'.restart, data |-> job'.data]
  BY <1>2 DEF NoJob
<1>4. job'.data \in [Files -> Contents \cup {0, 1}] BY <1>3
<1>5. DeployTyped' BY <1>1, <1>2, <1>3, <1>4 DEF DeployInv, DeployTyped, Steps
<1>6. JobSound' BY <1>3, <1>2 DEF JobSound
<1>7. \A f \in Targets \ (slipped \cup half) : AsMarked(f) BY <1>1, AllUntouched DEF Early
<1>8. VmSound' BY <1>1, <1>7 DEF VmSound, AsMarked
<1> QED BY <1>5, <1>6, <1>8 DEF DeployInv

LEMMA BuildBundleStep ==
  ASSUME DeployInv, BuildBundle
  PROVE  DeployInv'
<1>1. job.step = "bundle" /\ UNCHANGED <<marked, vm, running, slipped, half>> BY DEF BuildBundle
<1>2. \A f \in Targets \ (slipped \cup half) : AsMarked(f) BY <1>1, AllUntouched DEF Early
<1>3. DeployTyped /\ {pc, marked, vm, running} \subseteq [Files -> Contents \cup {0, 1}] BY DEF DeployInv, DeployTyped
<1>4. ASSUME NEW c \in Contents \ {0}, pc' = [pc EXCEPT ![Bundle] = c], job' = [job EXCEPT !.step = "list"]
      PROVE  DeployInv'
  <2>1. pc' \in [Files -> Contents \cup {0, 1}] BY <1>3, <1>4
  <2>2. "list" \in Steps BY DEF Steps
  <2>3. /\ job'.step = "list" /\ job'.upload = job.upload /\ job'.delete = job.delete /\ job'.data = job.data
        /\ job' = [step |-> job'.step, upload |-> job'.upload, delete |-> job'.delete, restart |-> job'.restart, data |-> job'.data]
    BY <1>3, <1>4, <2>2, Stepped
  <2>4. DeployTyped' BY <1>1, <1>3, <2>1, <2>2, <2>3 DEF DeployTyped
  <2>5. JobSound' BY <2>3 DEF JobSound
  <2>6. VmSound' BY <1>1, <1>2 DEF VmSound, AsMarked
  <2> QED BY <2>4, <2>5, <2>6 DEF DeployInv
<1>5. ASSUME job' = NoJob, UNCHANGED pc PROVE DeployInv'
  <2>1. {pc', marked', vm', running'} \subseteq [Files -> Contents \cup {0, 1}] BY <1>1, <1>3, <1>5
  <2>2. \A f \in Targets \ (slipped' \cup half') : AsMarked(f)' BY <1>1, <1>2 DEF AsMarked
  <2> QED BY <1>3, <1>5, <2>1, <2>2, JobEnds
<1> QED BY <1>4, <1>5 DEF BuildBundle

LEMMA ListChangesStep ==
  ASSUME DeployInv, ListChanges
  PROVE  DeployInv'
<1>1. job.step = "list" /\ UNCHANGED <<pc, marked, vm, running, slipped, half>> BY DEF ListChanges
<1>2. \A f \in Targets \ (slipped \cup half) : AsMarked(f) BY <1>1, AllUntouched DEF Early
<1>3. DeployTyped /\ {pc, marked, vm, running} \subseteq [Files -> Contents \cup {0, 1}] BY DEF DeployInv, DeployTyped
<1>4. CASE job' = NoJob
  <2>1. {pc', marked', vm', running'} \subseteq [Files -> Contents \cup {0, 1}] BY <1>1, <1>3
  <2>2. \A f \in Targets \ (slipped' \cup half') : AsMarked(f)' BY <1>1, <1>2 DEF AsMarked
  <2> QED BY <1>3, <1>4, <2>1, <2>2, JobEnds
<1>5. CASE job' = [job EXCEPT !.step = "pack", !.upload = Upload, !.delete = Delete, !.data = pc,
                              !.restart = NeedsRestart(Upload \union Delete)]
  <2> DEFINE R == [step |-> job.step, upload |-> job.upload, delete |-> job.delete, restart |-> job.restart, data |-> job.data]
  <2>1. job = R BY <1>3 DEF DeployTyped
  <2>2. PICK up : up = Upload OBVIOUS
  <2>3. PICK del : del = Delete OBVIOUS
  <2>4. PICK again : again = NeedsRestart(up \cup del) OBVIOUS
  <2>5. ASSUME NEW r, r = R, NEW j, j = [r EXCEPT !.step = "pack", !.upload = up, !.delete = del, !.data = pc, !.restart = again]
        PROVE  j = [step |-> "pack", upload |-> up, delete |-> del, restart |-> again, data |-> pc]
    BY <2>5
  <2> HIDE DEF R
  <2>6. job' = [step |-> "pack", upload |-> up, delete |-> del, restart |-> again, data |-> pc]
    BY <1>5, <2>1, <2>2, <2>3, <2>4, <2>5
  <2>7. up \subseteq Targets /\ del \subseteq Targets BY <2>2, <2>3 DEF Upload, Delete
  <2>8. \A f \in Targets \ (up \cup del) : pc[f] = marked[f] BY <2>2, <2>3 DEF Upload, Delete
  <2>9. \A f \in del : f \notin up /\ pc[f] = 0 BY <2>2, <2>3 DEF Upload, Delete
  <2>10. DeployTyped' BY <1>1, <1>3, <2>6, <2>7 DEF DeployTyped, Steps
  <2>11. JobSound' BY <1>1, <2>4, <2>6, <2>8, <2>9 DEF JobSound, Sent, Removed
  <2>12. VmSound' BY <1>1, <1>2 DEF VmSound, AsMarked
  <2> QED BY <2>10, <2>11, <2>12 DEF DeployInv
<1> QED BY <1>4, <1>5 DEF ListChanges

LEMMA PackStep ==
  ASSUME DeployInv, Pack
  PROVE  DeployInv'
<1>1. job.step = "pack" /\ UNCHANGED <<pc, marked, vm, running, slipped, half>> BY DEF Pack
<1>2. \A f \in Targets \ (slipped \cup half) : AsMarked(f) BY <1>1, AllUntouched DEF Early
<1>3. DeployTyped /\ {pc, marked, vm, running, job.data} \subseteq [Files -> Contents \cup {0, 1}]
      /\ job.upload \subseteq Targets /\ job.delete \subseteq Targets
  BY DEF DeployInv, DeployTyped
<1>4. CASE job' = NoJob
  <2>1. {pc', marked', vm', running'} \subseteq [Files -> Contents \cup {0, 1}] BY <1>1, <1>3
  <2>2. \A f \in Targets \ (slipped' \cup half') : AsMarked(f)' BY <1>1, <1>2 DEF AsMarked
  <2> QED BY <1>3, <1>4, <2>1, <2>2, JobEnds
<1>5. CASE job' = [job EXCEPT !.step = "send", !.data = [f \in Files |-> IF f \in job.upload THEN pc[f] ELSE @[f]]]
  <2> DEFINE R == [step |-> job.step, upload |-> job.upload, delete |-> job.delete, restart |-> job.restart, data |-> job.data]
  <2>1. job = R BY <1>3 DEF DeployTyped
  <2>2. PICK read : read = [f \in Files |-> IF f \in job.upload THEN pc[f] ELSE job.data[f]] OBVIOUS
  <2>3. job' = [job EXCEPT !.step = "send", !.data = read] BY <1>5, <2>2
  <2>4. ASSUME NEW r, r = R, NEW j, j = [r EXCEPT !.step = "send", !.data = read]
        PROVE  j = [step |-> "send", upload |-> job.upload, delete |-> job.delete, restart |-> job.restart, data |-> read]
    BY <2>4
  <2> HIDE DEF R
  <2>5. job' = [step |-> "send", upload |-> job.upload, delete |-> job.delete, restart |-> job.restart, data |-> read]
    BY <2>1, <2>3, <2>4
  <2>6. read \in [Files -> Contents \cup {0, 1}] BY <1>3, <2>2
  <2>7. \A f \in Targets \ job.upload : read[f] = job.data[f] BY <2>2, DeployAssumption
  <2>8. DeployTyped' BY <1>1, <1>3, <2>5, <2>6 DEF DeployTyped, Steps
  <2>9. /\ \A f \in Targets \ (job.upload \cup job.delete) : job.data[f] = marked[f]
        /\ \A f \in job.delete : f \notin job.upload /\ job.data[f] = 0
        /\ job.restart = NeedsRestart(job.upload \cup job.delete)
    BY <1>1 DEF DeployInv, JobSound
  <2>10. /\ \A f \in Targets \ (job.upload \cup job.delete) : read[f] = marked[f]
         /\ \A f \in job.delete : f \notin job.upload /\ read[f] = 0
    BY <1>3, <2>7, <2>9
  <2>11. JobSound' BY <1>1, <2>5, <2>9, <2>10 DEF JobSound, Sent, Removed
  <2>12. VmSound' BY <1>1, <1>2 DEF VmSound, AsMarked
  <2> QED BY <2>8, <2>11, <2>12 DEF DeployInv
<1> QED BY <1>4, <1>5 DEF Pack

\* What holds of a job that has read its files.
LEMMA JobFacts ==
  ASSUME DeployInv, job.step \in {"send", "delete", "restart", "mark"}
  PROVE  /\ DeployTyped /\ {pc, marked, vm, running, job.data} \subseteq [Files -> Contents \cup {0, 1}]
         /\ job.upload \subseteq Targets /\ job.delete \subseteq Targets
         /\ \A f \in Targets \ (job.upload \cup job.delete) : job.data[f] = marked[f]
         /\ \A f \in job.delete : f \notin job.upload /\ job.data[f] = 0
         /\ job.restart = NeedsRestart(job.upload \cup job.delete)
         /\ Sent(job.step) => \A f \in job.upload : vm[f] = job.data[f]
         /\ Removed(job.step) => \A f \in job.delete : vm[f] = 0
         /\ job.step = "mark" => \A f \in (job.upload \cup job.delete) \cap ReadAtStart : running[f] = vm[f]
         /\ \A f \in Targets \ (slipped \cup half) : Untouched(f) => AsMarked(f)
BY DEF DeployInv, DeployTyped, JobSound, VmSound

LEMMA SendStep ==
  ASSUME DeployInv, Send
  PROVE  DeployInv'
<1>1. job.step = "send" /\ UNCHANGED <<pc, marked, running, slipped>> BY DEF Send
<1>2. /\ DeployTyped /\ {pc, marked, vm, running, job.data} \subseteq [Files -> Contents \cup {0, 1}]
      /\ job.upload \subseteq Targets /\ job.delete \subseteq Targets
      /\ \A f \in Targets \ (job.upload \cup job.delete) : job.data[f] = marked[f]
      /\ \A f \in job.delete : f \notin job.upload /\ job.data[f] = 0
      /\ job.restart = NeedsRestart(job.upload \cup job.delete)
  BY <1>1, JobFacts
<1>3. \A f \in Targets \ (slipped \cup half) : AsMarked(f) BY <1>1, AllUntouched DEF Early
<1>4. PICK landed \in SUBSET job.upload :
        /\ vm' = Landed(landed) /\ job' = After("delete", landed = job.upload)
        /\ half' = IF landed = job.upload THEN half ELSE half \union landed
  BY DEF Send
<1>5. /\ vm' \in [Files -> Contents \cup {0, 1}]
      /\ \A f \in Targets : vm'[f] = IF f \in landed THEN job.data[f] ELSE vm[f]
  BY <1>2, <1>4, DeployAssumption DEF Landed
<1>6. CASE landed # job.upload
  <2>1. job' = NoJob /\ half' = half \cup landed BY <1>4, <1>6 DEF After
  <2>2. \A f \in Targets \ (slipped' \cup half') : AsMarked(f)' BY <1>1, <1>3, <1>5, <2>1 DEF AsMarked
  <2>3. {pc', marked', vm', running'} \subseteq [Files -> Contents \cup {0, 1}] BY <1>1, <1>2, <1>5
  <2> QED BY <1>2, <2>1, <2>2, <2>3, JobEnds
<1>7. CASE landed = job.upload
  <2>1. job' = [job EXCEPT !.step = "delete"] /\ half' = half BY <1>4, <1>7 DEF After
  <2>2. "delete" \in Steps BY DEF Steps
  <2>3. /\ job'.step = "delete" /\ job'.upload = job.upload /\ job'.delete = job.delete /\ job'.data = job.data
        /\ job'.restart = job.restart
        /\ job' = [step |-> job'.step, upload |-> job'.upload, delete |-> job'.delete, restart |-> job'.restart, data |-> job'.data]
    BY <1>2, <2>1, <2>2, Stepped
  <2>4. DeployTyped' BY <1>1, <1>2, <1>5, <2>2, <2>3 DEF DeployTyped
  <2>5. \A f \in job.upload : vm'[f] = job.data[f] BY <1>2, <1>5, <1>7
  <2>6. JobSound' BY <1>1, <1>2, <2>3, <2>5 DEF JobSound, Sent, Removed
  <2>7. VmSound' BY <1>1, <1>3, <1>5, <1>7, <2>1, <2>3 DEF VmSound, Untouched, AsMarked, Sent, Removed
  <2> QED BY <2>4, <2>6, <2>7 DEF DeployInv
<1> QED BY <1>6, <1>7

LEMMA RemoveStep ==
  ASSUME DeployInv, Remove
  PROVE  DeployInv'
<1>1. job.step = "delete" /\ UNCHANGED <<pc, marked, running, slipped>> BY DEF Remove
<1>2. /\ DeployTyped /\ {pc, marked, vm, running, job.data} \subseteq [Files -> Contents \cup {0, 1}]
      /\ job.upload \subseteq Targets /\ job.delete \subseteq Targets
      /\ \A f \in Targets \ (job.upload \cup job.delete) : job.data[f] = marked[f]
      /\ \A f \in job.delete : f \notin job.upload /\ job.data[f] = 0
      /\ job.restart = NeedsRestart(job.upload \cup job.delete)
      /\ \A f \in job.upload : vm[f] = job.data[f]
  BY <1>1, JobFacts DEF Sent
<1>3. \A f \in Targets \ (slipped \cup half) : f \notin job.upload => AsMarked(f)
  BY <1>1, JobFacts DEF Untouched, Sent, Removed
<1>4. PICK ok \in BOOLEAN :
        /\ vm' = IF ok THEN [f \in Files |-> IF f \in job.delete THEN 0 ELSE vm[f]] ELSE vm
        /\ job' = After("restart", ok) /\ half' = IF ok THEN half ELSE half \union job.upload
  BY DEF Remove
<1>5. CASE ~ok
  <2>1. job' = NoJob /\ half' = half \cup job.upload /\ vm' = vm BY <1>4, <1>5 DEF After
  <2>2. \A f \in Targets \ (slipped' \cup half') : AsMarked(f)' BY <1>1, <1>3, <2>1 DEF AsMarked
  <2>3. {pc', marked', vm', running'} \subseteq [Files -> Contents \cup {0, 1}] BY <1>1, <1>2, <2>1
  <2> QED BY <1>2, <2>1, <2>2, <2>3, JobEnds
<1>6. CASE ok
  <2>1. job' = [job EXCEPT !.step = "restart"] /\ half' = half
        /\ vm' = [f \in Files |-> IF f \in job.delete THEN 0 ELSE vm[f]]
    BY <1>4, <1>6 DEF After
  <2>2. vm' \in [Files -> Contents \cup {0, 1}] /\ \A f \in Targets : vm'[f] = IF f \in job.delete THEN 0 ELSE vm[f]
    BY <1>2, <2>1, DeployAssumption
  <2>3. "restart" \in Steps BY DEF Steps
  <2>4. /\ job'.step = "restart" /\ job'.upload = job.upload /\ job'.delete = job.delete /\ job'.data = job.data
        /\ job'.restart = job.restart
        /\ job' = [step |-> job'.step, upload |-> job'.upload, delete |-> job'.delete, restart |-> job'.restart, data |-> job'.data]
    BY <1>2, <2>1, <2>3, Stepped
  <2>5. DeployTyped' BY <1>1, <1>2, <2>2, <2>3, <2>4 DEF DeployTyped
  <2>6. (\A f \in job.upload : vm'[f] = job.data[f]) /\ (\A f \in job.delete : vm'[f] = 0) BY <1>2, <2>2
  <2>7. JobSound' BY <1>1, <1>2, <2>4, <2>6 DEF JobSound, Sent, Removed
  <2>8. VmSound' BY <1>1, <1>3, <2>1, <2>2, <2>4 DEF VmSound, Untouched, AsMarked, Sent, Removed
  <2> QED BY <2>5, <2>7, <2>8 DEF DeployInv
<1> QED BY <1>5, <1>6

LEMMA RestartServerStep ==
  ASSUME DeployInv, RestartServer
  PROVE  DeployInv'
<1>1. job.step = "restart" /\ UNCHANGED <<pc, marked, vm, slipped>> BY DEF RestartServer
<1>2. /\ DeployTyped /\ {pc, marked, vm, running, job.data} \subseteq [Files -> Contents \cup {0, 1}]
      /\ job.upload \subseteq Targets /\ job.delete \subseteq Targets
      /\ \A f \in Targets \ (job.upload \cup job.delete) : job.data[f] = marked[f]
      /\ \A f \in job.delete : f \notin job.upload /\ job.data[f] = 0
      /\ job.restart = NeedsRestart(job.upload \cup job.delete)
      /\ \A f \in job.upload : vm[f] = job.data[f]
      /\ \A f \in job.delete : vm[f] = 0
  BY <1>1, JobFacts DEF Sent, Removed
<1>3. \A f \in Targets \ (slipped \cup half) : f \notin job.upload \cup job.delete => AsMarked(f)
  BY <1>1, JobFacts DEF Untouched, Sent, Removed
<1>4. PICK ok \in BOOLEAN :
        /\ running' = IF ok /\ job.restart THEN vm ELSE running
        /\ job' = After("mark", ok) /\ half' = IF ok THEN half ELSE half \union job.upload \union job.delete
  BY DEF RestartServer
<1>5. CASE ~ok
  <2>1. job' = NoJob /\ half' = half \cup job.upload \cup job.delete /\ running' = running BY <1>4, <1>5 DEF After
  <2>2. \A f \in Targets \ (slipped' \cup half') : AsMarked(f)' BY <1>1, <1>3, <2>1 DEF AsMarked
  <2>3. {pc', marked', vm', running'} \subseteq [Files -> Contents \cup {0, 1}] BY <1>1, <1>2, <2>1
  <2> QED BY <1>2, <2>1, <2>2, <2>3, JobEnds
<1>6. CASE ok
  <2>1. job' = [job EXCEPT !.step = "mark"] /\ half' = half /\ running' = IF job.restart THEN vm ELSE running
    BY <1>4, <1>6 DEF After
  <2>2. running' \in [Files -> Contents \cup {0, 1}] BY <1>2, <2>1
  <2>3. "mark" \in Steps BY DEF Steps
  <2>4. /\ job'.step = "mark" /\ job'.upload = job.upload /\ job'.delete = job.delete /\ job'.data = job.data
        /\ job'.restart = job.restart
        /\ job' = [step |-> job'.step, upload |-> job'.upload, delete |-> job'.delete, restart |-> job'.restart, data |-> job'.data]
    BY <1>2, <2>1, <2>3, Stepped
  <2>5. DeployTyped' BY <1>1, <1>2, <2>2, <2>3, <2>4 DEF DeployTyped
  <2>6. \A f \in (job.upload \cup job.delete) \cap ReadAtStart : running'[f] = vm[f] BY <1>2, <2>1 DEF NeedsRestart
  <2>7. JobSound' BY <1>1, <1>2, <2>4, <2>6 DEF JobSound, Sent, Removed
  <2>8. VmSound' BY <1>1, <1>3, <2>1, <2>4 DEF VmSound, Untouched, AsMarked, Sent, Removed
  <2> QED BY <2>5, <2>7, <2>8 DEF DeployInv
<1> QED BY <1>5, <1>6

LEMMA MarkStep ==
  ASSUME DeployInv, Mark
  PROVE  DeployInv'
<1>1. /\ job.step = "mark" /\ UNCHANGED <<pc, vm, running>> /\ job' = NoJob
      /\ marked' = [f \in Files |-> IF f \in Targets THEN pc[f] ELSE marked[f]]
      /\ half' = half \ (job.upload \union job.delete)
      /\ slipped' = (slipped \ (job.upload \union job.delete)) \union {f \in Targets : pc[f] # job.data[f]}
  BY DEF Mark
<1>2. /\ DeployTyped /\ {pc, marked, vm, running, job.data} \subseteq [Files -> Contents \cup {0, 1}]
      /\ \A f \in Targets \ (job.upload \cup job.delete) : job.data[f] = marked[f]
      /\ \A f \in job.delete : f \notin job.upload /\ job.data[f] = 0
      /\ \A f \in job.upload : vm[f] = job.data[f]
      /\ \A f \in job.delete : vm[f] = 0
      /\ \A f \in (job.upload \cup job.delete) \cap ReadAtStart : running[f] = vm[f]
  BY <1>1, JobFacts DEF Sent, Removed
<1>3. \A f \in Targets \ (slipped \cup half) : f \notin job.upload \cup job.delete => AsMarked(f)
  BY <1>1, JobFacts DEF Untouched, Sent, Removed
<1>4. marked' \in [Files -> Contents \cup {0, 1}] /\ \A f \in Targets : marked'[f] = pc[f]
  BY <1>1, <1>2, DeployAssumption
<1>5. ASSUME NEW f \in Targets \ (slipped' \cup half') PROVE AsMarked(f)'
  <2>1. pc[f] = job.data[f] BY <1>1
  <2>2. CASE f \in job.upload \cup job.delete BY <1>1, <1>2, <1>4, <2>1, <2>2 DEF AsMarked
  <2>3. CASE f \notin job.upload \cup job.delete
    <3>1. AsMarked(f) BY <1>1, <1>3, <2>3
    <3> QED BY <1>1, <1>2, <1>4, <2>1, <2>3, <3>1 DEF AsMarked
  <2> QED BY <2>2, <2>3
<1>6. {pc', marked', vm', running'} \subseteq [Files -> Contents \cup {0, 1}] BY <1>1, <1>2, <1>4
<1> QED BY <1>1, <1>2, <1>5, <1>6, JobEnds

LEMMA SyncByHandStep ==
  ASSUME DeployInv, SyncByHand
  PROVE  DeployInv'
<1>1. /\ job.step = "none" /\ vm' = pc /\ running' = pc /\ pc' = pc /\ job' = job
      /\ marked' = [f \in Files |-> IF f \in Targets THEN pc[f] ELSE marked[f]]
  BY DEF SyncByHand
<1>2. DeployTyped /\ {pc, marked, vm, running} \subseteq [Files -> Contents \cup {0, 1}] BY DEF DeployInv, DeployTyped
<1>3. marked' \in [Files -> Contents \cup {0, 1}] /\ \A f \in Targets : marked'[f] = pc[f]
  BY <1>1, <1>2, DeployAssumption
<1>4. DeployTyped' BY <1>1, <1>2, <1>3 DEF DeployTyped
<1>5. JobSound' BY <1>1 DEF JobSound
<1>6. VmSound' BY <1>1, <1>3 DEF VmSound, AsMarked
<1> QED BY <1>4, <1>5, <1>6 DEF DeployInv

LEMMA VmRestartStep ==
  ASSUME DeployInv, VmRestart
  PROVE  DeployInv'
<1>1. running' = vm /\ UNCHANGED <<pc, marked, vm, job, slipped, half>> BY DEF VmRestart
<1>2. DeployTyped' BY <1>1 DEF DeployInv, DeployTyped
<1>3. JobSound' BY <1>1 DEF DeployInv, JobSound, Sent, Removed
<1>4. VmSound' BY <1>1 DEF DeployInv, VmSound, Untouched, AsMarked, Sent, Removed
<1> QED BY <1>2, <1>3, <1>4 DEF DeployInv

LEMMA DeployInitially == DeployInit => DeployInv
<1> SUFFICES ASSUME DeployInit PROVE DeployInv OBVIOUS
<1>1. job = NoJob /\ pc = [f \in Files |-> 1] /\ vm = pc /\ running = pc
      /\ marked = [f \in Files |-> IF f \in Targets THEN 1 ELSE 0]
  BY DEF DeployInit
<1>2. /\ job.step = "none" /\ job.upload = {} /\ job.delete = {} /\ job.data = [f \in Files |-> 0]
      /\ job = [step |-> job.step, upload |-> job.upload, delete |-> job.delete, restart |-> job.restart, data |-> job.data]
  BY <1>1 DEF NoJob
<1>3. DeployTyped BY <1>1, <1>2 DEF DeployTyped, Steps
<1>4. JobSound BY <1>2 DEF JobSound
<1>5. VmSound BY <1>1, DeployAssumption DEF VmSound, AsMarked
<1> QED BY <1>3, <1>4, <1>5 DEF DeployInv

LEMMA DeployStep == DeployInv /\ [DeployNext]_deployVars => DeployInv'
<1> SUFFICES ASSUME DeployInv, [DeployNext]_deployVars PROVE DeployInv' OBVIOUS
<1>1. pc \in [Files -> Contents \cup {0, 1}] BY DEF DeployInv, DeployTyped
<1>2. ASSUME NEW f \in Files, NEW c \in Contents, Edit(f, c) PROVE DeployInv'
  <2>1. pc' \in [Files -> Contents \cup {0, 1}] BY <1>1, <1>2 DEF Edit
  <2> QED BY <1>2, <2>1, PCStep DEF Edit
<1>3. CASE EditSource BY <1>1, <1>3, PCStep DEF EditSource
<1>4. CASE Reload BY <1>1, <1>4, PCStep DEF Reload
<1>5. CASE UNCHANGED deployVars BY <1>1, <1>5, PCStep DEF deployVars
<1> QED
  BY <1>2, <1>3, <1>4, <1>5, SyncByHandStep, StartDeployStep, BuildBundleStep, ListChangesStep, PackStep, SendStep,
     RemoveStep, RestartServerStep, MarkStep, VmRestartStep
  DEF DeployNext

\* What the report calls unchanged between jobs is on the VM as it is here, and
\* the server runs with it, but for what was saved under a running job and what
\* a job that broke off has changed (DeployJob._run, deploy.changes, deploy.mark).
THEOREM ReportStaysTrue == DeploySpec => []ReportIsTrue
<1>1. DeployInv => ReportIsTrue
  <2> SUFFICES ASSUME DeployInv, job.step = "none" PROVE ReportIsTrue BY DEF ReportIsTrue
  <2>1. \A f \in Targets \ (slipped \cup half) : AsMarked(f) BY AllUntouched DEF Early
  <2> QED BY <2>1 DEF ReportIsTrue, AsMarked
<1> QED BY <1>1, DeployInitially, DeployStep, PTL DEF DeploySpec

-----------------------------------------------------------------------------
(* Pictures. *)

LEMMA PackedStills ==
  ASSUME NEW list, NEW old, Packed(list, old) # {}
  PROVE  Stills(Packed(list, old)) = Keys(list)
<1> DEFINE moving == {<<s.key, "moving">> : s \in {t \in list : IsAnim(t)}}
           still == {<<s.key, "still">> : s \in list}
<1>1. Packed(list, old) = still \cup moving BY DEF Packed
<1>2. \A f \in still : f[2] = "still" /\ f[1] \in Keys(list) BY DEF Keys
<1>3. \A f \in moving : f[2] # "still" OBVIOUS
<1>4. \A k \in Keys(list) : \E f \in still : f[1] = k
  <2> SUFFICES ASSUME NEW k \in Keys(list) PROVE \E f \in still : f[1] = k OBVIOUS
  <2>1. PICK s \in list : k = s.key BY DEF Keys
  <2>2. <<k, "still">> \in still /\ <<k, "still">>[1] = k BY <2>1
  <2> QED BY <2>2
<1> HIDE DEF still, moving
<1> QED BY <1>1, <1>2, <1>3, <1>4 DEF Stills

PictureInv == drawn \subseteq Listed(slices, mapSlices) /\ PicturesSurvive

LEMMA ListedIs ==
  ASSUME NEW list, NEW maps, NEW d
  PROVE  d \in Listed(list, maps) <=>
           \/ d = <<"rooms", d[2]>> /\ d[2] \in Keys(Named(list))
           \/ d = <<"map", d[2]>> /\ d[2] \in Keys(Named(maps))
BY DEF Listed

LEMMA PictureStep == PictureInv /\ [EditorNext]_editorVars => PictureInv'
<1> SUFFICES ASSUME PictureInv, [EditorNext]_editorVars PROVE PictureInv' OBVIOUS
<1>1. ASSUME NEW lists \in SliceLists, PutSlices(lists[1], lists[2]) PROVE PictureInv'
  <2>1. /\ slices' = lists[1] /\ mapSlices' = lists[2] /\ UNCHANGED <<atlas, mapAtlas>>
        /\ drawn' = drawn \cap Listed(lists[1], lists[2])
    BY <1>1 DEF PutSlices, built
  <2>2. drawn' \subseteq Listed(slices', mapSlices') BY <2>1 DEF Listed, Named, Keys
  <2> QED BY <2>1, <2>2 DEF PictureInv, PicturesSurvive, Stills
<1>2. CASE Build
  <2>1. UNCHANGED <<slices, mapSlices>> BY <1>2 DEF Build, files
  <2>2. CASE UNCHANGED <<built, drawn>>
    BY <2>1, <2>2 DEF PictureInv, PicturesSurvive, built, Stills, Listed, Named, Keys
  <2>3. CASE /\ ~BuildRefused /\ atlas' = Packed(Named(slices), atlas)
             /\ mapAtlas' = IF Named(mapSlices) = {} \/ MapFails THEN mapAtlas ELSE MapPacked
             /\ drawn' = IF MapFails THEN (drawn \intersect Listed({}, mapSlices)) \union Listed(slices, {})
                         ELSE Listed(slices, mapSlices)
    <3>1. Stills(atlas') = Keys(Named(slices)) BY <2>3, PackedStills DEF BuildRefused
    <3>2. Listed({}, mapSlices) \subseteq Listed(slices, mapSlices) /\ Listed(slices, {}) \subseteq Listed(slices, mapSlices)
      BY DEF Listed, Keys, Named
    <3>3. drawn' \subseteq Listed(slices, mapSlices) BY <2>3, <3>2
    <3>4. ASSUME NEW d \in drawn' PROVE d[2] \in Stills(IF d[1] = "map" THEN mapAtlas' ELSE atlas')
      <4>1. CASE d = <<"rooms", d[2]>> /\ d[2] \in Keys(Named(slices))
        <5>1. d[1] = "rooms" BY <4>1
        <5> QED BY <3>1, <4>1, <5>1
      <4>2. CASE d = <<"map", d[2]>> /\ d[2] \in Keys(Named(mapSlices))
        <5>1. d[1] = "map" BY <4>2
        <5>2. CASE MapFails
          <6>1. mapAtlas' = mapAtlas BY <2>3, <5>2
          <6>2. d \in drawn \/ d \in Listed(slices, {}) BY <2>3, <5>2
          <6>3. Keys(Named({})) = {} BY DEF Keys, Named
          <6>4. d \notin Listed(slices, {}) BY <5>1, <6>3, ListedIs
          <6>5. d[2] \in Stills(mapAtlas) BY <5>1, <6>2, <6>4 DEF PictureInv, PicturesSurvive
          <6> QED BY <5>1, <6>1, <6>5
        <5>3. CASE ~MapFails
          <6>1. Named(mapSlices) # {} BY <4>2 DEF Keys
          <6>2. mapAtlas' = MapPacked /\ MapPacked # {} BY <2>3, <5>3, <6>1 DEF MapFails
          <6>3. Stills(MapPacked) = Keys(Named(mapSlices)) BY <6>2, PackedStills DEF MapPacked
          <6> QED BY <4>2, <5>1, <6>2, <6>3
        <5> QED BY <5>2, <5>3
      <4> QED BY <3>3, <4>1, <4>2, ListedIs
    <3>5. Listed(slices', mapSlices') = Listed(slices, mapSlices) BY <2>1 DEF Listed, Named, Keys
    <3>6. PicturesSurvive' BY <3>4 DEF PicturesSurvive, Stills
    <3> QED BY <3>3, <3>5, <3>6 DEF PictureInv
  <2> QED BY <1>2, <2>2, <2>3 DEF Build
<1>3. CASE UNCHANGED <<slices, mapSlices, atlas, mapAtlas, drawn>>
  BY <1>3 DEF PictureInv, PicturesSurvive, Stills, Listed, Named, Keys
<1>4. ASSUME NEW list \in ItemLists, PutItems(list) PROVE UNCHANGED <<slices, mapSlices, atlas, mapAtlas, drawn>>
  BY <1>4 DEF PutItems, built
<1>5. ASSUME NEW world \in Worlds, PutRooms(world) PROVE UNCHANGED <<slices, mapSlices, atlas, mapAtlas, drawn>>
  BY <1>5 DEF PutRooms, built
<1>6. ASSUME NEW m \in Maps, PutMap(m) PROVE UNCHANGED <<slices, mapSlices, atlas, mapAtlas, drawn>>
  BY <1>6 DEF PutMap, built
<1>7. ASSUME NEW t \in Trains, PutTrain(t) PROVE UNCHANGED <<slices, mapSlices, atlas, mapAtlas, drawn>>
  BY <1>7 DEF PutTrain, built
<1>8. ASSUME NEW pack \in Art, MoveArt(pack) PROVE UNCHANGED <<slices, mapSlices, atlas, mapAtlas, drawn>>
  BY <1>8 DEF MoveArt, files, built
<1>9. ASSUME NEW png \in BackFiles, MoveBackdrop(png) PROVE UNCHANGED <<slices, mapSlices, atlas, mapAtlas, drawn>>
  BY <1>9 DEF MoveBackdrop, files, built
<1>10. UNCHANGED editorVars => UNCHANGED <<slices, mapSlices, atlas, mapAtlas, drawn>> BY DEF editorVars, files, built
<1> QED BY <1>1, <1>2, <1>3, <1>4, <1>5, <1>6, <1>7, <1>8, <1>9, <1>10 DEF EditorNext

\* Whatever art leaves the disk, and wherever a build breaks off, a slice that
\* stays in its list keeps its picture (preprocess.load_frozen, pack_atlas).
THEOREM PicturesAreKept == EditorSpec => []PicturesSurvive
<1>1. EditorInit => PictureInv BY DEF EditorInit, PictureInv, PicturesSurvive
<1>2. PictureInv => PicturesSurvive BY DEF PictureInv
<1> QED BY <1>1, <1>2, PictureStep, PTL DEF EditorSpec

-----------------------------------------------------------------------------
(* What a saved file was checked against is still so. *)

TilesNamed == \A s \in slices : s.tile => s.named

BuildHolds == "build" \in current =>
  /\ atlas # {} /\ Stills(atlas) = Keys(Named(slices)) /\ manifest.keys = Keys(Named(slices))
  /\ manifest.map = Keys(Named(mapSlices))
  /\ Named(mapSlices) # {} => Stills(mapAtlas) = Keys(Named(mapSlices))
  /\ manifest.backs = BacksListed
ItemsHold == "items" \in current =>
  /\ Cardinality(Ids(items)) = Cardinality(items)
  /\ \A it \in items : it.sprite \in Keys(Named(slices)) /\ it.pair \in Ids(items) \cup {"none"}
Names(r) == /\ r.tiles \subseteq TileKeys(slices) /\ r.seeds \subseteq Ids(items)
            /\ atlas # {} => r.fx \subseteq Stills(atlas)
RoomsHold == "rooms" \in current =>
  Base \in DOMAIN rooms /\ \A id \in DOMAIN rooms : Names(rooms[id]) /\ rooms[id].exits \subseteq DOMAIN rooms \cup {"map"}
MapHolds == "map" \in current =>
  map.tiles \subseteq Stills(mapAtlas) /\ map.places \subseteq DOMAIN rooms \cup {"dock"} /\ map.backs \subseteq BacksOffered
TrainHolds == "train" \in current =>
  (\A r \in train.rooms : Names(r)) /\ (atlas # {} => train.layout \subseteq Stills(atlas))

EditorInv == TilesNamed /\ BuildHolds /\ ItemsHold /\ RoomsHold /\ MapHolds /\ TrainHolds

LEMMA EditorKept ==
  ASSUME EditorInv, UNCHANGED <<files, built>>, current' \subseteq current,
         "build" \in current' => BacksListed' = BacksListed,
         "map" \in current' => BacksOffered' = BacksOffered
  PROVE  EditorInv'
<1>1. UNCHANGED <<slices, mapSlices, items, rooms, map, train, atlas, mapAtlas, backs, manifest>> BY DEF files, built
<1>2. TilesNamed' BY <1>1 DEF EditorInv, TilesNamed
<1>3. BuildHolds' BY <1>1 DEF EditorInv, BuildHolds, Stills, Keys, Named
<1>4. ItemsHold' BY <1>1 DEF EditorInv, ItemsHold, Keys, Named, Ids
<1>5. RoomsHold' BY <1>1 DEF EditorInv, RoomsHold, Names, TileKeys, Keys, Ids, Stills
<1>6. MapHolds' BY <1>1 DEF EditorInv, MapHolds, Stills
<1>7. TrainHolds' BY <1>1 DEF EditorInv, TrainHolds, Names, TileKeys, Keys, Ids, Stills
<1> QED BY <1>2, <1>3, <1>4, <1>5, <1>6, <1>7 DEF EditorInv

LEMMA BuildKeeps ==
  ASSUME EditorInv, Build
  PROVE  EditorInv'
<1>1. UNCHANGED <<art, backFiles, slices, mapSlices, items, rooms, map, train>> BY DEF Build, files
<1>2. CASE UNCHANGED <<built, current>>
  <2>1. BacksListed' = BacksListed /\ BacksOffered' = BacksOffered
    BY <1>1, <1>2 DEF BacksListed, BacksOffered, BackNames, built
  <2>2. UNCHANGED <<files, built>> BY <1>1, <1>2 DEF files
  <2> QED BY <1>2, <2>1, <2>2, EditorKept
<1>3. ASSUME current' = AfterBuild(FALSE) PROVE EditorInv'
  <2>1. {"build", "rooms", "map", "train"} \cap current' = {} /\ ("items" \in current' => "items" \in current)
    BY <1>3 DEF AfterBuild
  <2>2. TilesNamed' BY <1>1 DEF EditorInv, TilesNamed
  <2>3. ItemsHold' BY <1>1, <2>1 DEF EditorInv, ItemsHold, Keys, Named, Ids
  <2> QED BY <2>1, <2>2, <2>3 DEF EditorInv, BuildHolds, RoomsHold, MapHolds, TrainHolds
<1>4. ASSUME ~BuildRefused, atlas' = Packed(Named(slices), atlas), ~MapFails, current' = AfterBuild(TRUE),
             mapAtlas' = IF Named(mapSlices) = {} \/ MapFails THEN mapAtlas ELSE MapPacked,
             backs' = BacksCopied, manifest' = NewManifest
      PROVE  EditorInv'
  <2>1. /\ {"rooms", "map", "train"} \cap current' = {} /\ ("items" \in current' => "items" \in current)
        /\ "build" \in current'
    BY <1>4 DEF AfterBuild
  <2>2. TilesNamed' BY <1>1 DEF EditorInv, TilesNamed
  <2>3. ItemsHold' BY <1>1, <2>1 DEF EditorInv, ItemsHold, Keys, Named, Ids
  <2>4. atlas' # {} /\ Stills(atlas') = Keys(Named(slices)) BY <1>4, PackedStills DEF BuildRefused
  <2>5. ASSUME Named(mapSlices) # {} PROVE Stills(mapAtlas') = Keys(Named(mapSlices))
    <3>1. mapAtlas' = MapPacked /\ MapPacked # {} BY <1>4, <2>5 DEF MapFails
    <3> QED BY <3>1, PackedStills DEF MapPacked
  <2>6. manifest'.keys = Keys(Named(slices)) /\ manifest'.map = Keys(Named(mapSlices)) /\ manifest'.backs = BacksListed
    BY <1>4 DEF NewManifest
  <2>7. BacksListed' = BacksListed BY <1>1, <1>4 DEF BacksListed, BacksCopied, BackNames
  <2>8. Keys(Named(slices))' = Keys(Named(slices)) /\ Keys(Named(mapSlices))' = Keys(Named(mapSlices))
        /\ Named(mapSlices)' = Named(mapSlices) /\ Stills(atlas)' = Stills(atlas') /\ Stills(mapAtlas)' = Stills(mapAtlas')
    BY <1>1 DEF Keys, Named, Stills
  <2>9. BuildHolds' BY <2>4, <2>5, <2>6, <2>7, <2>8 DEF BuildHolds
  <2> QED BY <2>1, <2>2, <2>3, <2>9 DEF EditorInv, RoomsHold, MapHolds, TrainHolds
<1> QED BY <1>2, <1>3, <1>4 DEF Build

LEMMA PutSlicesKeeps ==
  ASSUME NEW lists \in SliceLists, PutSlices(lists[1], lists[2])
  PROVE  EditorInv'
<1>1. slices' = lists[1] /\ current' = {} BY DEF PutSlices
<1>2. TilesNamed' BY <1>1, EditorAssumption DEF TilesNamed
<1> QED BY <1>1, <1>2 DEF EditorInv, BuildHolds, ItemsHold, RoomsHold, MapHolds, TrainHolds

LEMMA PutItemsKeeps ==
  ASSUME EditorInv, NEW list \in ItemLists, PutItems(list)
  PROVE  EditorInv'
<1>1. /\ items' = list /\ current' = (current \ {"rooms", "map", "train"}) \cup {"items"}
      /\ UNCHANGED <<art, backFiles, slices, mapSlices, atlas, mapAtlas, backs, manifest>>
  BY DEF PutItems, built
<1>2. TilesNamed' BY <1>1 DEF EditorInv, TilesNamed
<1>3. BuildHolds' BY <1>1 DEF EditorInv, BuildHolds, Stills, Keys, Named, BacksListed, BackNames
<1>4. ItemsHold'
  <2>1. Cardinality(Ids(list)) = Cardinality(list)
        /\ \A it \in list : it.sprite \in Keys(Named(slices)) /\ it.pair \in Ids(list) \cup {"none"}
    BY DEF PutItems, SpritesFor
  <2> QED BY <1>1, <2>1 DEF ItemsHold, Keys, Named, Ids
<1>5. {"rooms", "map", "train"} \cap current' = {} BY <1>1
<1> QED BY <1>2, <1>3, <1>4, <1>5 DEF EditorInv, RoomsHold, MapHolds, TrainHolds

LEMMA PutRoomsKeeps ==
  ASSUME EditorInv, NEW world \in Worlds, PutRooms(world)
  PROVE  EditorInv'
<1>1. /\ rooms' = world /\ current' = (current \ {"map"}) \cup {"rooms"}
      /\ UNCHANGED <<art, backFiles, slices, mapSlices, items, train, atlas, mapAtlas, backs, manifest>>
  BY DEF PutRooms, built
<1>2. TilesNamed' BY <1>1 DEF EditorInv, TilesNamed
<1>3. BuildHolds' BY <1>1 DEF EditorInv, BuildHolds, Stills, Keys, Named, BacksListed, BackNames
<1>4. ItemsHold' BY <1>1 DEF EditorInv, ItemsHold, Keys, Named, Ids
<1>5. RoomsHold'
  <2>1. Base \in DOMAIN world
        /\ \A id \in DOMAIN world : Names(world[id]) /\ world[id].exits \subseteq DOMAIN world \cup {"map"}
    BY DEF PutRooms, ValidRoom, Names
  <2> QED BY <1>1, <2>1 DEF RoomsHold, Names, TileKeys, Keys, Ids, Stills
<1>6. TrainHolds' BY <1>1 DEF EditorInv, TrainHolds, Names, TileKeys, Keys, Ids, Stills
<1> QED BY <1>1, <1>2, <1>3, <1>4, <1>5, <1>6 DEF EditorInv, MapHolds

LEMMA PutMapKeeps ==
  ASSUME EditorInv, NEW m \in Maps, PutMap(m)
  PROVE  EditorInv'
<1>1. /\ map' = m /\ current' = current \cup {"map"}
      /\ UNCHANGED <<art, backFiles, slices, mapSlices, items, rooms, train, atlas, mapAtlas, backs, manifest>>
  BY DEF PutMap, built
<1>2. TilesNamed' BY <1>1 DEF EditorInv, TilesNamed
<1>3. BuildHolds' BY <1>1 DEF EditorInv, BuildHolds, Stills, Keys, Named, BacksListed, BackNames
<1>4. ItemsHold' BY <1>1 DEF EditorInv, ItemsHold, Keys, Named, Ids
<1>5. RoomsHold' BY <1>1 DEF EditorInv, RoomsHold, Names, TileKeys, Keys, Ids, Stills
<1>6. TrainHolds' BY <1>1 DEF EditorInv, TrainHolds, Names, TileKeys, Keys, Ids, Stills
<1>7. MapHolds'
  <2>1. BacksOffered' = BacksOffered BY <1>1 DEF BacksOffered, BackNames
  <2>2. m.tiles \subseteq Stills(mapAtlas) /\ m.places \subseteq DOMAIN rooms \cup {"dock"} /\ m.backs \subseteq BacksOffered
    BY DEF PutMap
  <2> QED BY <1>1, <2>1, <2>2 DEF MapHolds, Stills
<1> QED BY <1>2, <1>3, <1>4, <1>5, <1>6, <1>7 DEF EditorInv

LEMMA PutTrainKeeps ==
  ASSUME EditorInv, NEW t \in Trains, PutTrain(t)
  PROVE  EditorInv'
<1>1. /\ train' = t /\ current' = current \cup {"train"}
      /\ UNCHANGED <<art, backFiles, slices, mapSlices, items, rooms, map, atlas, mapAtlas, backs, manifest>>
  BY DEF PutTrain, built
<1>2. TilesNamed' BY <1>1 DEF EditorInv, TilesNamed
<1>3. BuildHolds' BY <1>1 DEF EditorInv, BuildHolds, Stills, Keys, Named, BacksListed, BackNames
<1>4. ItemsHold' BY <1>1 DEF EditorInv, ItemsHold, Keys, Named, Ids
<1>5. RoomsHold' BY <1>1 DEF EditorInv, RoomsHold, Names, TileKeys, Keys, Ids, Stills
<1>6. MapHolds' BY <1>1 DEF EditorInv, MapHolds, Stills, BacksOffered, BackNames
<1>7. TrainHolds'
  <2>1. (\A r \in t.rooms : Names(r)) /\ (atlas # {} => t.layout \subseteq Stills(atlas))
    BY DEF PutTrain, ValidRoom, Names
  <2> QED BY <1>1, <2>1 DEF TrainHolds, Names, TileKeys, Keys, Ids, Stills
<1> QED BY <1>2, <1>3, <1>4, <1>5, <1>6, <1>7 DEF EditorInv

LEMMA ArtKeeps ==
  ASSUME EditorInv, (\E pack \in Art : MoveArt(pack)) \/ (\E png \in BackFiles : MoveBackdrop(png))
  PROVE  EditorInv'
<1>1. ASSUME NEW pack \in Art, MoveArt(pack) PROVE EditorInv'
  <2>1. UNCHANGED <<backFiles, files, built>> /\ current' = (IF pack = BackFolder THEN current \ {"build", "map"} ELSE current)
        /\ art' = IF pack \in art THEN art \ {pack} ELSE art \union {pack}
    BY <1>1 DEF MoveArt
  <2>2. CASE pack = BackFolder
    <3>1. current' \subseteq current /\ "build" \notin current' /\ "map" \notin current' BY <2>1, <2>2
    <3> QED BY <2>1, <3>1, EditorKept
  <2>3. CASE pack # BackFolder
    <3>1. current' = current /\ (BackFolder \in art' <=> BackFolder \in art) BY <2>1, <2>3
    <3>2. BacksListed' = BacksListed /\ BacksOffered' = BacksOffered
      BY <2>1, <3>1 DEF BacksListed, BacksOffered, BackNames, built
    <3> QED BY <2>1, <3>1, <3>2, EditorKept
  <2> QED BY <2>2, <2>3
<1>2. ASSUME NEW png \in BackFiles, MoveBackdrop(png) PROVE EditorInv'
  <2>1. UNCHANGED <<files, built>> /\ current' \subseteq current /\ "build" \notin current' /\ "map" \notin current'
    BY <1>2 DEF MoveBackdrop
  <2> QED BY <2>1, EditorKept
<1> QED BY <1>1, <1>2

LEMMA EditorStep == EditorInv /\ [EditorNext]_editorVars => EditorInv'
<1> SUFFICES ASSUME EditorInv, [EditorNext]_editorVars PROVE EditorInv' OBVIOUS
<1>1. CASE UNCHANGED editorVars
  <2>1. UNCHANGED <<files, built>> /\ current' = current /\ UNCHANGED <<art, backFiles>> BY <1>1 DEF editorVars
  <2>2. BacksListed' = BacksListed /\ BacksOffered' = BacksOffered
    BY <2>1 DEF BacksListed, BacksOffered, BackNames, built
  <2> QED BY <2>1, <2>2, EditorKept
<1> QED
  BY <1>1, BuildKeeps, PutSlicesKeeps, PutItemsKeeps, PutRoomsKeeps, PutMapKeeps, PutTrainKeeps, ArtKeeps DEF EditorNext

\* A room whose names were checked, over a build that was finished, is one the server loads.
LEMMA NamesLoad ==
  ASSUME EditorInv, "build" \in current, NEW r, Names(r), r.fits, r.wants \subseteq Ids(items)
  PROVE  RoomLoads(r)
<1>1. manifest.keys = Keys(Named(slices)) /\ Stills(atlas) = manifest.keys /\ atlas # {} BY DEF EditorInv, BuildHolds
<1>2. TileKeys(slices) \subseteq Keys(Named(slices)) BY DEF EditorInv, TilesNamed, TileKeys, Keys, Named
<1> QED BY <1>1, <1>2 DEF RoomLoads, Names

\* Files that were each saved after everything they name, over a build that was
\* finished after the slices, are files the server starts on (editor.do_PUT,
\* preprocess.cmd_build, catalog.load).
THEOREM CheckedWorldsStart == EditorSpec => []CheckedWorldStarts
<1>1. EditorInit => EditorInv
  BY DEF EditorInit, EditorInv, TilesNamed, BuildHolds, ItemsHold, RoomsHold, MapHolds, TrainHolds
<1>2. EditorInv => CheckedWorldStarts
  <2> SUFFICES ASSUME EditorInv, current = Everything, ServersOwnRules, SomethingForTheMap PROVE ServerStarts
    BY DEF CheckedWorldStarts
  <2>1. "build" \in current /\ "items" \in current /\ "rooms" \in current /\ "map" \in current /\ "train" \in current
    BY DEF Everything
  <2>2. /\ manifest.keys = Keys(Named(slices)) /\ Stills(atlas) = manifest.keys /\ atlas # {}
        /\ manifest.map = Keys(Named(mapSlices)) /\ Stills(mapAtlas) = manifest.map
        /\ manifest.backs = BacksListed
    BY <2>1 DEF EditorInv, BuildHolds, SomethingForTheMap
  <2>3. ItemsLoad BY <2>1, <2>2 DEF EditorInv, ItemsHold, ItemsLoad
  <2>4. Base \in DOMAIN rooms
        /\ \A id \in DOMAIN rooms : RoomLoads(rooms[id]) /\ rooms[id].exits \subseteq DOMAIN rooms \cup {"map"}
    BY <2>1, NamesLoad DEF EditorInv, RoomsHold, ServersOwnRules
  <2>5. RestoreLoads BY DEF ServersOwnRules
  <2>6. MapLoads
    <3>1. BacksOffered = BacksListed BY DEF SomethingForTheMap, BacksOffered, BacksListed
    <3> QED BY <2>1, <2>2, <3>1 DEF EditorInv, MapHolds, MapLoads, ServersOwnRules
  <2>7. TrainLoads BY <2>1, <2>2, NamesLoad DEF EditorInv, TrainHolds, TrainLoads, ServersOwnRules
  <2> QED BY <2>3, <2>4, <2>5, <2>6, <2>7 DEF ServerStarts
<1> QED BY <1>1, <1>2, EditorStep, PTL DEF EditorSpec

-----------------------------------------------------------------------------
(* Locked places. *)

Places == DOMAIN rooms \cup SceneRooms
Hop(p) == IF p \in Locked THEN UnlockerOf(p) ELSE p

LEMMA LockedIs ==
  /\ Locked \subseteq Places
  /\ \A p \in Locked : UnlockerOf(p) \in DOMAIN rooms
<1>1. \A u \in Unlocks : u \in Places \X DOMAIN rooms BY DEF Unlocks, Places
<1>2. Locked \subseteq Places BY <1>1 DEF Locked
<1>3. ASSUME NEW p \in Locked PROVE UnlockerOf(p) \in DOMAIN rooms
  <2>1. PICK u \in Unlocks : p = u[1] BY DEF Locked
  <2>2. u = <<p, u[2]>> /\ u[2] \in DOMAIN rooms BY <1>1, <2>1
  <2>3. \E id \in DOMAIN rooms : <<p, id>> \in Unlocks BY <2>1, <2>2
  <2> QED BY <2>3 DEF UnlockerOf
<1> QED BY <1>2, <1>3

\* A walk from a place to the room that unlocks it, and so on, is what Climb computes.
LEMMA ClimbWalks ==
  ASSUME NEW k \in Nat, NEW T, NEW f \in [0..k -> T], \A i \in 1..k : f[i] = Hop(f[i - 1])
  PROVE  Climb(f[0], k) = f[k]
<1> DEFINE p == f[0]
           at == CHOOSE g : g = [n \in 0..k |-> IF n = 0 THEN p ELSE IF g[n - 1] \in Locked THEN UnlockerOf(g[n - 1]) ELSE g[n - 1]]
<1>1. Climb(p, k) = at[k] BY DEF Climb
<1>2. f = [n \in 0..k |-> IF n = 0 THEN p ELSE IF f[n - 1] \in Locked THEN UnlockerOf(f[n - 1]) ELSE f[n - 1]]
  <2>1. \A n \in 0..k : n = 0 \/ n \in 1..k OBVIOUS
  <2>2. \A n \in 0..k : f[n] = IF n = 0 THEN p ELSE IF f[n - 1] \in Locked THEN UnlockerOf(f[n - 1]) ELSE f[n - 1]
    BY <2>1 DEF Hop
  <2> HIDE DEF p
  <2> QED BY <2>2
<1>3. at = [n \in 0..k |-> IF n = 0 THEN p ELSE IF at[n - 1] \in Locked THEN UnlockerOf(at[n - 1]) ELSE at[n - 1]]
  BY <1>2
<1> HIDE DEF at
<1>4. \A n \in 0..k : at[n] = IF n = 0 THEN p ELSE IF at[n - 1] \in Locked THEN UnlockerOf(at[n - 1]) ELSE at[n - 1]
  BY ONLY <1>3
<1> DEFINE H == {n \in Nat : n <= k => at[n] = f[n]}
<1>5. 0 \in H BY <1>4
<1>6. ASSUME NEW n \in Nat, n \in H PROVE n + 1 \in H
  <2> SUFFICES ASSUME n + 1 <= k PROVE at[n + 1] = f[n + 1] OBVIOUS
  <2>1. n <= k /\ n + 1 \in 1..k /\ n + 1 \in 0..k /\ n + 1 # 0 /\ (n + 1) - 1 = n OBVIOUS
  <2>2. at[n] = f[n] BY <1>6, <2>1
  <2>3. at[n + 1] = Hop(at[n]) BY <1>4, <2>1 DEF Hop
  <2>4. f[n + 1] = Hop(f[n]) BY <2>1
  <2> QED BY <2>2, <2>3, <2>4
<1> HIDE DEF H
<1>7. k \in H BY <1>5, <1>6, NatInduct
<1> QED BY <1>1, <1>7 DEF H

\* Among locked places that only keep each other shut there is one from which the walk comes back.
LEMMA ShutMeansCycle ==
  ASSUME IsFiniteSet(Locked), NEW shut \in SUBSET Locked, shut # {}, \A p \in shut : UnlockerOf(p) \in shut
  PROVE  \E p \in Locked : \E n \in Hops : Climb(p, n) = p
<1> DEFINE K == Cardinality(shut)
           G == [x \in (1..K) \X shut |-> Hop(x[2])]
<1>1. IsFiniteSet(shut) /\ K \in Nat /\ K <= Cardinality(Locked) /\ Cardinality(Locked) \in Nat
  BY FS_Subset, FS_CardinalityType
<1>2. G \in [(1..K) \X shut -> shut] BY DEF Hop
<1>3. PICK first \in shut : TRUE OBVIOUS
<1>4. PICK f \in [0..K -> shut] : f[0] = first /\ \A i \in 1..K : f[i] = G[<<i, f[i - 1]>>]
  <2> HIDE DEF G, K
  <2>1. Runs(K, shut, first, G) # {} BY <1>1, <1>2, Recursion
  <2> QED BY <2>1 DEF Runs
<1>5. \A i \in 1..K : f[i] = Hop(f[i - 1])
  <2> SUFFICES ASSUME NEW i \in 1..K PROVE f[i] = Hop(f[i - 1]) OBVIOUS
  <2>1. i - 1 \in 0..K BY <1>1
  <2>2. <<i, f[i - 1]>> \in (1..K) \X shut BY <2>1
  <2> QED BY <1>4, <2>2
<1> HIDE DEF G
<1>6. IsFiniteSet(0..K) /\ Cardinality(0..K) = K + 1 BY <1>1, FS_Interval
<1>7. K < Cardinality(0..K) BY <1>1, <1>6
<1>8. PICK x, y \in 0..K : x # y /\ f[x] = f[y] BY <1>1, <1>6, <1>7, FS_PigeonHole
<1>9. PICK i \in 0..K, j \in 0..K : i < j /\ f[i] = f[j]
  <2>1. x < y \/ y < x BY <1>1, <1>8
  <2> QED BY <1>8, <2>1
<1>10. PICK k : k = j - i OBVIOUS
<1>11. k \in Nat /\ k >= 1 /\ k <= K /\ i + k = j BY <1>1, <1>9, <1>10
<1> HIDE DEF K
<1>12. PICK g : g = [m \in 0..k |-> f[i + m]] OBVIOUS
<1>13. \A m \in 0..k : i + m \in 0..K BY <1>1, <1>9, <1>11
<1>14. g \in [0..k -> shut] BY <1>12, <1>13
<1>15. \A m \in 1..k : g[m] = Hop(g[m - 1])
  <2> SUFFICES ASSUME NEW m \in 1..k PROVE g[m] = Hop(g[m - 1]) OBVIOUS
  <2>1. m \in 0..k /\ m - 1 \in 0..k /\ i + m \in 1..K /\ (i + m) - 1 = i + (m - 1) BY <1>1, <1>9, <1>11
  <2>2. g[m] = f[i + m] /\ g[m - 1] = f[i + (m - 1)] BY <1>12, <2>1
  <2> QED BY <1>5, <2>1, <2>2
<1>16. Climb(g[0], k) = g[k] BY <1>11, <1>14, <1>15, ClimbWalks
<1>17. g[0] = f[i] /\ g[k] = f[j]
  <2>1. 0 \in 0..k /\ k \in 0..k /\ i + 0 = i BY <1>9, <1>11
  <2> QED BY <1>11, <1>12, <2>1
<1>18. g[0] \in Locked /\ Climb(g[0], k) = g[0] BY <1>9, <1>16, <1>17
<1>19. k \in Hops BY <1>1, <1>11 DEF Hops
<1> QED BY <1>18, <1>19

OneOfTheWorlds == rooms \in Worlds

\* On a world the server accepts every locked place opens: a set of places that
\* keeps itself shut holds a cycle, and the walk is long enough to find it
\* (catalog._check_restore).
THEOREM EveryPlaceOpens == EditorSpec => []EverythingOpens
<1>1. EditorInit => OneOfTheWorlds BY EditorAssumption DEF EditorInit, OneOfTheWorlds
<1>2. OneOfTheWorlds /\ [EditorNext]_editorVars => OneOfTheWorlds'
  BY DEF OneOfTheWorlds, EditorNext, editorVars, files, PutSlices, PutItems, PutRooms, PutMap, PutTrain, Build, MoveArt, MoveBackdrop
<1>3. OneOfTheWorlds => EverythingOpens
  <2> SUFFICES ASSUME rooms \in Worlds, RestoreLoads, NEW shut \in (SUBSET Locked) \ {{}}, \A p \in shut : UnlockerOf(p) \in shut
               PROVE  FALSE
    BY DEF EverythingOpens, OneOfTheWorlds
  <2>1. IsFiniteSet(DOMAIN rooms) BY EditorAssumption
  <2>2. IsFiniteSet(SceneRooms)
    <3>1. IsFiniteSet({"map"}) /\ IsFiniteSet({"dock"}) BY FS_Singleton
    <3>2. SceneRooms = {"map"} \cup {"dock"} BY DEF SceneRooms
    <3> QED BY <3>1, <3>2, FS_Union
  <2>3. IsFiniteSet(Places) BY <2>1, <2>2, FS_Union DEF Places
  <2>4. IsFiniteSet(Locked) BY <2>3, LockedIs, FS_Subset
  <2>5. shut \in SUBSET Locked /\ shut # {} OBVIOUS
  <2>6. \E p \in Locked : \E n \in Hops : Climb(p, n) = p BY <2>4, <2>5, ShutMeansCycle
  <2> QED BY <2>6 DEF RestoreLoads
<1> QED BY <1>1, <1>2, <1>3, PTL DEF EditorSpec
=============================================================================
