-------------------------- MODULE StatePersistence --------------------------
(***************************************************************************)
(* How the mixer model reaches the disk and comes back.  The pump copies   *)
(* the model into g_stateSnap and bumps a counter; a saver thread writes   *)
(* the snapshot once it has been stable; SaverGuard writes it again on the *)
(* way out of main (uf-daemon.cpp); both use save_blob, a temporary file   *)
(* and a rename (uf_state_store.hpp).                                      *)
(*                                                                         *)
(* The model is larger than any word or buffer, so it is copied, read and  *)
(* written in halves; a half holds the number of the last change made to   *)
(* it.  Files are inodes, because both writers use one temporary name: a   *)
(* rename moves an inode somebody may still be writing to.                 *)
(***************************************************************************)
EXTENDS Naturals, FiniteSets

CONSTANTS
  kStablePolls,  \* polls without a change before the saver writes
  MaxChanges,    \* bound on changes to the model
  MaxStops,      \* bound on SIGTERMs
  MaxExits,      \* bound on exit(1) from restart_session
  MaxFails,      \* bound on failing file operations
  MaxCrashes     \* bound on kills and crashes of the process

ASSUME PollsAssumption == kStablePolls \in Nat \ {0}
ASSUME BoundsAssumption ==
  /\ MaxChanges \in Nat /\ MaxStops \in Nat
  /\ MaxExits \in Nat /\ MaxFails \in Nat /\ MaxCrashes \in Nat

Halves == {1, 2}
Writers == {"saver", "guard"}
Inodes == 1..4           \* one per name and one per writer are enough
None == 0                \* no inode
Blank == MaxChanges + 1  \* a half of a file that is not there

VARIABLES
  main,     \* the main thread
  model,    \* g_model: half -> its last change
  past,     \* history: every value the model has had
  snap,     \* g_stateSnap
  pending,  \* halves of g_stateSnap the pump has still to copy
  snapSeq,  \* g_stateSnapSeq
  saver,    \* the saver thread: seen, lastSeq, stable, and whether it lives
  run,      \* g_stateRun
  save,     \* writer -> its save_blob in progress
  inode,    \* inode -> contents
  names,    \* the state file and its temporary: an inode or None
  budget    \* events left, per kind

vars == <<main, model, past, snap, pending, snapSeq, saver, run, save, inode,
          names, budget>>

Whole(n) == [h \in Halves |-> n]
NotSaving == [at |-> "idle", seq |-> 0, fd |-> None, read |-> {}, wrote |-> {},
              buf |-> Whole(0)]
FreshSaver == [seen |-> 0, lastSeq |-> 0, stable |-> 0, alive |-> TRUE]

Init ==
  /\ main = "pump" /\ model = Whole(0) /\ past = {Whole(0)}
  /\ snap = Whole(0) /\ pending = {} /\ snapSeq = 0
  /\ saver = FreshSaver /\ run = TRUE
  /\ save = [w \in Writers |-> NotSaving]
  /\ inode = [i \in Inodes |-> Whole(Blank)]
  /\ names = [file |-> None, tmp |-> None]
  /\ budget = [change |-> MaxChanges, stop |-> MaxStops, exit |-> MaxExits,
               fail |-> MaxFails, crash |-> MaxCrashes]

Spend(kind) == budget[kind] > 0 /\ budget' = [budget EXCEPT ![kind] = @ - 1]

-----------------------------------------------------------------------------
(* The pump *)

\* A command changed cells in some halves of the model (a submix: in both);
\* the pump starts the snapshot.
Change(changed) ==
  /\ main = "pump" /\ Spend("change")
  /\ model' = [h \in Halves |->
                 IF h \in changed THEN MaxChanges - budget'["change"]
                                 ELSE model[h]]
  /\ past' = past \cup {model'}
  /\ main' = "snapshot" /\ pending' = Halves
  /\ UNCHANGED <<snap, snapSeq, saver, run, save, inode, names>>

CopyHalf(h) ==
  /\ main = "snapshot" /\ h \in pending
  /\ snap' = [snap EXCEPT ![h] = model[h]]
  /\ pending' = pending \ {h}
  /\ UNCHANGED <<main, model, past, snapSeq, saver, run, save, inode, names,
                 budget>>

EndSnapshot ==
  /\ main = "snapshot" /\ pending = {}
  /\ snapSeq' = snapSeq + 1
  /\ main' = "pump"
  /\ UNCHANGED <<model, past, snap, pending, saver, run, save, inode, names,
                 budget>>

-----------------------------------------------------------------------------
(* save_blob, by either writer *)

Outside == <<main, model, past, snap, pending, snapSeq, run>>

\* Mutation: the saver believes it has written the newest snapshot.
Return_Newest(w, ok) ==
  /\ save' = [save EXCEPT ![w] = NotSaving]
  /\ saver' = IF w = "guard" THEN saver
              ELSE [saver EXCEPT !.seen = IF ok THEN snapSeq ELSE @,
                                 !.alive = run]

\* Back in the caller with save_blob's result.  The saver remembers what it has
\* written and looks at g_stateRun at the top of its loop.
Return(w, ok) ==
  /\ save' = [save EXCEPT ![w] = NotSaving]
  /\ saver' = IF w = "guard" THEN saver
              ELSE [saver EXCEPT !.seen = IF ok THEN save[w].seq ELSE @,
                                 !.alive = run]

\* fopen(tmp, "wb"): truncates what is there, or makes a new file.
Open(w) ==
  /\ save[w].at = "open"
  /\ LET i == IF names.tmp # None THEN names.tmp
              ELSE CHOOSE n \in Inodes :
                     n \notin {names.file} \cup {save[v].fd : v \in Writers}
     IN /\ names' = [names EXCEPT !.tmp = i]
        /\ inode' = [inode EXCEPT ![i] = Whole(Blank)]
        /\ save' = [save EXCEPT ![w].at = "write", ![w].fd = i,
                                ![w].read = {}, ![w].wrote = {}]
  /\ UNCHANGED <<Outside, saver, budget>>

\* fwrite takes a half of the live g_stateSnap ...
Read(w, h) ==
  /\ save[w].at = "write" /\ h \notin save[w].read
  /\ save' = [save EXCEPT ![w].read = @ \cup {h}, ![w].buf[h] = snap[h]]
  /\ UNCHANGED <<Outside, saver, inode, names, budget>>

\* ... and stdio passes it on to the file, at fclose at the latest.
Flush(w, h) ==
  /\ save[w].at = "write" /\ h \in save[w].read \ save[w].wrote
  /\ inode' = [inode EXCEPT ![save[w].fd][h] = save[w].buf[h]]
  /\ save' = [save EXCEPT ![w].wrote = @ \cup {h}]
  /\ UNCHANGED <<Outside, saver, names, budget>>

\* Mutation: the file is renamed before fclose has passed on its buffers.
Rename_Unflushed(w) ==
  /\ save[w].at = "write" /\ save[w].read = Halves
  /\ LET ok == names.tmp # None
     IN /\ names' = IF ok THEN [file |-> names.tmp, tmp |-> None] ELSE names
        /\ Return(w, ok)
  /\ UNCHANGED <<Outside, inode, budget>>

\* rename, which fails when the other writer has renamed the file away.
Rename(w) ==
  /\ save[w].at = "write" /\ save[w].wrote = Halves
  /\ LET ok == names.tmp # None
     IN /\ names' = IF ok THEN [file |-> names.tmp, tmp |-> None] ELSE names
        /\ Return(w, ok)
  /\ UNCHANGED <<Outside, inode, budget>>

\* An operation on the file failed (no space, no permission): the temporary
\* file, if fopen made it, is removed.
Fail(w) ==
  /\ save[w].at # "idle" /\ Spend("fail")
  /\ names' = IF save[w].at = "open" THEN names ELSE [names EXCEPT !.tmp = None]
  /\ Return(w, FALSE)
  /\ UNCHANGED <<Outside, inode>>

-----------------------------------------------------------------------------
(* The saver thread's loop *)

\* After usleep: what a poll makes of the counter.
StillChanging == snapSeq # saver.lastSeq
NothingNew == ~StillChanging /\ snapSeq \in {saver.seen, 0}
Quiet == saver.stable + 1 >= kStablePolls

\* Mutation: polls with nothing to write count as quiet ones.
PollAgain_CountsAll ==
  /\ saver.alive /\ save["saver"].at = "idle"
  /\ StillChanging \/ NothingNew \/ ~Quiet
  /\ saver' = [saver EXCEPT !.lastSeq = snapSeq, !.alive = run,
                            !.stable = IF StillChanging THEN 0 ELSE @ + 1]
  /\ UNCHANGED <<Outside, save, inode, names, budget>>

\* A poll that does not save.
PollAgain ==
  /\ saver.alive /\ save["saver"].at = "idle"
  /\ StillChanging \/ NothingNew \/ ~Quiet
  /\ saver' = [saver EXCEPT !.lastSeq = snapSeq, !.alive = run,
                            !.stable = IF StillChanging THEN 0
                                       ELSE IF NothingNew THEN @ ELSE @ + 1]
  /\ UNCHANGED <<Outside, save, inode, names, budget>>

\* A poll that has seen the snapshot stay as it is for long enough.
PollSave ==
  /\ saver.alive /\ save["saver"].at = "idle"
  /\ ~StillChanging /\ ~NothingNew /\ Quiet
  /\ save' = [save EXCEPT !["saver"].at = "open", !["saver"].seq = snapSeq]
  /\ UNCHANGED <<Outside, saver, inode, names, budget>>

-----------------------------------------------------------------------------
(* The ways out, and the way back in *)

\* SIGTERM: the pump loop ends and ~SaverGuard saves if there is anything.
Stop ==
  /\ main = "pump" /\ Spend("stop")
  /\ main' = "guard"
  /\ save' = IF snapSeq = 0 THEN save ELSE [save EXCEPT !["guard"].at = "open"]
  /\ UNCHANGED <<model, past, snap, pending, snapSeq, saver, run, inode, names>>

\* Then it stops the saver ...
StopSaver ==
  /\ main = "guard" /\ save["guard"].at = "idle"
  /\ main' = "join" /\ run' = FALSE
  /\ UNCHANGED <<model, past, snap, pending, snapSeq, saver, save, inode, names,
                 budget>>

\* Mutation: the saver is not waited for.
Join_Detaches ==
  /\ main = "join"
  /\ main' = "stopped"
  /\ UNCHANGED <<model, past, snap, pending, snapSeq, saver, run, save, inode,
                 names, budget>>

\* ... and joins it.
Join ==
  /\ main = "join" /\ ~saver.alive
  /\ main' = "stopped"
  /\ UNCHANGED <<model, past, snap, pending, snapSeq, saver, run, save, inode,
                 names, budget>>

\* The process is gone; files stay as they are.
Gone(next) ==
  /\ main' = next
  /\ save' = [w \in Writers |-> NotSaving]
  /\ pending' = {}
  /\ saver' = [saver EXCEPT !.alive = FALSE]
  /\ UNCHANGED <<model, past, snap, snapSeq, run, inode, names>>

\* restart_session gives up with std::exit(1).
Exit == main = "pump" /\ Spend("exit") /\ Gone("stopped")

\* The process is killed at any point; what it has passed to write() stays.
Crash == main \notin {"down", "stopped"} /\ Spend("crash") /\ Gone("down")

\* load_blob accepts a file only if all of it is there.
Loadable == names.file # None /\ \A h \in Halves : inode[names.file][h] # Blank

\* launchd starts the daemon again: defaults, then the saved model over them.
Start ==
  /\ main \in {"down", "stopped"}
  /\ main' = "pump"
  /\ model' = IF Loadable THEN inode[names.file] ELSE Whole(0)
  /\ snap' = Whole(0) /\ snapSeq' = 0
  /\ saver' = FreshSaver /\ run' = TRUE
  /\ UNCHANGED <<past, pending, save, inode, names, budget>>

Next ==
  \/ \E changed \in SUBSET Halves \ {{}} : Change(changed)
  \/ EndSnapshot \/ \E h \in Halves : CopyHalf(h)
  \/ \E w \in Writers : Open(w) \/ Rename(w) \/ Fail(w)
  \/ \E w \in Writers, h \in Halves : Read(w, h) \/ Flush(w, h)
  \/ PollAgain \/ PollSave
  \/ Stop \/ StopSaver \/ Join \/ Exit \/ Crash \/ Start

\* Threads run on; a stopped daemon is started again.
Fairness ==
  /\ WF_vars(EndSnapshot \/ \E h \in Halves : CopyHalf(h))
  /\ \A w \in Writers :
       WF_vars(\/ Open(w) \/ Rename(w)
               \/ \E h \in Halves : Read(w, h) \/ Flush(w, h))
  /\ WF_vars(PollAgain \/ PollSave)
  /\ WF_vars(StopSaver \/ Join) /\ WF_vars(Start)

Spec == Init /\ [][Next]_vars /\ Fairness

-----------------------------------------------------------------------------
Snapshots == [Halves -> 0..MaxChanges]

TypeOK ==
  /\ main \in {"pump", "snapshot", "guard", "join", "stopped", "down"}
  /\ model \in Snapshots /\ past \subseteq Snapshots
  /\ snap \in Snapshots /\ pending \subseteq Halves
  /\ snapSeq \in Nat
  /\ saver \in [seen: Nat, lastSeq: Nat, stable: 0..kStablePolls,
                alive: BOOLEAN]
  /\ run \in BOOLEAN
  /\ save \in [Writers -> [at: {"idle", "open", "write"}, seq: Nat,
                           fd: {None} \cup Inodes, read: SUBSET Halves,
                           wrote: SUBSET Halves, buf: Snapshots]]
  /\ inode \in [Inodes -> [Halves -> 0..Blank]]
  /\ names \in [file: {None} \cup Inodes, tmp: {None} \cup Inodes]

\* Once there is a state file there is never less than a whole one, at any
\* moment a crash may strike, up to the SIGTERM that makes SaverGuard a second
\* writer: uf_state_store.hpp's "the old file or the new one and never half of
\* either".
FileComplete == names.file # None /\ budget["stop"] = MaxStops => Loadable

\* The state file holds the model as it was at some moment, and no mixture of
\* two moments: uf-daemon.cpp's "it can never observe a half-updated matrix".
FileIsOneSnapshot == Loadable => inode[names.file] \in past

\* The state file holds the model as it is.
OnFile == Loadable /\ inode[names.file] = model

\* A change the daemon lives long enough to save is on disk, whole, in the end,
\* whatever the saver was doing when it was made, unless another change
\* overtakes it.
ChangesReachDisk ==
  \A left \in 0..(MaxChanges - 1) :
    (main = "pump" /\ snapSeq > 0 /\ budget["change"] = left)
      ~> (main # "pump" \/ budget["change"] # left \/ OnFile)

\* A SIGTERM that finds the saver between two saves ends the process with the
\* model on file, though the saver may still wake, open the same temporary file
\* and write it alongside SaverGuard, unless a file operation fails or the
\* process is killed meanwhile.
QuietStopSaves ==
  (main = "guard" /\ save["guard"].at = "open" /\ save["saver"].at = "idle")
    ~> (\/ main = "stopped" /\ OnFile
        \/ budget["fail"] < MaxFails \/ budget["crash"] < MaxCrashes)
=============================================================================
