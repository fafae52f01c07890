----------------------------- MODULE StateProofs ----------------------------
(***************************************************************************)
(* The state file proved whole for any number of changes, failures,        *)
(* crashes and restarts, up to the SIGTERM that makes a second writer.     *)
(***************************************************************************)
EXTENDS StatePersistence, TLAPS

SaveType ==
  [at: {"idle", "open", "write"}, seq: Nat, fd: {None} \cup Inodes,
   read: SUBSET Halves, wrote: SUBSET Halves, buf: Snapshots]
SaverType == [seen: Nat, lastSeq: Nat, stable: 0..kStablePolls, alive: BOOLEAN]
NamesType == [file: {None} \cup Inodes, tmp: {None} \cup Inodes]
FileType == [Halves -> 0..Blank]

\* What is left of each kind of event.
BudgetOK ==
  budget \in [change: 0..MaxChanges, stop: 0..MaxStops, exit: 0..MaxExits,
              fail: 0..MaxFails, crash: 0..MaxCrashes]

\* What is on disk while the saver is the only writer: the state file is whole, the
\* temporary one is another file, the one the saver is writing, and the halves
\* the saver has passed on are in it.
DiskInv ==
  /\ names.file # None => \A h \in Halves : inode[names.file][h] # Blank
  /\ names.tmp # None => names.tmp # names.file
  /\ save["saver"].at = "write" =>
       /\ save["saver"].fd = names.tmp /\ names.tmp # None
       /\ \A h \in save["saver"].wrote : inode[names.tmp][h] # Blank

\* Before the first SIGTERM SaverGuard writes nothing.
SoleWriter == budget["stop"] = MaxStops => save["guard"].at = "idle" /\ DiskInv

\* The inductive invariant of the state file.
StateInv == TypeOK /\ BudgetOK /\ SoleWriter
-----------------------------------------------------------------------------
\* The types by name, and the numbers the steps below keep needing.
LEMMA StateFacts ==
  ASSUME TypeOK
  PROVE  /\ MaxChanges \in Nat /\ MaxStops \in Nat /\ kStablePolls \in Nat \ {0}
         /\ Blank \in Nat /\ Blank \notin 0..MaxChanges /\ MaxChanges < Blank
         /\ save \in [Writers -> SaveType] /\ saver \in SaverType
         /\ inode \in [Inodes -> FileType] /\ names \in NamesType
BY PollsAssumption, BoundsAssumption
   DEF TypeOK, Blank, SaveType, SaverType, NamesType, FileType

\* The type invariant after a step, put together from the types by name.
LEMMA TypeNext ==
  ASSUME main' \in {"pump", "snapshot", "guard", "join", "stopped", "down"},
         model' \in Snapshots, past' \subseteq Snapshots, snap' \in Snapshots,
         pending' \subseteq Halves, snapSeq' \in Nat, saver' \in SaverType,
         run' \in BOOLEAN, save' \in [Writers -> SaveType],
         inode' \in [Inodes -> FileType], names' \in NamesType
  PROVE  TypeOK'
BY Zenon DEF TypeOK, SaverType, SaveType, FileType, NamesType

\* Spending takes an event from one kind and leaves the others.
LEMMA SpendKeeps ==
  ASSUME BudgetOK, NEW kind \in {"change", "stop", "exit", "fail", "crash"}, Spend(kind)
  PROVE  /\ BudgetOK'
         /\ kind # "stop" => budget'["stop"] = budget["stop"]
         /\ kind = "stop" => budget'["stop"] # MaxStops
         /\ kind = "change" => MaxChanges - budget'["change"] \in 0..MaxChanges
BY BoundsAssumption DEF BudgetOK, Spend

\* What touches neither writer and no file leaves the disk as it is.
LEMMA DiskKept ==
  ASSUME SoleWriter, UNCHANGED <<save, inode, names>>,
         budget'["stop"] = MaxStops => budget["stop"] = MaxStops
  PROVE  SoleWriter'
BY DEF SoleWriter, DiskInv

\* A writer that has returned is idle, and the saver knows what it has written.
LEMMA ReturnKeeps ==
  ASSUME TypeOK, NEW w \in Writers, NEW ok \in BOOLEAN, Return(w, ok)
  PROVE  /\ save' \in [Writers -> SaveType] /\ saver' \in SaverType
         /\ save'[w].at = "idle" /\ \A v \in Writers \ {w} : save'[v] = save[v]
<1> USE StateFacts
<1>1. NotSaving \in SaveType
  BY DEF NotSaving, SaveType, Snapshots, Whole, None
<1>2. /\ save' \in [Writers -> SaveType]
      /\ save'[w].at = "idle" /\ \A v \in Writers \ {w} : save'[v] = save[v]
  BY <1>1 DEF Return, NotSaving
<1>3. saver' \in SaverType
  <2>1. save[w].seq \in Nat
    BY DEF SaveType
  <2> QED BY <2>1 DEF Return, SaverType, TypeOK
<1> QED BY <1>2, <1>3

-----------------------------------------------------------------------------
(* The pump *)

\* A change of the model is a number the model may hold.
LEMMA ChangeKeeps ==
  ASSUME StateInv, NEW changed \in SUBSET Halves, Change(changed) PROVE StateInv'
<1> USE StateFacts DEF StateInv
<1>1. BudgetOK' /\ budget'["stop"] = budget["stop"]
      /\ MaxChanges - budget'["change"] \in 0..MaxChanges
  BY SpendKeeps DEF Change
<1>2. model' \in Snapshots
  BY <1>1 DEF Change, TypeOK, Snapshots
<1>3. TypeOK'
  <2>1. past' \subseteq Snapshots /\ pending' \subseteq Halves /\ main' = "snapshot"
    BY <1>2 DEF Change, TypeOK
  <2>2. UNCHANGED <<snap, snapSeq, saver, run, save, inode, names>>
    BY DEF Change
  <2> QED BY <1>2, <2>1, <2>2, TypeNext DEF TypeOK
<1>4. SoleWriter'
  BY <1>1, DiskKept DEF Change
<1> QED BY <1>1, <1>3, <1>4

\* Copying a half touches the snapshot and nothing on disk.
LEMMA CopyHalfKeeps ==
  ASSUME StateInv, NEW h \in Halves, CopyHalf(h) PROVE StateInv'
<1> USE StateFacts DEF StateInv
<1>1. snap' \in Snapshots /\ pending' \subseteq Halves
  BY DEF CopyHalf, TypeOK, Snapshots
<1>2. TypeOK' /\ BudgetOK'
  BY <1>1, TypeNext DEF CopyHalf, TypeOK, BudgetOK
<1>3. SoleWriter'
  BY DiskKept DEF CopyHalf
<1> QED BY <1>2, <1>3

\* The end of a snapshot counts it.
LEMMA EndSnapshotKeeps == ASSUME StateInv, EndSnapshot PROVE StateInv'
<1> USE StateFacts DEF StateInv
<1>1. TypeOK' /\ BudgetOK'
  BY TypeNext DEF EndSnapshot, TypeOK, BudgetOK
<1>2. SoleWriter'
  BY DiskKept DEF EndSnapshot
<1> QED BY <1>1, <1>2

-----------------------------------------------------------------------------
(* save_blob *)

\* fopen truncates the temporary file or makes one, and neither is the state file.
LEMMA OpenKeeps == ASSUME StateInv, NEW w \in Writers, Open(w) PROVE StateInv'
<1> USE StateFacts DEF StateInv
<1> DEFINE other(n) == n \notin {names.file} \cup {save[v].fd : v \in Writers}
           i == IF names.tmp # None THEN names.tmp ELSE CHOOSE n \in Inodes : other(n)
<1>1. \E n \in Inodes : other(n)
  <2>1. {save[v].fd : v \in Writers} = {save["saver"].fd, save["guard"].fd}
    BY DEF Writers
  <2>2. \E n \in Inodes : n # names.file /\ n # save["saver"].fd /\ n # save["guard"].fd
    BY DEF Inodes
  <2> QED BY <2>1, <2>2
<1>2. i \in Inodes /\ (names.tmp = None => i # names.file)
  BY <1>1 DEF NamesType
<1>3. /\ names' = [names EXCEPT !.tmp = i]
      /\ inode' = [inode EXCEPT ![i] = Whole(Blank)]
      /\ save' = [save EXCEPT ![w] = [save[w] EXCEPT !.at = "write", !.fd = i,
                                                     !.read = {}, !.wrote = {}]]
      /\ UNCHANGED <<main, model, past, snap, pending, snapSeq, run, saver, budget>>
  <2>1. /\ names' = [names EXCEPT !.tmp = i]
        /\ inode' = [inode EXCEPT ![i] = Whole(Blank)]
        /\ save' = [save EXCEPT ![w].at = "write", ![w].fd = i, ![w].read = {},
                                ![w].wrote = {}]
    BY Zenon DEF Open
  <2>2. UNCHANGED <<main, model, past, snap, pending, snapSeq, run, saver, budget>>
    BY DEF Open, Outside
  <2> HIDE DEF i
  <2> QED BY <2>1, <2>2
<1> HIDE DEF i
<1>4. names' \in NamesType /\ names'.tmp = i /\ names'.file = names.file
  BY <1>2, <1>3 DEF NamesType
<1>5. inode' \in [Inodes -> FileType] /\ \A n \in Inodes \ {i} : inode'[n] = inode[n]
  BY <1>2, <1>3 DEF FileType, Whole
<1>6. /\ save' \in [Writers -> SaveType] /\ save'[w].fd = i /\ save'[w].wrote = {}
      /\ \A v \in Writers \ {w} : save'[v] = save[v]
  <2>1. [save[w] EXCEPT !.at = "write", !.fd = i, !.read = {}, !.wrote = {}] \in SaveType
    BY <1>2 DEF SaveType
  <2> QED BY <1>3, <2>1 DEF SaveType
<1>7. TypeOK' /\ BudgetOK'
  BY <1>3, <1>4, <1>5, <1>6, TypeNext DEF TypeOK, BudgetOK
<1>8. SoleWriter'
  <2> SUFFICES ASSUME budget["stop"] = MaxStops PROVE SoleWriter'
    BY <1>3 DEF SoleWriter
  <2>1. w = "saver" /\ save["guard"].at = "idle" /\ DiskInv
    BY DEF SoleWriter, Open, Writers
  <2>2. i # names.file /\ i # None
    <3>1. names.tmp # None => i = names.tmp
      BY DEF i
    <3> QED BY <1>2, <2>1, <3>1 DEF DiskInv, Inodes, None
  <2>3. names'.file # None => \A h \in Halves : inode'[names'.file][h] # Blank
    BY <2>1, <2>2, <1>4, <1>5 DEF DiskInv, NamesType
  <2>4. save'["guard"].at = "idle"
    BY <2>1, <1>6 DEF Writers
  <2> QED BY <2>1, <2>2, <2>3, <2>4, <1>4, <1>6 DEF SoleWriter, DiskInv
<1> QED BY <1>7, <1>8

\* Reading a half of the snapshot leaves the files alone.
LEMMA ReadKeeps ==
  ASSUME StateInv, NEW w \in Writers, NEW h \in Halves, Read(w, h) PROVE StateInv'
<1> USE StateFacts DEF StateInv
<1> DEFINE now == [save[w] EXCEPT !.read = @ \cup {h}, !.buf = [@ EXCEPT ![h] = snap[h]]]
<1>1. /\ save' = [save EXCEPT ![w] = now]
      /\ UNCHANGED <<main, model, past, snap, pending, snapSeq, run, saver, inode, names,
                     budget>>
  BY ZenonT(40) DEF Read, Outside
<1>2. now \in SaveType /\ now.at = save[w].at /\ now.fd = save[w].fd
      /\ now.wrote = save[w].wrote
  <2>1. [save[w].buf EXCEPT ![h] = snap[h]] \in Snapshots
    BY DEF SaveType, Snapshots, TypeOK
  <2> QED BY <2>1 DEF SaveType
<1> HIDE DEF now
<1>3. /\ save' \in [Writers -> SaveType] /\ save'[w] = now
      /\ \A v \in Writers \ {w} : save'[v] = save[v]
  BY <1>1, <1>2
<1>4. TypeOK' /\ BudgetOK'
  BY <1>1, <1>3, TypeNext DEF TypeOK, BudgetOK
<1>5. \A v \in Writers : /\ save'[v].at = save[v].at /\ save'[v].fd = save[v].fd
                         /\ save'[v].wrote = save[v].wrote
  BY <1>2, <1>3
<1>6. SoleWriter'
  BY <1>1, <1>5 DEF SoleWriter, DiskInv, Writers
<1> QED BY <1>4, <1>6

\* Passing a half on writes to the temporary file, never to the state file.
LEMMA FlushKeeps ==
  ASSUME StateInv, NEW w \in Writers, NEW h \in Halves, Flush(w, h) PROVE StateInv'
<1> USE StateFacts DEF StateInv
<1> DEFINE now == [save[w] EXCEPT !.wrote = @ \cup {h}]
           f   == save[w].fd
<1>1. /\ save' = [save EXCEPT ![w] = now]
      /\ inode' = [inode EXCEPT ![f] = [@ EXCEPT ![h] = save[w].buf[h]]]
      /\ UNCHANGED <<main, model, past, snap, pending, snapSeq, run, saver, names, budget>>
  BY DEF Flush, Outside
<1>2. now \in SaveType /\ now.at = save[w].at /\ now.fd = save[w].fd
      /\ now.wrote = save[w].wrote \cup {h}
  BY DEF SaveType
<1>b. save[w].buf[h] \in 0..MaxChanges
  BY DEF SaveType, Snapshots
<1> HIDE DEF now
<1>3. /\ save' \in [Writers -> SaveType] /\ save'[w] = now
      /\ \A v \in Writers \ {w} : save'[v] = save[v]
  BY <1>1, <1>2
<1>4. inode' \in [Inodes -> FileType]
  <2>1. f \in Inodes => [inode[f] EXCEPT ![h] = save[w].buf[h]] \in FileType
    BY <1>b DEF FileType
  <2> HIDE DEF f
  <2> QED BY <1>1, <2>1
<1>5. TypeOK' /\ BudgetOK'
  BY <1>1, <1>3, <1>4, TypeNext DEF TypeOK, BudgetOK
<1>6. SoleWriter'
  <2> SUFFICES ASSUME budget["stop"] = MaxStops PROVE SoleWriter'
    BY <1>1 DEF SoleWriter
  <2>1. w = "saver" /\ save["guard"].at = "idle" /\ DiskInv /\ save["saver"].at = "write"
    BY DEF SoleWriter, Flush, Writers
  <2>2. f = names.tmp /\ f # None /\ f # names.file /\ f \in Inodes
    BY <2>1 DEF DiskInv, NamesType
  <2>3. \A n \in Inodes \ {f} : inode'[n] = inode[n]
    BY <1>1
  <2>4. names'.file # None => \A g \in Halves : inode'[names'.file][g] # Blank
    BY <2>1, <2>2, <2>3, <1>1 DEF DiskInv, NamesType
  <2>5. inode'[f] = [inode[f] EXCEPT ![h] = save[w].buf[h]]
    BY <1>1, <2>2
  <2>6. \A g \in save[w].wrote \cup {h} : inode'[f][g] # Blank
    BY <2>1, <2>2, <2>5, <1>b DEF DiskInv, FileType, SaveType
  <2>7. save'["guard"].at = "idle"
    BY <2>1, <1>3 DEF Writers
  <2> QED BY <2>1, <2>2, <2>4, <2>6, <2>7, <1>1, <1>2, <1>3 DEF SoleWriter, DiskInv
<1> QED BY <1>5, <1>6
\* rename puts a file in place only when both halves have been passed on to it.
LEMMA RenameKeeps == ASSUME StateInv, NEW w \in Writers, Rename(w) PROVE StateInv'
<1> USE StateFacts DEF StateInv
<1> DEFINE ok == names.tmp # None
<1>1. /\ names' = IF ok THEN [file |-> names.tmp, tmp |-> None] ELSE names
      /\ Return(w, ok) /\ ok \in BOOLEAN
      /\ UNCHANGED <<main, model, past, snap, pending, snapSeq, run, inode, budget>>
  BY DEF Rename, Outside
<1>2. /\ save' \in [Writers -> SaveType] /\ saver' \in SaverType
      /\ save'[w].at = "idle" /\ \A v \in Writers \ {w} : save'[v] = save[v]
  BY <1>1, ReturnKeeps
<1>3. names' \in NamesType
  BY <1>1 DEF NamesType
<1>4. TypeOK' /\ BudgetOK'
  BY <1>1, <1>2, <1>3, TypeNext DEF TypeOK, BudgetOK
<1>5. SoleWriter'
  <2> SUFFICES ASSUME budget["stop"] = MaxStops PROVE SoleWriter'
    BY <1>1 DEF SoleWriter
  <2>1. w = "saver" /\ save["guard"].at = "idle" /\ DiskInv
        /\ save["saver"].at = "write" /\ save["saver"].wrote = Halves
    BY DEF SoleWriter, Rename, Writers
  <2>2. ok /\ \A h \in Halves : inode[names.tmp][h] # Blank
    BY <2>1 DEF DiskInv
  <2>3. names'.file = names.tmp /\ names'.tmp = None /\ inode' = inode
    BY <1>1, <2>2
  <2>4. save'["guard"].at = "idle" /\ save'["saver"].at = "idle"
    BY <2>1, <1>2 DEF Writers
  <2> QED BY <2>2, <2>3, <2>4 DEF SoleWriter, DiskInv
<1> QED BY <1>4, <1>5

\* A save that fails removes the temporary file at most.
LEMMA FailKeeps == ASSUME StateInv, NEW w \in Writers, Fail(w) PROVE StateInv'
<1> USE StateFacts DEF StateInv
<1>1. /\ names' = IF save[w].at = "open" THEN names ELSE [names EXCEPT !.tmp = None]
      /\ Return(w, FALSE)
      /\ UNCHANGED <<main, model, past, snap, pending, snapSeq, run, inode>>
  BY DEF Fail, Outside
<1>2. /\ save' \in [Writers -> SaveType] /\ saver' \in SaverType
      /\ save'[w].at = "idle" /\ \A v \in Writers \ {w} : save'[v] = save[v]
  BY <1>1, ReturnKeeps
<1>3. /\ names' \in NamesType /\ names'.file = names.file
      /\ names'.tmp # None => names'.tmp = names.tmp
  BY <1>1 DEF NamesType
<1>4. BudgetOK' /\ budget'["stop"] = budget["stop"]
  BY SpendKeeps DEF Fail
<1>5. TypeOK'
  BY <1>1, <1>2, <1>3, TypeNext DEF TypeOK
<1>6. SoleWriter'
  <2> SUFFICES ASSUME budget["stop"] = MaxStops PROVE SoleWriter'
    BY <1>4 DEF SoleWriter
  <2>1. w = "saver" /\ save["guard"].at = "idle" /\ DiskInv
    BY DEF SoleWriter, Fail, Writers
  <2>2. save'["guard"].at = "idle" /\ save'["saver"].at = "idle"
    BY <2>1, <1>2 DEF Writers
  <2> QED BY <2>1, <2>2, <1>1, <1>3 DEF SoleWriter, DiskInv
<1> QED BY <1>4, <1>5, <1>6

-----------------------------------------------------------------------------
(* The saver thread's loop *)

\* A poll counts quiet polls up to the one that saves.
LEMMA PollAgainKeeps == ASSUME StateInv, PollAgain PROVE StateInv'
<1> USE StateFacts DEF StateInv
<1>1. saver' \in SaverType
  <2> DEFINE stable2 == IF StillChanging THEN 0 ELSE IF NothingNew THEN saver.stable
                        ELSE saver.stable + 1
  <2>1. stable2 \in 0..kStablePolls
    BY DEF PollAgain, Quiet, SaverType
  <2>2. saver' = [saver EXCEPT !.lastSeq = snapSeq, !.alive = run, !.stable = stable2]
    BY DEF PollAgain
  <2> HIDE DEF stable2
  <2> QED BY <2>1, <2>2 DEF SaverType, TypeOK
<1>2. TypeOK' /\ BudgetOK'
  BY <1>1, TypeNext DEF PollAgain, Outside, TypeOK, BudgetOK
<1>3. SoleWriter'
  BY DiskKept DEF PollAgain
<1> QED BY <1>2, <1>3

\* A poll that saves has yet to open the file.
LEMMA PollSaveKeeps == ASSUME StateInv, PollSave PROVE StateInv'
<1> USE StateFacts DEF StateInv
<1> DEFINE now == [save["saver"] EXCEPT !.at = "open", !.seq = snapSeq]
<1>1. /\ save' = [save EXCEPT !["saver"] = now]
      /\ UNCHANGED <<main, model, past, snap, pending, snapSeq, run, saver, inode, names,
                     budget>>
  BY DEF PollSave, Outside
<1>2. now \in SaveType /\ now.at = "open"
  BY ZenonT(60) DEF SaveType, Writers, TypeOK
<1> HIDE DEF now
<1>3. /\ save' \in [Writers -> SaveType] /\ save'["saver"].at = "open"
      /\ save'["guard"] = save["guard"]
  BY <1>1, <1>2 DEF Writers
<1>4. TypeOK' /\ BudgetOK'
  BY <1>1, <1>3, TypeNext DEF TypeOK, BudgetOK
<1>5. SoleWriter'
  BY <1>1, <1>3 DEF SoleWriter, DiskInv
<1> QED BY <1>4, <1>5

-----------------------------------------------------------------------------
(* The ways out, and the way back in *)

\* From the SIGTERM on there may be two writers, and nothing is claimed.
LEMMA StopKeeps == ASSUME StateInv, Stop PROVE StateInv'
<1> USE StateFacts DEF StateInv
<1>1. BudgetOK' /\ budget'["stop"] # MaxStops
  BY SpendKeeps DEF Stop
<1>2. save' \in [Writers -> SaveType]
  <2>1. [save["guard"] EXCEPT !.at = "open"] \in SaveType
    BY DEF SaveType, Writers
  <2> QED BY <2>1 DEF Stop, Writers
<1>3. TypeOK'
  BY <1>2, TypeNext DEF Stop, TypeOK
<1>4. SoleWriter'
  BY <1>1 DEF SoleWriter
<1> QED BY <1>1, <1>3, <1>4

\* Stopping the saver and joining it touch no file.
LEMMA JoinKeeps == ASSUME StateInv, StopSaver \/ Join PROVE StateInv'
<1> USE StateFacts DEF StateInv
<1>1. TypeOK' /\ BudgetOK'
  BY TypeNext, ZenonT(60) DEF StopSaver, Join, TypeOK, BudgetOK
<1>2. SoleWriter'
  BY DiskKept DEF StopSaver, Join
<1> QED BY <1>1, <1>2

\* A process that is gone writes nothing more; its files stay.
LEMMA GoneKeeps == ASSUME StateInv, Exit \/ Crash PROVE StateInv'
<1> USE StateFacts DEF StateInv
<1>1. BudgetOK' /\ budget'["stop"] = budget["stop"]
  BY SpendKeeps DEF Exit, Crash
<1>2. /\ main' \in {"stopped", "down"} /\ save' = [w \in Writers |-> NotSaving]
      /\ pending' = {} /\ saver' = [saver EXCEPT !.alive = FALSE]
      /\ UNCHANGED <<model, past, snap, snapSeq, run, inode, names>>
  BY DEF Exit, Crash, Gone
<1>3. NotSaving \in SaveType /\ NotSaving.at = "idle"
  BY DEF NotSaving, SaveType, Snapshots, Whole, None
<1>4. save' \in [Writers -> SaveType] /\ \A w \in Writers : save'[w].at = "idle"
  BY <1>2, <1>3
<1>5. saver' \in SaverType
  BY <1>2 DEF SaverType
<1>6. TypeOK'
  BY <1>2, <1>4, <1>5, TypeNext DEF TypeOK
<1>7. SoleWriter'
  BY <1>1, <1>2, <1>4 DEF SoleWriter, DiskInv, Writers
<1> QED BY <1>1, <1>6, <1>7

\* A daemon that starts loads a file only if it is a model.
LEMMA StartKeeps == ASSUME StateInv, Start PROVE StateInv'
<1> USE StateFacts DEF StateInv
<1>1. Whole(0) \in Snapshots
  BY DEF Whole, Snapshots
<1>2. Loadable => inode[names.file] \in Snapshots
  BY DEF Loadable, NamesType, FileType, Snapshots, Blank
<1>3. model' \in Snapshots /\ snap' \in Snapshots
  BY <1>1, <1>2 DEF Start
<1>4. saver' \in SaverType
  BY DEF Start, FreshSaver, SaverType
<1>5. TypeOK' /\ BudgetOK'
  BY <1>3, <1>4, TypeNext DEF Start, TypeOK, BudgetOK
<1>6. SoleWriter'
  BY DiskKept DEF Start
<1> QED BY <1>5, <1>6

-----------------------------------------------------------------------------
\* A first start finds no files.
LEMMA Initially == Init => StateInv
<1> SUFFICES ASSUME Init PROVE StateInv
  OBVIOUS
<1> USE PollsAssumption, BoundsAssumption
<1>1. Whole(0) \in Snapshots /\ Whole(Blank) \in FileType
  BY DEF Whole, Snapshots, FileType, Blank
<1>2. NotSaving \in SaveType /\ NotSaving.at = "idle"
  BY <1>1 DEF NotSaving, SaveType, None
<1>3. save \in [Writers -> SaveType] /\ \A w \in Writers : save[w].at = "idle"
  BY <1>2 DEF Init
<1>4. saver \in SaverType /\ names \in NamesType /\ inode \in [Inodes -> FileType]
  BY <1>1 DEF Init, FreshSaver, SaverType, NamesType
<1>5. run \in BOOLEAN
  BY Zenon DEF Init
<1>6. TypeOK
  BY <1>1, <1>3, <1>4, <1>5 DEF Init, TypeOK, SaveType, SaverType, NamesType, FileType
<1>7. BudgetOK
  BY DEF Init, BudgetOK
<1>8. SoleWriter
  BY <1>3 DEF Init, SoleWriter, DiskInv, Writers
<1> QED BY <1>6, <1>7, <1>8 DEF StateInv

\* Every step of the pump, the saver, the guard and the way out and back keeps the
\* invariant.
LEMMA StateStep == StateInv /\ [Next]_vars => StateInv'
<1> SUFFICES ASSUME StateInv, [Next]_vars PROVE StateInv'
  OBVIOUS
<1>1. ASSUME NEW changed \in SUBSET Halves, Change(changed) PROVE StateInv'
  BY <1>1, ChangeKeeps
<1>2. ASSUME NEW h \in Halves, CopyHalf(h) PROVE StateInv'
  BY <1>2, CopyHalfKeeps
<1>3. ASSUME NEW w \in Writers, Open(w) \/ Rename(w) \/ Fail(w) PROVE StateInv'
  BY <1>3, OpenKeeps, RenameKeeps, FailKeeps
<1>4. ASSUME NEW w \in Writers, NEW h \in Halves, Read(w, h) \/ Flush(w, h)
      PROVE StateInv'
  BY <1>4, ReadKeeps, FlushKeeps
<1>5. CASE EndSnapshot \/ PollAgain \/ PollSave \/ Stop \/ StopSaver \/ Join \/ Start
  BY <1>5, EndSnapshotKeeps, PollAgainKeeps, PollSaveKeeps, StopKeeps, JoinKeeps, StartKeeps
<1>6. CASE Exit \/ Crash
  BY <1>6, GoneKeeps
<1>7. CASE UNCHANGED vars
  BY <1>7 DEF vars, StateInv, TypeOK, BudgetOK, SoleWriter, DiskInv
<1> QED BY <1>1, <1>2, <1>3, <1>4, <1>5, <1>6, <1>7 DEF Next

\* The invariant holds whatever fails, and wherever the process is killed.
THEOREM StateInvariant == Spec => []StateInv
BY Initially, StateStep, PTL DEF Spec

\* Every variable keeps its type: what is loaded at start is always a model, never
\* a file with a missing half, and no poll counts past the one that saves.
THEOREM StateTypeCorrect == Spec => []TypeOK
BY StateInvariant, PTL DEF StateInv

\* save_blob's temporary file and rename keep "the old file or the new one and never
\* half of either" for as long as the saver thread is the only writer.
THEOREM StateFileComplete == Spec => []FileComplete
<1>1. StateInv => FileComplete
  BY DEF StateInv, SoleWriter, DiskInv, FileComplete, Loadable
<1> QED BY <1>1, StateInvariant, PTL
=============================================================================
