---------------------------- MODULE Updates_proofs ----------------------------
(***************************************************************************)
(* Of Updates, for every set of commands, number of chunks and number of   *)
(* failing calls: a device that counts down to its update has all it needs *)
(* (SafeUpdate), and a command none of whose calls failed leaves no chunk  *)
(* behind (NoLitter).                                                      *)
(*                                                                         *)
(* A command that is run again meets what the last attempt left, and the   *)
(* update may take the upgrade files away under it.  So the invariant says *)
(* what is known of the tasks behind it: while the device counts down,     *)
(* their files are whole; else they may also have been used up.            *)
(***************************************************************************)
EXTENDS Updates, TLAPS

Working == {"info", "sha", "check", "create", "chunk", "write", "join", "verify",
            "clean", "copy", "exit", "exists", "upload", "confirm", "set", "alive"}
Writing == {"create", "chunk", "write", "join", "verify", "clean"}

\* Where the command is in its task.
PcInv ==
  /\ pc \in Working \ (Writing \cup {"upload"}) => Now.op = pc
  /\ pc \in Writing => Now.op = "check"
  /\ pc = "upload" => Now.op = "exists"
  /\ pc = "refused" => command.kind = "patch"
  /\ armed => command.kind # "cloud"

ChunkInv ==
  /\ pc \in Working \ {"chunk", "write", "clean"} => chunk = 1
  /\ pc \in {"chunk", "write", "clean"} => chunk \in DOMAIN Wanted

\* The file of a task is whole, or the backup is there.
Real(k) ==
  LET t == Plan(command)[k] IN
  /\ t.op = "check" => Has(t.path, t.data)
  /\ t.op = "copy" => File("rollback.bin") \in DOMAIN disk

\* The files that an update uses up, and that are not needed after it.
UsedUp(path) == path \in {UpgradeFile, File("upgrade.env")} /\ Has(Idefix, Data("upgrade"))

Done(k) == Real(k) \/ UsedUp(Plan(command)[k].path)

Passed(k) == k < task \/ (k = task /\ pc = "clean")

Progress ==
  pc \in Working => \A k \in DOMAIN Plan(command) : Passed(k) => Done(k) /\ (armed => Real(k))

\* While nothing has failed, a device that counts down has everything, and a file
\* is only written again if it is not needed any more.
Kept ==
  armed /\ ~unsure =>
    /\ \A k \in DOMAIN Plan(command) : Done(k)
    /\ pc \in Writing => UsedUp(Path)

UInv == TypeOK /\ PcInv /\ ChunkInv /\ Progress /\ Kept /\ RefusedRightly

\* The chunks on the device of a command none of whose calls failed.
Littered == ChunkFiles \cap DOMAIN disk
WholeChunks(K) == \A k \in K : Has(ChunkPath(k), <<Wanted[k]>>)

Tidy ==
  faults = 0 =>
    /\ armed => pc = "done"
    /\ pc \notin {"chunk", "write", "join", "verify", "clean"} => Littered = {}
    /\ pc \in {"chunk", "write"} =>
         /\ Littered \subseteq {ChunkPath(k) : k \in 1 .. chunk - 1}
         /\ WholeChunks(1 .. chunk - 1)
    /\ pc \in {"join", "verify"} => Littered \subseteq ChunkPaths
    /\ pc = "join" => WholeChunks(DOMAIN Wanted)
    /\ pc = "verify" => Has(Path, Wanted)
    /\ pc = "clean" => Littered \subseteq {ChunkPath(k) : k \in chunk .. Len(Wanted)}

-----------------------------------------------------------------------------
(* The contents and the plans. *)

LEMMA DataFacts ==
  ASSUME NEW n \in Contents
  PROVE  /\ Size(n) \in 0 .. Chunks /\ Len(Data(n)) = Size(n) /\ DOMAIN Data(n) = 1 .. Size(n)
         /\ Data(n) \in Stored
         /\ \A k \in DOMAIN Data(n) : /\ Data(n)[k] = <<n, k>> /\ Data(n)[k] \in ChunkFiles
                                     /\ k \in 1 .. Chunks
<1>1. Size(n) \in 0 .. Chunks
  BY UpdatesAssumption DEF Size
<1>2. DOMAIN Data(n) = 1 .. Size(n) /\ Len(Data(n)) = Size(n)
  BY <1>1 DEF Data
<1>3. ASSUME NEW k \in DOMAIN Data(n)
      PROVE  Data(n)[k] = <<n, k>> /\ Data(n)[k] \in ChunkFiles /\ k \in 1 .. Chunks
  <2>1. k \in 1 .. Chunks
    BY <1>1, <1>2, UpdatesAssumption
  <2>2. Data(n)[k] = <<n, k>>
    BY <1>2 DEF Data
  <2> QED
    BY <2>1, <2>2 DEF ChunkFiles
<1> QED
  BY <1>1, <1>2, <1>3 DEF Stored

LEMMA UpgradeIsNew == Data("upgrade") # Data("old")
<1>1. 1 \in 1 .. Chunks
  BY UpdatesAssumption
<1>2. Data("upgrade")[1] = <<"upgrade", 1>> /\ Data("old")[1] = <<"old", 1>>
  BY <1>1 DEF Data, Size
<1> QED
  BY <1>2

Ops == {"info", "sha", "check", "copy", "exit", "exists", "confirm", "set", "alive"}
Sent == {File(n) : n \in Names \ {"idefix", "rollback.bin"}}

Fine(t) ==
  /\ t.op \in Ops
  /\ t.op = "check" => t.path \in Sent /\ \E n \in Contents : t.data = Data(n)

LEMMA AskFine == \A op \in Ops \ {"check"} : Fine(Ask(op)) /\ Ask(op).op = op
BY DEF Ask, Fine

LEMMA SendFine ==
  \A name \in Names \ {"idefix", "rollback.bin"}, data \in Contents :
    Fine(Send(name, data)) /\ Send(name, data).op = "check"
BY DEF Send, Fine, Sent, Ops

\* A plan sends files of different names, none of which is the program or its
\* backup; only its last task has the device stop.
SameFile(t, u) == t.op = "check" /\ u.op = "check" /\ t.path = u.path

PlanOK(c, p) ==
  /\ Len(p) \in Nat \ {0} /\ DOMAIN p = 1 .. Len(p)
  /\ \A k \in DOMAIN p : Fine(p[k]) /\ (p[k].op = "exit" => k = Len(p) /\ c.kind # "cloud")
  /\ \A k \in DOMAIN p : p[k].op = "sha" => c.kind = "patch"
  /\ \A j, k \in DOMAIN p : SameFile(p[j], p[k]) => j = k

LEMMA PlanFacts ==
  ASSUME NEW c \in Command
  PROVE  PlanOK(c, Plan(c))
<1> USE DEF Ops, Names, Contents
<1>1. c.kind \in {"file", "patch", "cloud", "int"} /\ c.rollback \in {"none", "bin", "patch"}
  BY DEF Command
<1>2. CASE c.kind = "file" /\ c.rollback = "none"
  <2>1. Len(Plan(c)) = 4 /\ DOMAIN Plan(c) = 1 .. 4
    BY <1>2 DEF Plan, FilePlan
  <2>2. \A k \in 1 .. 4 : Fine(Plan(c)[k]) /\ (Plan(c)[k].op = "exit" => k = 4 /\ c.kind # "cloud")
    BY <1>2, SendFine, AskFine DEF Plan, FilePlan
  <2>3. \A k \in 1 .. 4 : Plan(c)[k].op = "sha" => c.kind = "patch"
    BY <1>2, SendFine, AskFine DEF Plan, FilePlan
  <2>4. \A j, k \in 1 .. 4 : SameFile(Plan(c)[j], Plan(c)[k]) => j = k
    BY <1>2 DEF Plan, FilePlan, SameFile, Ask, Send, Idefix, File
  <2> QED
    BY <2>1, <2>2, <2>3, <2>4 DEF PlanOK
<1>3. CASE c.kind = "file" /\ c.rollback # "none"
  <2>1. Len(Plan(c)) = 6 /\ DOMAIN Plan(c) = 1 .. 6
    BY <1>3 DEF Plan, FilePlan
  <2>2. \A k \in 1 .. 6 : Fine(Plan(c)[k]) /\ (Plan(c)[k].op = "exit" => k = 6 /\ c.kind # "cloud")
    BY <1>3, SendFine, AskFine DEF Plan, FilePlan
  <2>3. \A k \in 1 .. 6 : Plan(c)[k].op = "sha" => c.kind = "patch"
    BY <1>3, SendFine, AskFine DEF Plan, FilePlan
  <2>4. \A j, k \in 1 .. 6 : SameFile(Plan(c)[j], Plan(c)[k]) => j = k
    BY <1>3 DEF Plan, FilePlan, SameFile, Ask, Send, Idefix, File
  <2> QED
    BY <2>1, <2>2, <2>3, <2>4 DEF PlanOK
<1>4. CASE c.kind = "patch" /\ c.rollback = "none"
  <2>1. Len(Plan(c)) = 5 /\ DOMAIN Plan(c) = 1 .. 5
    BY <1>4 DEF Plan, PatchPlan
  <2>2. \A k \in 1 .. 5 : Fine(Plan(c)[k]) /\ (Plan(c)[k].op = "exit" => k = 5 /\ c.kind # "cloud")
    BY <1>4, SendFine, AskFine DEF Plan, PatchPlan
  <2>3. \A k \in 1 .. 5 : Plan(c)[k].op = "sha" => c.kind = "patch"
    BY <1>4, SendFine, AskFine DEF Plan, PatchPlan
  <2>4. \A j, k \in 1 .. 5 : SameFile(Plan(c)[j], Plan(c)[k]) => j = k
    BY <1>4 DEF Plan, PatchPlan, SameFile, Ask, Send, Idefix, File
  <2> QED
    BY <2>1, <2>2, <2>3, <2>4 DEF PlanOK
<1>5. CASE c.kind = "patch" /\ c.rollback = "bin"
  <2>1. Len(Plan(c)) = 7 /\ DOMAIN Plan(c) = 1 .. 7
    BY <1>5 DEF Plan, PatchPlan
  <2>2. \A k \in 1 .. 7 : Fine(Plan(c)[k]) /\ (Plan(c)[k].op = "exit" => k = 7 /\ c.kind # "cloud")
    BY <1>5, SendFine, AskFine DEF Plan, PatchPlan
  <2>3. \A k \in 1 .. 7 : Plan(c)[k].op = "sha" => c.kind = "patch"
    BY <1>5, SendFine, AskFine DEF Plan, PatchPlan
  <2>4. \A j, k \in 1 .. 7 : SameFile(Plan(c)[j], Plan(c)[k]) => j = k
    BY <1>5 DEF Plan, PatchPlan, SameFile, Ask, Send, Idefix, File
  <2> QED
    BY <2>1, <2>2, <2>3, <2>4 DEF PlanOK
<1>6. CASE c.kind = "patch" /\ c.rollback \notin {"none", "bin"}
  <2>1. Len(Plan(c)) = 7 /\ DOMAIN Plan(c) = 1 .. 7
    BY <1>6 DEF Plan, PatchPlan
  <2>2. \A k \in 1 .. 7 : Fine(Plan(c)[k]) /\ (Plan(c)[k].op = "exit" => k = 7 /\ c.kind # "cloud")
    BY <1>6, SendFine, AskFine DEF Plan, PatchPlan
  <2>3. \A k \in 1 .. 7 : Plan(c)[k].op = "sha" => c.kind = "patch"
    BY <1>6, SendFine, AskFine DEF Plan, PatchPlan
  <2>4. \A j, k \in 1 .. 7 : SameFile(Plan(c)[j], Plan(c)[k]) => j = k
    BY <1>6 DEF Plan, PatchPlan, SameFile, Ask, Send, Idefix, File
  <2> QED
    BY <2>1, <2>2, <2>3, <2>4 DEF PlanOK
<1>7. CASE c.kind = "cloud"
  <2>1. Len(Plan(c)) = 4 /\ DOMAIN Plan(c) = 1 .. 4
    BY <1>7 DEF Plan, CloudPlan
  <2>2. \A k \in 1 .. 4 : Fine(Plan(c)[k]) /\ (Plan(c)[k].op = "exit" => k = 4 /\ c.kind # "cloud")
    BY <1>7, SendFine, AskFine DEF Plan, CloudPlan
  <2>3. \A k \in 1 .. 4 : Plan(c)[k].op = "sha" => c.kind = "patch"
    BY <1>7, SendFine, AskFine DEF Plan, CloudPlan
  <2>4. \A j, k \in 1 .. 4 : SameFile(Plan(c)[j], Plan(c)[k]) => j = k
    BY <1>7 DEF Plan, CloudPlan, SameFile, Ask, Send, Idefix, File
  <2> QED
    BY <2>1, <2>2, <2>3, <2>4 DEF PlanOK
<1>8. CASE c.kind = "int"
  <2>1. Len(Plan(c)) = 2 /\ DOMAIN Plan(c) = 1 .. 2
    BY <1>8 DEF Plan, IntPlan
  <2>2. \A k \in 1 .. 2 : Fine(Plan(c)[k]) /\ (Plan(c)[k].op = "exit" => k = 2 /\ c.kind # "cloud")
    BY <1>8, SendFine, AskFine DEF Plan, IntPlan
  <2>3. \A k \in 1 .. 2 : Plan(c)[k].op = "sha" => c.kind = "patch"
    BY <1>8, SendFine, AskFine DEF Plan, IntPlan
  <2>4. \A j, k \in 1 .. 2 : SameFile(Plan(c)[j], Plan(c)[k]) => j = k
    BY <1>8 DEF Plan, IntPlan, SameFile, Ask, Send, Idefix, File
  <2> QED
    BY <2>1, <2>2, <2>3, <2>4 DEF PlanOK
<1> QED
  BY <1>1, <1>2, <1>3, <1>4, <1>5, <1>6, <1>7, <1>8

-----------------------------------------------------------------------------
(* The task at hand. *)

LEMMA TaskFacts ==
  ASSUME TypeOK
  PROVE  /\ PlanOK(command, Plan(command)) /\ task \in DOMAIN Plan(command) /\ task \in Nat
         /\ Fine(Now) /\ Chunks \in Nat \ {0} /\ chunk \in Nat
<1>1. PlanOK(command, Plan(command))
  BY PlanFacts DEF TypeOK
<1>2. task \in DOMAIN Plan(command) /\ task \in Nat
  BY <1>1 DEF PlanOK, TypeOK
<1>3. Fine(Now)
  BY <1>1, <1>2 DEF PlanOK, Now
<1> QED
  BY <1>1, <1>2, <1>3, UpdatesAssumption DEF TypeOK

LEMMA SentFacts ==
  ASSUME NEW path \in Sent
  PROVE  path \in Files /\ path \notin ChunkFiles /\ path # Idefix /\ path # File("rollback.bin")
BY UpdatesAssumption DEF Sent, Files, ChunkFiles, File, Idefix, Names

LEMMA OtherFiles ==
  /\ Idefix \in Files \ ChunkFiles /\ File("rollback.bin") \in Files \ ChunkFiles
  /\ File("rollback.bin") # Idefix
BY UpdatesAssumption DEF Files, ChunkFiles, File, Idefix, Names

LEMMA WantedFacts ==
  ASSUME TypeOK, Now.op = "check"
  PROVE  /\ Path \in Files /\ Path \notin ChunkFiles /\ Path # Idefix
         /\ Path # File("rollback.bin")
         /\ Wanted \in Stored /\ Joined \in Stored
         /\ Len(Wanted) \in 0 .. Chunks /\ DOMAIN Wanted = 1 .. Len(Wanted)
         /\ \A k \in DOMAIN Wanted :
              ChunkPath(k) = Wanted[k] /\ ChunkPath(k) \in ChunkFiles /\ <<Wanted[k]>> \in Stored
         /\ \A j, k \in DOMAIN Wanted : ChunkPath(j) = ChunkPath(k) => j = k
<1>1. Path \in Sent /\ \E n \in Contents : Wanted = Data(n)
  BY TaskFacts DEF Fine, Path, Wanted
<1>2. PICK n \in Contents : Wanted = Data(n)
  BY <1>1
<1>3. Len(Wanted) \in 0 .. Chunks /\ DOMAIN Wanted = 1 .. Len(Wanted) /\ Wanted \in Stored
  BY <1>2, DataFacts
<1>4. Joined \in Stored
  BY <1>3 DEF Joined, Stored
<1>5. \A k \in DOMAIN Wanted :
        ChunkPath(k) = Wanted[k] /\ ChunkPath(k) \in ChunkFiles /\ <<Wanted[k]>> \in Stored
  BY <1>2, DataFacts DEF ChunkPath, Stored
<1>6. \A j, k \in DOMAIN Wanted : ChunkPath(j) = ChunkPath(k) => j = k
  BY <1>2, DataFacts DEF ChunkPath
<1>7. Path \in Files /\ Path \notin ChunkFiles /\ Path # Idefix /\ Path # File("rollback.bin")
  BY <1>1, SentFacts
<1> QED
  BY <1>3, <1>4, <1>5, <1>6, <1>7

\* The command goes on to its next task or is done.
LEMMA TaskMoves ==
  ASSUME TypeOK, NextTask, UNCHANGED command
  PROVE  /\ task' \in DOMAIN Plan(command)' /\ chunk' = 1
         /\ \/ task' = task + 1 /\ pc' = Now'.op /\ pc' \in Ops
            \/ task' = task /\ task = Len(Plan(command)) /\ pc' = "done"
<1>1. /\ task \in 1 .. Len(Plan(command)) /\ task \in Nat
      /\ Len(Plan(command)) \in Nat
      /\ DOMAIN Plan(command) = 1 .. Len(Plan(command))
  BY TaskFacts DEF PlanOK
<1>2. CASE task < Len(Plan(command))
  <2>1. task' = task + 1 /\ pc' = Plan(command)[task + 1].op /\ chunk' = 1
    BY <1>2 DEF NextTask
  <2>2. task + 1 \in DOMAIN Plan(command)
    BY <1>1, <1>2
  <2>3. Plan(command)[task + 1].op \in Ops
    BY <2>2, TaskFacts DEF PlanOK, Fine
  <2> QED
    BY <2>1, <2>2, <2>3 DEF Now
<1>3. CASE task = Len(Plan(command))
  <2>1. task' = task /\ pc' = "done" /\ chunk' = 1
    BY <1>1, <1>3 DEF NextTask
  <2> QED
    BY <1>1, <1>3, <2>1
<1>4. \A n \in Nat : \A k \in 1 .. n : k < n \/ k = n
  OBVIOUS
<1> QED
  BY <1>1, <1>2, <1>3, <1>4

-----------------------------------------------------------------------------
(* Where the command is, step by step. *)

Flags ==
  /\ armed \in BOOLEAN /\ unsure \in BOOLEAN /\ released \in BOOLEAN /\ target \in BOOLEAN
  /\ faults \in 0 .. MaxFaults
  /\ armed => command.kind # "cloud"

Places ==
  /\ command \in Command /\ pc \in Working \cup {"idle", "failed", "refused", "done"}
  /\ task \in 1 .. Len(Plan(command)) /\ chunk \in 1 .. Chunks

DiskOK ==
  /\ Idefix \in DOMAIN disk /\ DOMAIN disk \subseteq Files
  /\ \A f \in DOMAIN disk : disk[f] \in Stored

LEMMA Parts == TypeOK /\ PcInv <=> Places /\ Flags /\ DiskOK /\ PcInv
BY DEF TypeOK, Places, Flags, DiskOK, PcInv, Working

LEMMA FlagsStep ==
  ASSUME TypeOK, PcInv, [Next]_vars
  PROVE  Flags' /\ command' = command
<1>1. Flags
  BY Parts
<1>2. pc = "exit" => command.kind # "cloud"
  <2>1. pc = "exit" => Now.op = "exit"
    BY DEF PcInv, Working, Writing
  <2> QED
    BY <2>1, TaskFacts DEF PlanOK, Now
<1>3. faults < MaxFaults => faults + 1 \in 0 .. MaxFaults
  BY <1>1, UpdatesAssumption DEF Flags
<1>4. CASE Step
  <2>1. CASE Exit
    BY <1>1, <1>2, <2>1 DEF Exit, Flags, manager
  <2>2. CASE Run \/ Info \/ Sha \/ Check \/ Create \/ Chunk \/ Write \/ Join \/ Verify \/ Clean
    BY <1>1, <2>2 DEF Run, Info, Sha, Check, Create, Chunk, Write, Join, Verify, Clean, Stay,
                      Flags, manager
  <2>3. CASE Copy \/ Exists \/ Confirm \/ Alive
    BY <1>1, <2>3 DEF Copy, Exists, Confirm, Alive, Flags, manager
  <2>4. CASE Upload
    BY <1>1, <2>4 DEF Upload, Flags
  <2>5. CASE SetTarget
    BY <1>1, <2>5 DEF SetTarget, Flags
  <2> QED
    BY <1>4, <2>1, <2>2, <2>3, <2>4, <2>5 DEF Step
<1>5. CASE Failure
  <2>1. ASSUME Disturb
        PROVE  command' = command /\ unsure' \in BOOLEAN /\ faults' \in 0 .. MaxFaults
    BY <1>1, <1>3, <2>1 DEF Disturb, Flags
  <2>2. CASE CallFails
    BY <1>1, <2>1, <2>2 DEF CallFails, Flags, manager
  <2>3. CASE ExitFails
    BY <1>1, <1>2, <2>1, <2>3 DEF ExitFails, Flags, manager
  <2>4. CASE UploadFails
    BY <1>1, <2>1, <2>4 DEF UploadFails, Flags
  <2>5. CASE CheckFails
    BY <1>1, <2>1, <2>5 DEF CheckFails, Flags, manager
  <2>6. CASE SetTargetFails
    BY <1>1, <2>1, <2>6 DEF SetTargetFails, Flags
  <2> QED
    BY <1>5, <2>2, <2>3, <2>4, <2>5, <2>6 DEF Failure
<1>6. CASE Apply
  BY <1>1, <1>6 DEF Apply, Flags, manager
<1>7. CASE Deploy
  BY <1>1, <1>7 DEF Deploy, Flags, manager
<1>8. CASE UNCHANGED vars
  BY <1>1, <1>8 DEF vars, Flags
<1> QED
  BY <1>4, <1>5, <1>6, <1>7, <1>8 DEF Next

\* A step to the next task.
LEMMA AfterTask ==
  ASSUME TypeOK, NextTask, UNCHANGED command, Flags'
  PROVE  Places' /\ PcInv' /\ ChunkInv'
<1>1. /\ task' \in DOMAIN Plan(command)' /\ chunk' = 1
      /\ pc' = "done" \/ (pc' = Now'.op /\ pc' \in Ops)
  BY TaskMoves
<1>2. Places'
  <2>1. DOMAIN Plan(command)' = 1 .. Len(Plan(command)')
    BY TaskFacts DEF PlanOK
  <2>2. command' \in Command /\ 1 \in 1 .. Chunks
    BY UpdatesAssumption DEF TypeOK
  <2> QED
    BY <1>1, <2>1, <2>2 DEF Places, Ops, Working
<1>3. PcInv'
  BY <1>1 DEF PcInv, Flags, Ops, Working, Writing
<1>4. ChunkInv'
  BY <1>1 DEF ChunkInv, Ops
<1> QED
  BY <1>2, <1>3, <1>4

\* A step within a task, or one that ends the command.
LEMMA WithinTask ==
  ASSUME TypeOK, UNCHANGED <<command, task>>, Flags', chunk' \in 1 .. Chunks,
         \/ pc' = "failed"
         \/ pc' = "refused" /\ command.kind = "patch"
         \/ pc' = "upload" /\ Now.op = "exists" /\ chunk' = 1
         \/ pc' \in {"create", "join", "verify"} /\ Now.op = "check" /\ chunk' = 1
         \/ pc' \in {"chunk", "write", "clean"} /\ Now.op = "check" /\ chunk' \in DOMAIN Wanted
  PROVE  Places' /\ PcInv' /\ ChunkInv'
<1>1. Now' = Now /\ Wanted' = Wanted
  BY DEF Now, Wanted
<1>2. Places'
  BY DEF Places, TypeOK, Working
<1>3. PcInv'
  BY <1>1 DEF PcInv, Flags, Working, Writing
<1>4. ChunkInv'
  BY <1>1 DEF ChunkInv, Working
<1> QED
  BY <1>2, <1>3, <1>4

\* A step of FileWrite's loop.
LEMMA LoopMoves ==
  ASSUME TypeOK, Now.op = "check", chunk \in DOMAIN Wanted, NextChunk("chunk", "join"),
         UNCHANGED <<command, task>>, Flags'
  PROVE  Places' /\ PcInv' /\ ChunkInv'
<1>1. /\ Len(Wanted) \in 0 .. Chunks /\ DOMAIN Wanted = 1 .. Len(Wanted) /\ chunk \in Nat
      /\ Chunks \in Nat \ {0} /\ 1 \in 1 .. Chunks
  BY WantedFacts, TaskFacts
<1>2. CASE chunk < Len(Wanted)
  <2>1. chunk' = chunk + 1 /\ pc' = "chunk"
    BY <1>2 DEF NextChunk
  <2>2. chunk + 1 \in DOMAIN Wanted /\ chunk + 1 \in 1 .. Chunks
    BY <1>1, <1>2
  <2> QED
    BY <2>1, <2>2, WithinTask
<1>3. CASE ~(chunk < Len(Wanted))
  <2>1. chunk' = 1 /\ pc' = "join"
    BY <1>3 DEF NextChunk
  <2> QED
    BY <1>1, <2>1, WithinTask
<1> QED
  BY <1>2, <1>3

LEMMA PlacesStep ==
  ASSUME TypeOK, PcInv, ChunkInv, [Next]_vars
  PROVE  Places' /\ PcInv' /\ ChunkInv'
<1>1. Flags' /\ command' = command
  BY FlagsStep
<1>2. 1 \in 1 .. Chunks /\ chunk \in 1 .. Chunks
  BY UpdatesAssumption DEF TypeOK
<1>3. /\ pc \in Writing => Now.op = "check"
      /\ pc \in Ops => Now.op = pc
      /\ pc \in Working \ {"chunk", "write", "clean"} => chunk = 1
      /\ pc \in {"chunk", "write", "clean"} => chunk \in DOMAIN Wanted
  BY DEF PcInv, ChunkInv, Ops, Working, Writing
<1>4. CASE NextTask
  BY <1>1, <1>4, AfterTask
<1>5. CASE Run
  <2>1. /\ 1 \in DOMAIN Plan(command) /\ DOMAIN Plan(command) = 1 .. Len(Plan(command))
        /\ Plan(command)[1].op \in Ops
    BY TaskFacts DEF PlanOK, Fine
  <2>2. task' = 1 /\ chunk' = 1 /\ pc' = Plan(command)[1].op
    BY <1>5 DEF Run
  <2>3. Places'
    BY <1>1, <1>2, <2>1, <2>2 DEF Places, TypeOK, Ops, Working
  <2>4. Now'.op = pc'
    BY <1>1, <2>2 DEF Now
  <2>5. PcInv'
    BY <1>1, <2>1, <2>2, <2>4 DEF PcInv, Flags, Ops, Working, Writing
  <2>6. ChunkInv'
    BY <2>1, <2>2 DEF ChunkInv, Ops
  <2> QED
    BY <2>3, <2>5, <2>6
<1>6. CASE Sha /\ ~NextTask
  <2>1. pc' = "refused" /\ UNCHANGED <<task, chunk>> /\ pc = "sha"
    BY <1>6 DEF Sha
  <2>2. command.kind = "patch"
    BY <1>3, <2>1, TaskFacts DEF PlanOK, Now, Ops
  <2> QED
    BY <1>1, <1>2, <2>1, <2>2, WithinTask
<1>7. CASE (Check \/ CheckFails) /\ ~NextTask
  <2>1. /\ pc \in {"check", "chunk"} /\ pc' \in {"create", "write"} /\ UNCHANGED <<task, chunk>>
        /\ pc' = "write" <=> pc = "chunk"
    BY <1>7 DEF Check, CheckFails, Go
  <2> QED
    BY <1>1, <1>2, <1>3, <2>1, WithinTask DEF Ops, Working, Writing
<1>8. CASE Create
  <2>1. pc = "create" /\ UNCHANGED <<task, chunk>> /\ pc' = IF Len(Wanted) = 0 THEN "join" ELSE "chunk"
    BY <1>8 DEF Create, Go, Stay
  <2>2. Now.op = "check" /\ chunk = 1
    BY <1>3, <2>1 DEF Writing, Working
  <2>3. Len(Wanted) # 0 => 1 \in DOMAIN Wanted
    BY <2>2, WantedFacts, UpdatesAssumption
  <2> QED
    BY <1>1, <1>2, <2>1, <2>2, <2>3, WithinTask
<1>9. CASE Chunk \/ Write
  <2>1. pc \in {"chunk", "write"} /\ Now.op = "check" /\ chunk \in DOMAIN Wanted /\ task' = task
    BY <1>3, <1>9 DEF Chunk, Write, Stay, Writing
  <2>2. CASE NextChunk("chunk", "join")
    BY <1>1, <2>1, <2>2, LoopMoves
  <2>3. CASE ~NextChunk("chunk", "join")
    <3>1. pc' = "write" /\ chunk' = chunk
      BY <1>9, <2>3 DEF Chunk, Write, Go
    <3> QED
      BY <1>1, <1>2, <2>1, <3>1, WithinTask
  <2> QED
    BY <2>2, <2>3
<1>10. CASE Join
  <2>1. pc = "join" /\ pc' \in {"verify", "failed"} /\ UNCHANGED <<task, chunk>>
    BY <1>10 DEF Join, Go, Stay
  <2> QED
    BY <1>1, <1>2, <1>3, <2>1, WithinTask DEF Working, Writing
<1>11. CASE Verify /\ ~NextTask
  <2>1. /\ pc = "verify" /\ UNCHANGED <<task, chunk>>
        /\ pc' = "failed" \/ (pc' = "clean" /\ Len(Wanted) > 0)
    BY <1>11 DEF Verify, Go
  <2>2. Now.op = "check" /\ chunk = 1
    BY <1>3, <2>1 DEF Writing, Working
  <2>3. Len(Wanted) > 0 => 1 \in DOMAIN Wanted
    BY <2>2, WantedFacts, UpdatesAssumption
  <2> QED
    BY <1>1, <1>2, <2>1, <2>2, <2>3, WithinTask
<1>12. CASE Clean /\ ~NextTask
  <2>1. pc = "clean" /\ chunk < Len(Wanted) /\ chunk' = chunk + 1 /\ UNCHANGED <<pc, task>>
    BY <1>12 DEF Clean
  <2>2. Now.op = "check" /\ chunk \in DOMAIN Wanted
    BY <1>3, <2>1 DEF Writing
  <2>3. chunk + 1 \in DOMAIN Wanted /\ chunk + 1 \in 1 .. Chunks
    BY <2>1, <2>2, WantedFacts, TaskFacts
  <2> QED
    BY <1>1, <2>1, <2>2, <2>3, WithinTask
<1>13. CASE (Exists \/ Confirm) /\ ~NextTask
  <2>1. /\ UNCHANGED <<task, chunk>>
        /\ (pc = "exists" /\ pc' = "upload") \/ pc' = "failed"
    BY <1>13 DEF Exists, Confirm, Go
  <2> QED
    BY <1>1, <1>2, <1>3, <2>1, WithinTask DEF Working, Writing, Ops
<1>14. CASE CallFails \/ ExitFails \/ UploadFails
  <2>1. pc' = "failed" /\ UNCHANGED <<task, chunk>>
    BY <1>14 DEF CallFails, ExitFails, UploadFails, Go
  <2> QED
    BY <1>1, <1>2, <2>1, WithinTask
<1>15. CASE Apply \/ Deploy \/ UNCHANGED vars
  <2>1. UNCHANGED <<pc, task, chunk>>
    BY <1>15 DEF Apply, Deploy, vars
  <2>2. Places' /\ Now' = Now /\ Wanted' = Wanted
    BY <1>1, <2>1 DEF Places, TypeOK, Working, Now, Wanted
  <2> QED
    BY <1>1, <2>1, <2>2 DEF PcInv, ChunkInv, Flags, Working, Writing
<1>16. CASE Info \/ Copy \/ Exit \/ Upload \/ SetTarget \/ Alive \/ SetTargetFails
  BY <1>4, <1>16 DEF Info, Copy, Exit, Upload, SetTarget, Alive, SetTargetFails
<1> QED
  BY <1>4, <1>5, <1>6, <1>7, <1>8, <1>9, <1>10, <1>11, <1>12, <1>13, <1>14, <1>15, <1>16
  DEF Next, Step, Failure

-----------------------------------------------------------------------------
(* What the steps do to the disk. *)

\* A step writes the file of its task, one of its chunks, the backup, or nothing.
Writes(path) ==
  /\ \E data \in Stored : disk' = Put(path, data)
  /\ \/ pc \in {"create", "join"} /\ path = Path
     \/ pc = "write" /\ path = ChunkPath(chunk)
     \/ pc = "copy" /\ path = File("rollback.bin")

DiskMoves ==
  \/ UNCHANGED disk
  \/ \E path \in Files : Writes(path)
  \/ pc = "clean" /\ disk' = Drop(ChunkPath(chunk))

LEMMA CommandMoves ==
  ASSUME TypeOK, PcInv, ChunkInv, Step \/ Failure
  PROVE  DiskMoves
<1>1. /\ pc \in {"create", "join", "write"} => Now.op = "check"
      /\ pc = "write" => chunk \in DOMAIN Wanted
  BY DEF PcInv, ChunkInv, Writing
<1>2. \A data \in {<<>>, Joined} :
        pc \in {"create", "join"} /\ disk' = Put(Path, data) => DiskMoves
  <2>1. Now.op = "check" => Path \in Files /\ Joined \in Stored
    BY WantedFacts
  <2> QED
    BY <1>1, <2>1 DEF DiskMoves, Writes, Stored
<1>3. \A data \in {<<>>, <<Wanted[chunk]>>} :
        pc = "write" /\ disk' = Put(ChunkPath(chunk), data) => DiskMoves
  <2>1. pc = "write" => ChunkPath(chunk) \in Files /\ <<Wanted[chunk]>> \in Stored
    BY <1>1, WantedFacts DEF Files
  <2> QED
    BY <2>1 DEF DiskMoves, Writes, Stored
<1>4. \A data \in {<<>>, disk[Idefix]} :
        pc = "copy" /\ disk' = Put(File("rollback.bin"), data) => DiskMoves
  <2>1. disk[Idefix] \in Stored
    BY DEF TypeOK
  <2> QED
    BY <2>1, OtherFiles DEF DiskMoves, Writes, Stored
<1>5. CASE Create \/ Write \/ Join \/ Clean \/ Copy
  BY <1>2, <1>3, <1>4, <1>5 DEF Create, Write, Join, Clean, Copy, DiskMoves
<1>6. CASE CallFails
  <2>1. Half
    BY <1>6 DEF CallFails
  <2> QED
    BY <1>2, <1>3, <1>4, <2>1 DEF Half, DiskMoves
<1>7. CASE Run \/ Info \/ Sha \/ Check \/ Chunk \/ Verify \/ Exit \/ Exists \/ Upload \/ Confirm
           \/ SetTarget \/ Alive
  <2>1. UNCHANGED disk
    BY <1>7 DEF Run, Info, Sha, Check, Chunk, Verify, Exit, Exists, Upload, Confirm, SetTarget, Alive
  <2> QED
    BY <2>1 DEF DiskMoves
<1>8. CASE ExitFails \/ UploadFails \/ CheckFails \/ SetTargetFails
  <2>1. UNCHANGED disk
    BY <1>8 DEF ExitFails, UploadFails, CheckFails, SetTargetFails
  <2> QED
    BY <2>1 DEF DiskMoves
<1> QED
  BY <1>5, <1>6, <1>7, <1>8 DEF Step, Failure

\* The update of the device.
Updated ==
  \E gone \in SUBSET (Files \ {Idefix}) :
    /\ DOMAIN disk' = DOMAIN disk \ gone
    /\ \A f \in DOMAIN disk' \ {Idefix} : disk'[f] = disk[f]
    /\ disk'[Idefix] = Upgraded
    /\ \A f \in gone \ ChunkFiles :
         f \in {UpgradeFile, File("upgrade.env")} /\ Upgraded = Data("upgrade")

LEMMA ApplyMoves ==
  ASSUME TypeOK, Apply
  PROVE  Updated /\ Upgraded \in Stored
<1>1. PICK used \in {{}, {UpgradeFile, File("upgrade.env")}}, tmp \in {{}, ChunkFiles} :
        /\ used # {} => Upgraded = Data("upgrade")
        /\ disk' = [f \in DOMAIN disk \ (used \cup tmp) |-> IF f = Idefix THEN Upgraded ELSE disk[f]]
  BY DEF Apply
<1>2. UpgradeFile \in Files \ {Idefix} /\ File("upgrade.env") \in Files \ {Idefix}
  BY DEF UpgradeFile, File, Idefix, Files, Names
<1>3. ChunkFiles \subseteq Files \ {Idefix}
  BY OtherFiles DEF Files
<1>4. used \cup tmp \in SUBSET (Files \ {Idefix})
  BY <1>2, <1>3
<1>5. Updated
  <2>1. Idefix \in DOMAIN disk /\ Idefix \notin used \cup tmp
    BY <1>4 DEF TypeOK
  <2> QED
    BY <1>1, <1>4, <2>1 DEF Updated
<1>6. Upgraded \in Stored
  <2>1. Data("upgrade") \in Stored
    BY DEF Stored, Contents
  <2>2. \A f \in DOMAIN disk : disk[f] \in Stored
    BY DEF TypeOK
  <2>3. Idefix \in DOMAIN disk
    BY DEF TypeOK
  <2> QED
    BY <2>1, <2>2, <2>3 DEF Upgraded
<1> QED
  BY <1>5, <1>6

LEMMA DiskStep ==
  ASSUME TypeOK, PcInv, ChunkInv, [Next]_vars
  PROVE  DiskOK'
<1>1. DiskOK
  BY Parts
<1>2. CASE DiskMoves
  <2>1. CASE \E path \in Files : Writes(path)
    <3>1. PICK path \in Files, data \in Stored : disk' = Put(path, data)
      BY <2>1 DEF Writes
    <3> QED
      BY <1>1, <3>1 DEF DiskOK, Put
  <2>2. CASE pc = "clean" /\ disk' = Drop(ChunkPath(chunk))
    <3>1. ChunkPath(chunk) # Idefix
      <4>1. Now.op = "check" /\ chunk \in DOMAIN Wanted
        BY <2>2 DEF PcInv, ChunkInv, Writing
      <4> QED
        BY <4>1, WantedFacts, OtherFiles
    <3> QED
      BY <1>1, <2>2, <3>1 DEF DiskOK, Drop
  <2> QED
    BY <1>1, <1>2, <2>1, <2>2 DEF DiskMoves, DiskOK
<1>3. CASE Apply
  BY <1>1, <1>3, ApplyMoves DEF Updated, DiskOK
<1>4. CASE Deploy
  <2>1. disk' = Put(Idefix, Data("upgrade"))
    BY <1>4 DEF Deploy
  <2>2. Data("upgrade") \in Stored
    BY DEF Stored, Contents
  <2> QED
    BY <1>1, <2>1, <2>2, OtherFiles DEF DiskOK, Put
<1>5. CASE UNCHANGED vars
  BY <1>1, <1>5 DEF vars, DiskOK
<1> QED
  BY <1>2, <1>3, <1>4, <1>5, CommandMoves DEF Next

LEMMA TypeStep ==
  ASSUME TypeOK, PcInv, ChunkInv, [Next]_vars
  PROVE  TypeOK' /\ PcInv' /\ ChunkInv'
<1>1. Places' /\ PcInv' /\ ChunkInv' /\ Flags' /\ DiskOK'
  BY PlacesStep, FlagsStep, DiskStep
<1> QED
  BY <1>1, Parts, PTL

-----------------------------------------------------------------------------
(* What was done stays done. *)

LEMMA PlanTask ==
  ASSUME TypeOK, NEW k \in DOMAIN Plan(command)
  PROVE  /\ Plan(command)[k].op = "check" => Plan(command)[k].path \in Sent
         /\ Plan(command)[k].op = "check" /\ Now.op = "check" /\ Plan(command)[k].path = Path
              => k = task
         /\ k \in Nat
BY TaskFacts DEF PlanOK, Fine, SameFile, Now, Path

LEMMA DiskKeeps ==
  ASSUME TypeOK, PcInv, ChunkInv, DiskMoves, NEW f \in DOMAIN disk \ ChunkFiles,
         pc \in {"create", "join"} => f # Path,
         pc = "copy" => f # File("rollback.bin")
  PROVE  f \in DOMAIN disk' /\ disk'[f] = disk[f]
<1>1. ASSUME NEW path \in Files, Writes(path) PROVE path # f
  <2>1. CASE pc = "write"
    <3>1. Now.op = "check" /\ chunk \in DOMAIN Wanted
      BY <2>1 DEF PcInv, ChunkInv, Writing
    <3> QED
      BY <1>1, <2>1, <3>1, WantedFacts DEF Writes
  <2> QED
    BY <1>1, <2>1 DEF Writes
<1>2. CASE \E path \in Files : Writes(path)
  BY <1>1, <1>2 DEF Writes, Put
<1>3. CASE pc = "clean" /\ disk' = Drop(ChunkPath(chunk))
  <2>1. Now.op = "check" /\ chunk \in DOMAIN Wanted
    BY <1>3 DEF PcInv, ChunkInv, Writing
  <2>2. f # ChunkPath(chunk)
    BY <2>1, WantedFacts
  <2> QED
    BY <1>3, <2>2 DEF Drop
<1> QED
  BY <1>2, <1>3 DEF DiskMoves

LEMMA ProgramKept ==
  ASSUME TypeOK, PcInv, ChunkInv, DiskMoves
  PROVE  Idefix \in DOMAIN disk' /\ disk'[Idefix] = disk[Idefix]
<1>1. pc \in {"create", "join"} => Path # Idefix
  <2>1. pc \in {"create", "join"} => Now.op = "check"
    BY DEF PcInv, Writing
  <2> QED
    BY <2>1, WantedFacts
<1>2. Idefix \in DOMAIN disk \ ChunkFiles
  BY OtherFiles DEF TypeOK
<1> QED
  BY <1>1, <1>2, OtherFiles, DiskKeeps

LEMMA UsedUpKept ==
  ASSUME TypeOK, PcInv, ChunkInv, DiskMoves, UNCHANGED command, NEW path, UsedUp(path)
  PROVE  UsedUp(path)'
<1>1. UpgradeFile' = UpgradeFile
  BY DEF UpgradeFile
<1> QED
  BY <1>1, ProgramKept DEF UsedUp, Has

LEMMA RealKept ==
  ASSUME TypeOK, PcInv, ChunkInv, DiskMoves, UNCHANGED command,
         NEW k \in DOMAIN Plan(command), k # task \/ pc \notin {"create", "join"}, Real(k)
  PROVE  Real(k)'
<1>1. pc \in {"create", "join"} => Now.op = "check"
  BY DEF PcInv, Writing
<1> DEFINE t == Plan(command)[k]
<1>2. ASSUME t.op = "check"
      PROVE  t.path \in DOMAIN disk' /\ disk'[t.path] = t.data
  <2>1. t.path \in DOMAIN disk /\ disk[t.path] = t.data
    BY <1>2 DEF Real, Has
  <2>2. t.path \notin ChunkFiles /\ t.path # File("rollback.bin")
    BY <1>2, PlanTask, SentFacts
  <2>3. pc \in {"create", "join"} => t.path # Path
    BY <1>1, <1>2, PlanTask
  <2> QED
    BY <2>1, <2>2, <2>3, DiskKeeps
<1>3. ASSUME t.op = "copy"
      PROVE  File("rollback.bin") \in DOMAIN disk'
  <2>1. File("rollback.bin") \in DOMAIN disk \ ChunkFiles
    BY <1>3, OtherFiles DEF Real
  <2>2. CASE pc = "copy"
    BY <2>1, <2>2 DEF DiskMoves, Writes, Put
  <2>3. CASE pc # "copy"
    <3>1. pc \in {"create", "join"} => File("rollback.bin") # Path
      BY <1>1, WantedFacts
    <3> QED
      BY <2>1, <2>3, <3>1, DiskKeeps
  <2> QED
    BY <2>2, <2>3
<1>4. Plan(command)' = Plan(command)
  OBVIOUS
<1> HIDE DEF t
<1> QED
  BY <1>2, <1>3, <1>4 DEF Real, Has, t

LEMMA DoneKept ==
  ASSUME TypeOK, PcInv, ChunkInv, DiskMoves, UNCHANGED command,
         NEW k \in DOMAIN Plan(command), k # task \/ pc \notin {"create", "join"}, Done(k)
  PROVE  Done(k)'
<1>1. Plan(command)'[k].path = Plan(command)[k].path
  OBVIOUS
<1> QED
  BY <1>1, RealKept, UsedUpKept DEF Done

-----------------------------------------------------------------------------
(* The tasks behind a command stay done, and a device that counts down has *)
(* everything.                                                             *)

\* A task that ends was done.
LEMMA TaskEnds ==
  ASSUME TypeOK, PcInv, ChunkInv, Progress, Step \/ Failure, NextTask,
         NEW k \in DOMAIN Plan(command), k = task
  PROVE  Done(k)' /\ (armed => Real(k)')
<1>1. command' = command /\ Plan(command)' = Plan(command)
  BY FlagsStep DEF Next
<1>2. Now = Plan(command)[k]
  BY DEF Now
<1>3. CASE Check \/ Verify
  <2>1. pc \in {"check", "verify"} /\ UNCHANGED disk
    BY <1>3 DEF Check, Verify
  <2>2. Now.op = "check"
    BY <2>1 DEF PcInv, Working, Writing
  <2>3. pc' \in Ops \cup {"done"}
    BY <1>1, TaskMoves
  <2>4. Has(Path, Wanted)
    BY <1>3, <2>3 DEF Check, Verify, Go, Ops
  <2>5. Real(k)
    BY <1>2, <2>2, <2>4 DEF Real, Path, Wanted
  <2>6. Real(k)'
    BY <1>1, <2>1, <2>5, <1>2 DEF Real, Has
  <2> QED
    BY <2>6 DEF Done
<1>4. CASE Clean
  <2>1. pc = "clean" /\ Passed(k)
    BY <1>4 DEF Clean, Passed
  <2>2. Done(k) /\ (armed => Real(k))
    BY <1>2, <2>1 DEF Progress, Working
  <2>3. DiskMoves
    BY CommandMoves
  <2> QED
    BY <1>1, <1>2, <2>1, <2>2, <2>3, RealKept, DoneKept
<1>5. CASE Copy
  <2>1. pc = "copy" /\ disk' = Put(File("rollback.bin"), disk[Idefix])
    BY <1>5 DEF Copy
  <2>2. Now.op = "copy"
    BY <2>1 DEF PcInv, Working, Writing
  <2>3. File("rollback.bin") \in DOMAIN disk'
    BY <2>1 DEF Put
  <2>4. Real(k)'
    BY <1>1, <1>2, <2>2, <2>3 DEF Real
  <2> QED
    BY <2>4 DEF Done
<1>6. CASE pc \in {"info", "sha", "exit", "exists", "upload", "confirm", "set", "alive"}
  <2>1. Now.op \notin {"check", "copy"}
    BY <1>6 DEF PcInv, Working, Writing
  <2>2. Real(k)'
    BY <1>1, <1>2, <2>1 DEF Real
  <2> QED
    BY <2>2 DEF Done
<1>7. pc' \in Ops \cup {"done"}
  BY <1>1, TaskMoves
<1>8. CASE Create \/ Join \/ Chunk \/ Write
  <2>1. pc' \in {"join", "chunk", "verify", "failed", "write"}
    BY <1>8 DEF Create, Join, Go, Chunk, Write, NextChunk
  <2> QED
    BY <1>7, <2>1 DEF Ops
<1>9. CASE Run
  <2>1. task' = 1 /\ pc' = Plan(command)[1].op /\ task \in Nat /\ task >= 1
    BY <1>9, TaskFacts DEF Run, TypeOK
  <2>2. 1 \in DOMAIN Plan(command) /\ Plan(command)[1].op \in Ops
    BY TaskFacts DEF PlanOK, Fine
  <2> QED
    BY <1>1, <2>1, <2>2, TaskMoves DEF Ops
<1>10. CASE CallFails \/ ExitFails \/ UploadFails \/ CheckFails
  <2>1. pc' \in {"failed", "create", "write"}
    BY <1>10 DEF CallFails, ExitFails, UploadFails, CheckFails, Go
  <2> QED
    BY <1>7, <2>1 DEF Ops
<1> QED
  BY <1>3, <1>4, <1>5, <1>6, <1>8, <1>9, <1>10
  DEF Step, Failure, Info, Sha, Exit, Exists, Upload, Confirm, SetTarget, Alive, SetTargetFails

\* Which tasks a step of the command has behind it, and when it arms the device.
LEMMA PassedBefore ==
  ASSUME TypeOK, PcInv, ChunkInv, Step \/ Failure, pc' \in Working,
         NEW k \in DOMAIN Plan(command), Passed(k)'
  PROVE  \/ Passed(k) /\ pc \in Working
         \/ k = task /\ NextTask
         \/ k = task /\ Verify /\ Has(Path, Wanted)
<1>1. k \in Nat /\ k >= 1 /\ task \in Nat
  BY TaskFacts DEF PlanOK
<1>2. CASE NextTask
  <2>1. command' = command
    BY FlagsStep DEF Next
  <2>2. /\ pc' \in Ops \cup {"done"}
        /\ task' = task + 1 \/ pc' = "done"
    BY <1>2, <2>1, TaskMoves
  <2>3. task' = task + 1 /\ pc' # "clean"
    BY <2>2 DEF Working, Ops
  <2>4. k < task \/ k = task
    BY <1>1, <2>3 DEF Passed
  <2>5. pc \in Working
    <3>1. ~Run
      <4>1. Run => task' = 1
        BY DEF Run
      <4> QED
        BY <1>1, <2>3, <2>4, <4>1
    <3> QED
      BY <3>1 DEF Step, Failure, Info, Sha, Check, Create, Chunk, Write, Join, Verify, Clean, Copy,
        Exit, Exists, Upload, Confirm, SetTarget, Alive, CallFails, ExitFails, UploadFails,
        CheckFails, SetTargetFails, Working
  <2> QED
    BY <1>2, <2>4, <2>5 DEF Passed
<1>3. CASE Run
  BY <1>1, <1>3, TaskFacts DEF Run, Passed, PlanOK, Fine, Ops
<1>4. CASE ~NextTask /\ (Verify \/ Clean)
  BY <1>1, <1>4 DEF Verify, Clean, Go, Passed, Working
<1>5. CASE ~NextTask /\ (Check \/ Create \/ Chunk \/ Write \/ Join \/ Sha \/ Exists \/ Confirm)
  <2>1. task' = task /\ pc \in Working /\ pc' # "clean"
    BY <1>5 DEF Check, Create, Chunk, Write, Join, Sha, Exists, Confirm, Stay, Go, NextChunk, Working
  <2> QED
    BY <1>1, <2>1 DEF Passed
<1>6. CASE CallFails \/ ExitFails \/ UploadFails \/ CheckFails
  <2>1. CheckFails
    BY <1>6 DEF CallFails, ExitFails, UploadFails, Go, Working
  <2>2. task' = task /\ pc \in Working /\ pc' # "clean"
    BY <2>1 DEF CheckFails, Go, Working
  <2> QED
    BY <2>2 DEF Passed
<1> QED
  BY <1>2, <1>3, <1>4, <1>5, <1>6
  DEF Step, Failure, Info, Copy, Exit, Upload, SetTarget, Alive, SetTargetFails

LEMMA Arming ==
  ASSUME TypeOK, PcInv, Step \/ Failure, armed', ~armed
  PROVE  (Exit \/ ExitFails) /\ pc' \notin Working
<1>1. Exit \/ ExitFails
  <2>1. CASE Step
    BY <2>1 DEF Step, Run, Info, Sha, Check, Create, Chunk, Write, Join, Verify, Clean, Copy,
       Exists, Upload, Confirm, SetTarget, Alive, Stay
  <2>2. CASE Failure
    BY <2>2 DEF Failure, CallFails, UploadFails, CheckFails, SetTargetFails
  <2> QED
    BY <2>1, <2>2
<1>2. pc = "exit"
  BY <1>1 DEF Exit, ExitFails
<1>3. Now.op = "exit"
  BY <1>2 DEF PcInv, Working, Writing
<1>4. task = Len(Plan(command)) /\ task \in Nat
  BY <1>3, TaskFacts DEF PlanOK, Now
<1>5. CASE Exit
  <2>1. NextTask
    BY <1>5 DEF Exit
  <2>2. pc' = "done"
    BY <1>4, <2>1 DEF NextTask
  <2> QED
    BY <1>1, <2>2 DEF Working
<1>6. CASE ExitFails
  BY <1>6 DEF ExitFails, Go, Working
<1> QED
  BY <1>1, <1>5, <1>6

LEMMA ProgressStep ==
  ASSUME TypeOK, PcInv, ChunkInv, Progress, Step \/ Failure
  PROVE  Progress'
<1>1. command' = command /\ Plan(command)' = Plan(command)
  BY FlagsStep DEF Next
<1>2. SUFFICES ASSUME pc' \in Working, NEW k \in DOMAIN Plan(command), Passed(k)'
               PROVE  Done(k)' /\ (armed' => Real(k)')
  BY <1>1 DEF Progress
<1>3. armed' => armed
  BY <1>2, Arming
<1>4. DiskMoves
  BY CommandMoves
<1>5. CASE Passed(k) /\ pc \in Working
  <2>1. Done(k) /\ (armed => Real(k))
    BY <1>5 DEF Progress
  <2>2. k # task \/ pc \notin {"create", "join"}
    BY <1>5, TaskFacts DEF Passed
  <2> QED
    BY <1>1, <1>3, <1>4, <2>1, <2>2, RealKept, DoneKept
<1>6. CASE k = task /\ NextTask
  BY <1>3, <1>6, TaskEnds
<1>7. CASE k = task /\ Verify /\ Has(Path, Wanted)
  <2>1. pc = "verify" /\ UNCHANGED disk
    BY <1>7 DEF Verify
  <2>2. Real(k)
    <3>1. Now.op = "check" /\ Now = Plan(command)[k]
      BY <1>7, <2>1 DEF PcInv, Writing, Now
    <3> QED
      BY <1>7, <3>1 DEF Real, Path, Wanted
  <2>3. Real(k)'
    BY <1>1, <2>1, <2>2 DEF Real, Has
  <2> QED
    BY <2>3 DEF Done
<1> QED
  BY <1>2, <1>5, <1>6, <1>7, PassedBefore

\* A file that is written again under a device that counts down was used up.
LEMMA RewritesStep ==
  ASSUME TypeOK, PcInv, ChunkInv, Kept, Step \/ Failure,
         armed, ~unsure, ~unsure', pc' \in Writing
  PROVE  UsedUp(Path)'
<1>1. command' = command
  BY FlagsStep DEF Next
<1>2. ~Disturb
  BY DEF Disturb
<1>3. ~NextTask /\ ~Run
  <2>1. Run => pc' \in Ops
    BY TaskFacts DEF Run, PlanOK, Fine
  <2>2. NextTask => pc' \in Ops \cup {"done"}
    BY <1>1, TaskMoves
  <2> QED
    BY <2>1, <2>2 DEF Ops, Writing
<1>4. task' = task /\ (pc \in Writing \/ Check)
  BY <1>2, <1>3 DEF Step, Failure, Info, Sha, Check, Create, Chunk, Write, Join, Verify, Clean, Copy,
     Exit, Exists, Upload, Confirm, SetTarget, Alive, CallFails, ExitFails, UploadFails,
     CheckFails, SetTargetFails, Writing, Stay, Go
<1>5. Path' = Path
  BY <1>1, <1>4 DEF Path, Now
<1>6. UsedUp(Path)
  <2>1. CASE pc \in Writing
    BY <2>1 DEF Kept
  <2>2. CASE Check
    <3>1. ~Has(Path, Wanted) /\ pc = "check"
      BY <1>3, <2>2 DEF Check
    <3>2. Now.op = "check" /\ Now = Plan(command)[task] /\ task \in DOMAIN Plan(command)
      BY <3>1, TaskFacts DEF PcInv, Working, Writing, Now
    <3>3. Done(task)
      BY <3>2 DEF Kept
    <3> QED
      BY <3>1, <3>2, <3>3 DEF Done, Real, Path, Wanted
  <2> QED
    BY <1>4, <2>1, <2>2
<1>7. PICK path : path = Path
  OBVIOUS
<1>8. UsedUp(path)'
  BY <1>1, <1>6, <1>7, UsedUpKept, CommandMoves
<1> QED
  BY <1>1, <1>5, <1>7, <1>8 DEF UsedUp, UpgradeFile

\* When the device is told to stop, all tasks are done.
LEMMA ArmedDone ==
  ASSUME TypeOK, PcInv, ChunkInv, Progress, Step \/ Failure, armed', ~armed,
         NEW k \in DOMAIN Plan(command)
  PROVE  Done(k)'
<1>1. pc = "exit" /\ DiskMoves /\ command' = command
  BY Arming, CommandMoves, FlagsStep DEF Exit, ExitFails, Next
<1>2. Now.op = "exit"
  BY <1>1 DEF PcInv, Working, Writing
<1>3. task = Len(Plan(command)) /\ task \in Nat /\ k \in 1 .. task
  BY <1>2, TaskFacts DEF PlanOK, Now
<1>4. Done(k)
  <2>1. CASE k = task
    BY <1>2, <2>1 DEF Done, Real, Now
  <2>2. CASE k # task
    <3>1. Passed(k)
      BY <1>3, <2>2 DEF Passed
    <3> QED
      BY <1>1, <3>1 DEF Progress, Working
  <2> QED
    BY <2>1, <2>2
<1> QED
  BY <1>1, <1>4, DoneKept

LEMMA KeptStep ==
  ASSUME TypeOK, PcInv, ChunkInv, Progress, Kept, Step \/ Failure
  PROVE  Kept'
<1>1. command' = command /\ Plan(command)' = Plan(command) /\ DiskMoves
  BY FlagsStep, CommandMoves DEF Next
<1>2. SUFFICES ASSUME armed', ~unsure'
               PROVE  /\ \A k \in DOMAIN Plan(command) : Done(k)'
                      /\ pc' \in Writing => UsedUp(Path)'
  BY <1>1 DEF Kept
<1>3. CASE ~armed
  <2>1. pc' \notin Writing
    BY <1>2, <1>3, Arming DEF Working, Writing
  <2> QED
    BY <1>2, <1>3, <2>1, ArmedDone
<1>4. CASE armed
  <2>1. ~unsure
    <3>1. ASSUME Step PROVE unsure' = unsure \/ Exit
      BY <3>1 DEF Step, Run, Info, Sha, Check, Create, Chunk, Write, Join, Verify, Clean, Copy,
         Exists, Upload, Confirm, SetTarget, Alive, Stay
    <3>2. ~Failure
      BY <1>2, <1>4 DEF Failure, CallFails, ExitFails, UploadFails, CheckFails, SetTargetFails, Disturb
    <3> QED
      BY <1>2, <1>4, <3>1, <3>2 DEF Exit
  <2>2. ASSUME NEW k \in DOMAIN Plan(command) PROVE Done(k)'
    <3>1. Done(k)
      BY <1>4, <2>1 DEF Kept
    <3>2. CASE k # task \/ pc \notin {"create", "join"}
      BY <1>1, <3>1, <3>2, DoneKept
    <3>3. CASE k = task /\ pc \in {"create", "join"}
      <4>1. UsedUp(Path) /\ Path = Plan(command)[k].path
        BY <1>4, <2>1, <3>3 DEF Kept, Writing, Path, Now
      <4>2. UsedUp(Plan(command)[k].path)
        BY <4>1
      <4>3. Plan(command)'[k].path = Plan(command)[k].path
        BY <1>1
      <4> QED
        BY <1>1, <4>2, <4>3, UsedUpKept DEF Done
    <3> QED
      BY <3>2, <3>3
  <2> QED
    BY <1>2, <1>4, <2>1, <2>2, RewritesStep
<1> QED
  BY <1>3, <1>4

LEMMA RefusedStep ==
  ASSUME TypeOK, PcInv, ChunkInv, RefusedRightly, [Next]_vars
  PROVE  RefusedRightly'
<1>1. SUFFICES ASSUME pc' = "refused" PROVE ~Has(Idefix, Data("old"))'
  BY DEF RefusedRightly
<1>2. ASSUME Step \/ Failure
      PROVE  UNCHANGED disk /\ ~Has(Idefix, Data("old"))
  <2>1. ~NextTask /\ ~Run
    <3>1. command' = command
      BY <1>2, FlagsStep DEF Next
    <3>2. Run => pc' \in Ops
      BY TaskFacts DEF Run, PlanOK, Fine
    <3>3. NextTask => pc' \in Ops \cup {"done"}
      BY <3>1, TaskMoves
    <3> QED
      BY <1>1, <3>2, <3>3 DEF Ops
  <2>2. ~Failure
    BY <1>1, <2>1 DEF Failure, CallFails, ExitFails, UploadFails, CheckFails, SetTargetFails, Go
  <2>3. Sha
    BY <1>1, <1>2, <2>1, <2>2 DEF Step, Info, Check, Create, Chunk, Write, Join, Verify, Clean, Copy,
       Exit, Exists, Upload, Confirm, SetTarget, Alive, Go, NextChunk
  <2> QED
    BY <2>1, <2>3 DEF Sha
<1>3. CASE Step \/ Failure
  BY <1>2, <1>3 DEF Has
<1>4. CASE Apply \/ Deploy \/ UNCHANGED vars
  <2>1. pc = "refused" /\ command.kind = "patch"
    BY <1>1, <1>4 DEF Apply, Deploy, vars, PcInv
  <2>2. Idefix \in DOMAIN disk /\ disk[Idefix] # Data("old")
    BY <2>1 DEF RefusedRightly, Has, TypeOK
  <2>3. CASE Apply
    <3>1. disk'[Idefix] = Upgraded
      BY <2>3, ApplyMoves DEF Updated
    <3>2. Upgraded \in {Data("upgrade"), disk[Idefix]}
      BY <2>1 DEF Upgraded
    <3> QED
      BY <2>2, <3>1, <3>2, UpgradeIsNew DEF Has
  <2>4. CASE Deploy
    BY <2>4, UpgradeIsNew DEF Deploy, Put, Has
  <2>5. CASE UNCHANGED vars
    BY <2>2, <2>5 DEF vars, Has
  <2> QED
    BY <1>4, <2>3, <2>4, <2>5
<1> QED
  BY <1>3, <1>4 DEF Next

\* The update uses up the upgrade and its environment only; it disarms the device.
LEMMA ApplyKeeps ==
  ASSUME TypeOK, PcInv, Progress, Kept, Apply
  PROVE  Progress' /\ Kept'
<1>1. armed /\ ~armed' /\ UNCHANGED <<command, pc, task>> /\ Plan(command)' = Plan(command)
  BY DEF Apply
<1>2. Kept'
  BY <1>1 DEF Kept
<1>3. PICK gone \in SUBSET (Files \ {Idefix}) :
        /\ DOMAIN disk' = DOMAIN disk \ gone
        /\ \A f \in DOMAIN disk' \ {Idefix} : disk'[f] = disk[f]
        /\ disk'[Idefix] = Upgraded
        /\ \A f \in gone \ ChunkFiles :
             f \in {UpgradeFile, File("upgrade.env")} /\ Upgraded = Data("upgrade")
  BY ApplyMoves DEF Updated
<1>4. ASSUME NEW k \in DOMAIN Plan(command), Real(k)
      PROVE  Done(k)'
  <2> DEFINE t == Plan(command)[k]
  <2>1. Idefix \in DOMAIN disk'
    BY <1>3 DEF TypeOK
  <2>2. UpgradeFile' = UpgradeFile
    BY <1>1 DEF UpgradeFile
  <2>3. ASSUME t.op = "check"
        PROVE  \/ t.path \in DOMAIN disk' /\ disk'[t.path] = t.data
               \/ t.path \in {UpgradeFile, File("upgrade.env")} /\ disk'[Idefix] = Data("upgrade")
    <3>1. t.path \in DOMAIN disk /\ disk[t.path] = t.data
      BY <1>4, <2>3 DEF Real, Has
    <3>2. t.path \notin ChunkFiles /\ t.path # Idefix
      BY <2>3, PlanTask, SentFacts
    <3> QED
      BY <1>3, <3>1, <3>2
  <2>4. t.op = "copy" => File("rollback.bin") \in DOMAIN disk'
    <3>1. File("rollback.bin") \notin {UpgradeFile, File("upgrade.env")}
      BY DEF UpgradeFile, File
    <3> QED
      BY <1>3, <1>4, <3>1, OtherFiles DEF Real
  <2> HIDE DEF t
  <2>5. CASE t.op = "check"
    BY <1>1, <2>1, <2>2, <2>3, <2>5 DEF Done, Real, UsedUp, Has, t
  <2>6. CASE t.op # "check"
    BY <1>1, <2>4, <2>6 DEF Done, Real, t
  <2> QED
    BY <2>5, <2>6
<1>5. Progress'
  BY <1>1, <1>4 DEF Progress, Passed
<1> QED
  BY <1>2, <1>5

LEMMA DeployKeeps ==
  ASSUME TypeOK, PcInv, Progress, Kept, Deploy
  PROVE  Progress' /\ Kept'
<1>1. UNCHANGED <<command, armed, unsure, pc, task>> /\ Plan(command)' = Plan(command) /\ Path' = Path
  BY DEF Deploy, Path, Now
<1>2. /\ DOMAIN disk' = DOMAIN disk \cup {Idefix} /\ disk'[Idefix] = Data("upgrade")
      /\ \A f \in DOMAIN disk \ {Idefix} : disk'[f] = disk[f]
  BY DEF Deploy, Put
<1>3. ASSUME NEW path, UsedUp(path) PROVE UsedUp(path)'
  BY <1>1, <1>2, <1>3 DEF UsedUp, UpgradeFile, Has
<1>4. ASSUME NEW k \in DOMAIN Plan(command), Real(k) PROVE Real(k)'
  <2>1. Plan(command)[k].op = "check" => Plan(command)[k].path # Idefix
    BY PlanTask, SentFacts
  <2> QED
    BY <1>1, <1>2, <1>4, <2>1 DEF Real, Has
<1>5. ASSUME NEW k \in DOMAIN Plan(command), Done(k) PROVE Done(k)'
  <2>1. Plan(command)'[k].path = Plan(command)[k].path
    BY <1>1
  <2> QED
    BY <1>3, <1>4, <1>5, <2>1 DEF Done
<1>6. Progress'
  BY <1>1, <1>4, <1>5 DEF Progress, Passed
<1>7. UsedUp(Path) => UsedUp(Path)'
  <2>1. PICK path : path = Path
    OBVIOUS
  <2> QED
    BY <1>1, <1>3, <2>1 DEF UsedUp, UpgradeFile
<1>8. Kept'
  BY <1>1, <1>5, <1>7 DEF Kept
<1> QED
  BY <1>6, <1>8

-----------------------------------------------------------------------------
\* The inductive invariant: where the command is, what it has done, and what a
\* device that counts down has.
THEOREM Invariance == Spec => []UInv
<1>1. Init => UInv
  <2> SUFFICES ASSUME Init PROVE UInv
    OBVIOUS
  <2>1. command \in Command /\ pc = "idle" /\ task = 1 /\ chunk = 1 /\ armed = FALSE
    BY DEF Init
  <2>2. PICK b \in {"old", "other"} : disk = [f \in {Idefix} |-> Data(b)]
    BY DEF Init
  <2>3. Data(b) \in Stored
    BY DEF Stored, Contents
  <2>4. DiskOK
    BY <2>2, <2>3, OtherFiles DEF DiskOK
  <2>5. 1 \in 1 .. Len(Plan(command)) /\ 1 \in 1 .. Chunks
    BY <2>1, PlanFacts, UpdatesAssumption DEF PlanOK
  <2>6. Places /\ Flags
    <3>1. unsure = FALSE /\ released \in BOOLEAN /\ target = FALSE /\ faults = 0
      BY DEF Init
    <3>2. Flags
      <4>1. 0 \in 0 .. MaxFaults
        BY UpdatesAssumption
      <4>2. armed \in BOOLEAN /\ unsure \in BOOLEAN /\ target \in BOOLEAN /\ ~armed
        BY <2>1, <3>1
      <4> QED
        BY <3>1, <4>1, <4>2 DEF Flags
    <3> QED
      BY <2>1, <2>5, <3>2 DEF Places
  <2>7. PcInv /\ ChunkInv /\ Progress /\ Kept /\ RefusedRightly
    BY <2>1 DEF PcInv, ChunkInv, Progress, Kept, RefusedRightly, Working, Writing
  <2> QED
    BY <2>4, <2>6, <2>7, Parts DEF UInv
<1>2. UInv /\ [Next]_vars => UInv'
  <2> SUFFICES ASSUME UInv, [Next]_vars PROVE UInv'
    OBVIOUS
  <2>1. TypeOK' /\ PcInv' /\ ChunkInv' /\ RefusedRightly'
    BY TypeStep, RefusedStep DEF UInv
  <2>2. CASE Step \/ Failure
    BY <2>1, <2>2, ProgressStep, KeptStep DEF UInv
  <2>3. CASE Apply \/ Deploy
    BY <2>1, <2>3, ApplyKeeps, DeployKeeps DEF UInv
  <2>4. CASE UNCHANGED vars
    <3>1. UNCHANGED <<command, disk, armed, unsure, pc, task>> /\ Path' = Path
      BY <2>4 DEF vars, Path, Now
    <3>2. Progress' /\ Kept'
      BY <3>1 DEF UInv, Progress, Kept, Passed, Done, Real, UsedUp, UpgradeFile, Has
    <3> QED
      BY <2>1, <3>2 DEF UInv
  <2> QED
    BY <2>2, <2>3, <2>4 DEF Next
<1> QED
  BY <1>1, <1>2, PTL DEF Spec

\* What a task leaves when it is done.
LEMMA SentDone ==
  ASSUME NEW k \in DOMAIN Plan(command), NEW name, NEW data, Plan(command)[k] = Send(name, data),
         Done(k)
  PROVE  Whole(name, data) \/ UsedUp(File(name))
BY DEF Done, Real, Send, Whole

LEMMA CopyDone ==
  ASSUME NEW k \in DOMAIN Plan(command), Plan(command)[k] = Ask("copy"), Done(k)
  PROVE  File("rollback.bin") \in DOMAIN disk
<1>1. ~UsedUp(Idefix)
  BY DEF UsedUp, UpgradeFile, File, Idefix
<1> QED
  BY <1>1 DEF Done, Real, Ask

LEMMA KeepsEquipped ==
  ASSUME TypeOK, PcInv, Kept
  PROVE  Equipped
<1>1. SUFFICES ASSUME armed, ~unsure
               PROVE  Equipped
  BY DEF Equipped
<1>2. \A k \in DOMAIN Plan(command) : Done(k)
  BY <1>1 DEF Kept
<1>3. command.kind # "cloud" /\ command \in Command
  BY <1>1 DEF PcInv, TypeOK
<1>4. \A name \in {"rollback.env", "rollback.patch", "int.json"} : ~UsedUp(File(name))
  BY DEF UsedUp, UpgradeFile, File
<1>5. /\ UsedUp(File("upgrade.env")) => Has(Idefix, Data("upgrade"))
      /\ UsedUp(File("upgrade.bin")) => Has(Idefix, Data("upgrade"))
      /\ UsedUp(File("upgrade.patch")) => Has(Idefix, Data("upgrade"))
  BY DEF UsedUp
<1>6. CASE command.kind = "int"
  <2>1. command.rollback = "none"
    BY <1>3, <1>6 DEF Command
  <2>2. Plan(command) = <<Send("int.json", "int"), Ask("exit")>>
    BY <1>6 DEF Plan, IntPlan
  <2>3. 1 \in DOMAIN Plan(command) /\ Plan(command)[1] = Send("int.json", "int")
    BY <2>2
  <2>4. Whole("int.json", "int")
    BY <1>2, <1>4, <2>3, SentDone
  <2> QED
    BY <1>6, <2>1, <2>4 DEF Equipped
<1>7. CASE command.kind = "file"
  <2>1. command.rollback \in {"none", "bin"}
    BY <1>3, <1>7 DEF Command
  <2>2. /\ 2 \in DOMAIN Plan(command) /\ Plan(command)[2] = Send("upgrade.env", "env")
        /\ 3 \in DOMAIN Plan(command) /\ Plan(command)[3] = Send("upgrade.bin", "upgrade")
    BY <1>7 DEF Plan, FilePlan
  <2>3. Upgradable("upgrade.bin", "upgrade", "env")
    BY <1>2, <1>5, <2>2, SentDone DEF Upgradable
  <2>4. CASE command.rollback = "none"
    BY <1>7, <2>3, <2>4 DEF Equipped
  <2>5. CASE command.rollback = "bin"
    <3>1. /\ 4 \in DOMAIN Plan(command) /\ Plan(command)[4] = Send("rollback.env", "empty")
          /\ 5 \in DOMAIN Plan(command) /\ Plan(command)[5] = Ask("copy")
      BY <1>7, <2>5 DEF Plan, FilePlan
    <3>2. Whole("rollback.env", "empty") /\ File("rollback.bin") \in DOMAIN disk
      BY <1>2, <1>4, <3>1, SentDone, CopyDone
    <3> QED
      BY <1>7, <2>3, <2>5, <3>2 DEF Equipped
  <2> QED
    BY <2>1, <2>4, <2>5
<1>8. CASE command.kind = "patch"
  <2>1. command.rollback \in {"none", "bin", "patch"}
    BY <1>3, <1>8 DEF Command
  <2>2. /\ 3 \in DOMAIN Plan(command) /\ Plan(command)[3] = Send("upgrade.env", "hashes")
        /\ 4 \in DOMAIN Plan(command) /\ Plan(command)[4] = Send("upgrade.patch", "patch")
    BY <1>8 DEF Plan, PatchPlan
  <2>3. Upgradable("upgrade.patch", "patch", "hashes")
    BY <1>2, <1>5, <2>2, SentDone DEF Upgradable
  <2>4. CASE command.rollback = "none"
    BY <1>8, <2>3, <2>4 DEF Equipped
  <2>5. ASSUME command.rollback # "none"
        PROVE  Whole("rollback.env", "back")
    <3>1. 5 \in DOMAIN Plan(command) /\ Plan(command)[5] = Send("rollback.env", "back")
      BY <1>8, <2>5 DEF Plan, PatchPlan
    <3> QED
      BY <1>2, <1>4, <3>1, SentDone
  <2>6. CASE command.rollback = "bin"
    <3>1. 6 \in DOMAIN Plan(command) /\ Plan(command)[6] = Ask("copy")
      BY <1>8, <2>6 DEF Plan, PatchPlan
    <3>2. File("rollback.bin") \in DOMAIN disk
      BY <1>2, <3>1, CopyDone
    <3> QED
      BY <1>8, <2>3, <2>5, <2>6, <3>2 DEF Equipped
  <2>7. CASE command.rollback = "patch"
    <3>1. 6 \in DOMAIN Plan(command) /\ Plan(command)[6] = Send("rollback.patch", "unpatch")
      BY <1>8, <2>7 DEF Plan, PatchPlan
    <3>2. Whole("rollback.patch", "unpatch")
      BY <1>2, <1>4, <3>1, SentDone
    <3> QED
      BY <1>8, <2>3, <2>5, <2>7, <3>2 DEF Equipped
  <2> QED
    BY <2>1, <2>4, <2>6, <2>7
<1>9. command.kind \in {"file", "patch", "cloud", "int"}
  BY <1>3, UpdatesAssumption DEF Command
<1> QED
  BY <1>3, <1>6, <1>7, <1>8, <1>9

\* A device that counts down to its update has the whole upgrade and its
\* environment, or is updated already, whichever calls of this or an earlier attempt
\* failed before.  Of a rollback that was asked for it has the whole patch with its
\* environment; of a rollback to the running binary, whose copy the device makes and
\* nobody checks, it has a file of that name.  And a patch is refused only by a
\* device that does not run its source (FileWrite and the commands of cmd_update.go).
THEOREM SafeUpdateHolds == Spec => []SafeUpdate
<1>1. UInv => SafeUpdate
  BY KeepsEquipped DEF UInv, SafeUpdate
<1> QED BY <1>1, Invariance, PTL

-----------------------------------------------------------------------------
(* No chunk is left behind by a command none of whose calls failed. *)

\* The loop over the chunks.
TidyLoop ==
  /\ pc \in {"chunk", "write"} =>
       /\ Littered \subseteq {ChunkPath(k) : k \in 1 .. chunk - 1}
       /\ WholeChunks(1 .. chunk - 1)
  /\ pc \in {"join", "verify"} => Littered \subseteq ChunkPaths
  /\ pc = "join" => WholeChunks(DOMAIN Wanted)
  /\ pc = "verify" => Has(Path, Wanted)
  /\ pc = "clean" => Littered \subseteq {ChunkPath(k) : k \in chunk .. Len(Wanted)}

Looping == {"chunk", "write", "join", "verify", "clean"}

LEMMA TidyParts ==
  Tidy <=> (faults = 0 => /\ armed => pc = "done"
                          /\ pc \notin Looping => Littered = {}
                          /\ TidyLoop)
BY DEF Tidy, TidyLoop, Looping

\* Steps from one task to the next.
LEMMA TidyTask ==
  ASSUME TypeOK, PcInv, ChunkInv, Tidy, faults = 0, NextTask, Step, ~Run
  PROVE  Littered' = {}
<1>1. command' = command
  BY FlagsStep DEF Next
<1>2. pc' \in Ops \cup {"done"}
  BY <1>1, TaskMoves
<1>3. CASE Info \/ Sha \/ Check \/ Exit \/ Exists \/ Upload \/ Confirm \/ SetTarget \/ Alive
  <2>1. pc \notin Looping /\ UNCHANGED disk
    BY <1>3 DEF Info, Sha, Check, Exit, Exists, Upload, Confirm, SetTarget, Alive, Looping
  <2> QED
    BY <2>1, TidyParts DEF Littered
<1>4. CASE Copy
  <2>1. pc \notin Looping /\ DOMAIN disk' = DOMAIN disk \cup {File("rollback.bin")}
    BY <1>4 DEF Copy, Looping, Put
  <2> QED
    BY <2>1, TidyParts, OtherFiles DEF Littered
<1>5. CASE Verify
  <2>1. pc = "verify" /\ UNCHANGED disk /\ Len(Wanted) = 0
    BY <1>2, <1>5 DEF Verify, Go, Ops
  <2>2. Now.op = "check"
    BY <2>1 DEF PcInv, Writing
  <2>3. ChunkPaths = {}
    BY <2>1, <2>2, WantedFacts DEF ChunkPaths
  <2> QED
    BY <2>1, <2>3 DEF Tidy, Littered
<1>6. CASE Clean
  <2>1. pc = "clean" /\ disk' = Drop(ChunkPath(chunk))
    BY <1>6 DEF Clean
  <2>2. Now.op = "check" /\ chunk \in DOMAIN Wanted
    BY <2>1 DEF PcInv, ChunkInv, Writing
  <2>3. ~(chunk < Len(Wanted))
    <3>1. chunk < Len(Wanted) => pc' = pc
      BY <1>6 DEF Clean
    <3> QED
      BY <1>2, <2>1, <3>1 DEF Ops
  <2>4. \A k \in chunk .. Len(Wanted) : k = chunk
    BY <2>2, <2>3, WantedFacts
  <2>5. Littered \subseteq {ChunkPath(chunk)}
    BY <2>1, <2>4 DEF Tidy
  <2> QED
    BY <2>1, <2>5 DEF Littered, Drop
<1>7. CASE Create \/ Chunk \/ Write \/ Join
  BY <1>2, <1>7 DEF Create, Chunk, Write, Join, Go, NextChunk, Ops
<1> QED
  BY <1>3, <1>4, <1>5, <1>6, <1>7 DEF Step

\* Steps within FileWrite.
LEMMA TidyStart ==
  ASSUME TypeOK, PcInv, ChunkInv, Tidy, faults = 0, Create
  PROVE  Littered' = {} /\ TidyLoop'
<1>1. /\ pc = "create" /\ UNCHANGED <<command, task>> /\ chunk' = chunk
      /\ pc' = IF Len(Wanted) = 0 THEN "join" ELSE "chunk"
      /\ disk' = Put(Path, <<>>)
  BY DEF Create, Go, Stay
<1>2. Now.op = "check" /\ chunk = 1 /\ Littered = {}
  BY <1>1 DEF PcInv, ChunkInv, Writing, Working, Tidy
<1>3. Littered' = {}
  BY <1>1, <1>2, WantedFacts DEF Littered, Put
<1>4. Wanted' = Wanted /\ ChunkPaths' = ChunkPaths
  BY <1>1 DEF Wanted, Now, ChunkPaths, ChunkPath
<1>5. Len(Wanted) = 0 => DOMAIN Wanted = {}
  BY <1>2, WantedFacts
<1>6. 1 .. 1 - 1 = {}
  OBVIOUS
<1> QED
  BY <1>1, <1>2, <1>3, <1>4, <1>5, <1>6 DEF TidyLoop, WholeChunks

LEMMA TidyChunks ==
  ASSUME TypeOK, PcInv, ChunkInv, Tidy, faults = 0, Chunk \/ Write
  PROVE  TidyLoop'
<1>1. pc \in {"chunk", "write"} /\ UNCHANGED <<command, task>>
  BY DEF Chunk, Write, Stay
<1>2. Now.op = "check" /\ chunk \in DOMAIN Wanted
  BY <1>1 DEF PcInv, ChunkInv, Writing
<1>3. /\ Len(Wanted) \in Nat /\ DOMAIN Wanted = 1 .. Len(Wanted) /\ chunk \in Nat
      /\ \A j, k \in DOMAIN Wanted : ChunkPath(j) = ChunkPath(k) => j = k
  BY <1>2, WantedFacts, TaskFacts
<1>4. /\ Littered \subseteq {ChunkPath(k) : k \in 1 .. chunk - 1}
      /\ \A k \in 1 .. chunk - 1 : Has(ChunkPath(k), <<Wanted[k]>>)
  BY <1>1 DEF Tidy, WholeChunks
<1>5. Wanted' = Wanted /\ ChunkPaths' = ChunkPaths /\ \A k : ChunkPath(k)' = ChunkPath(k)
  BY <1>1 DEF Wanted, Now, ChunkPaths, ChunkPath
<1>6. CASE pc' = "write" /\ UNCHANGED <<disk, chunk>>
  BY <1>4, <1>5, <1>6 DEF TidyLoop, WholeChunks, Littered, Has
<1>7. CASE NextChunk("chunk", "join")
  <2>1. /\ Littered' \subseteq {ChunkPath(k) : k \in 1 .. chunk}
        /\ \A k \in 1 .. chunk : ChunkPath(k) \in DOMAIN disk' /\ disk'[ChunkPath(k)] = <<Wanted[k]>>
    <3>1. \A k \in 1 .. chunk : k = chunk \/ k \in 1 .. chunk - 1
      BY <1>3
    <3>2. \A k \in 1 .. chunk - 1 : k \in 1 .. chunk
      BY <1>3
    <3>3. chunk \in 1 .. chunk
      BY <1>2, <1>3
    <3>4. CASE UNCHANGED disk /\ Has(ChunkPath(chunk), <<Wanted[chunk]>>)
      BY <1>4, <3>1, <3>2, <3>4 DEF Littered, Has
    <3>5. CASE disk' = Put(ChunkPath(chunk), <<Wanted[chunk]>>)
      <4>1. DOMAIN disk' = DOMAIN disk \cup {ChunkPath(chunk)}
        BY <3>5 DEF Put
      <4>2. Littered' \subseteq {ChunkPath(k) : k \in 1 .. chunk}
        BY <1>4, <3>2, <3>3, <4>1 DEF Littered
      <4>3. \A k \in 1 .. chunk - 1 : ChunkPath(k) \in DOMAIN disk' /\ disk'[ChunkPath(k)] = <<Wanted[k]>>
        <5>1. \A k \in 1 .. chunk - 1 : k \in DOMAIN Wanted /\ k # chunk
          BY <1>2, <1>3
        <5> QED
          BY <1>2, <1>3, <1>4, <3>5, <5>1 DEF Put, Has
      <4>4. ChunkPath(chunk) \in DOMAIN disk' /\ disk'[ChunkPath(chunk)] = <<Wanted[chunk]>>
        BY <3>5 DEF Put
      <4> QED
        BY <3>1, <4>2, <4>3, <4>4
    <3>6. Chunk => UNCHANGED disk /\ (Has(ChunkPath(chunk), <<Wanted[chunk]>>) \/ pc' = "write")
      BY DEF Chunk, Go
    <3>7. pc' # "write"
      BY <1>7 DEF NextChunk
    <3> QED
      BY <3>4, <3>5, <3>6, <3>7 DEF Write
  <2>2. CASE chunk < Len(Wanted)
    <3>1. pc' = "chunk" /\ chunk' = chunk + 1 /\ chunk' - 1 = chunk
      BY <1>3, <1>7, <2>2 DEF NextChunk
    <3> QED
      BY <1>5, <2>1, <3>1 DEF TidyLoop, WholeChunks, Has
  <2>3. CASE ~(chunk < Len(Wanted))
    <3>1. pc' = "join" /\ 1 .. chunk = DOMAIN Wanted
      BY <1>2, <1>3, <1>7, <2>3 DEF NextChunk
    <3> QED
      BY <1>5, <2>1, <3>1 DEF TidyLoop, WholeChunks, Has, ChunkPaths
  <2> QED
    BY <2>2, <2>3
<1>8. CASE ~NextChunk("chunk", "join")
  BY <1>6, <1>8 DEF Chunk, Write, Go
<1> QED
  BY <1>7, <1>8

LEMMA TidyEnd ==
  ASSUME TypeOK, PcInv, ChunkInv, Tidy, faults = 0,
         Join \/ ((Verify \/ Clean) /\ ~NextTask)
  PROVE  pc' \in Looping /\ TidyLoop'
<1>1. pc \in {"join", "verify", "clean"} /\ UNCHANGED <<command, task>>
  BY DEF Join, Verify, Clean, Stay
<1>2. Now.op = "check"
  BY <1>1 DEF PcInv, Writing
<1>3. Wanted' = Wanted /\ Path' = Path /\ ChunkPaths' = ChunkPaths /\ \A k : ChunkPath(k)' = ChunkPath(k)
  BY <1>1 DEF Wanted, Path, Now, ChunkPaths, ChunkPath
<1>4. CASE Join
  <2>1. pc = "join" /\ disk' = Put(Path, Joined)
    BY <1>4 DEF Join
  <2>2. \A k \in DOMAIN Wanted : Has(ChunkPath(k), <<Wanted[k]>>)
    BY <2>1 DEF Tidy, WholeChunks
  <2>3. Joined = Wanted
    BY <2>2 DEF Joined
  <2>4. ChunkPaths \subseteq DOMAIN disk
    BY <2>2 DEF ChunkPaths, Has
  <2>5. pc' = "verify"
    BY <1>4, <2>4 DEF Join, Go
  <2>6. Path \in DOMAIN disk' /\ disk'[Path] = Wanted /\ DOMAIN disk' = DOMAIN disk \cup {Path}
    BY <2>1, <2>3 DEF Put
  <2>7. Littered' \subseteq ChunkPaths
    BY <1>2, <2>1, <2>6, WantedFacts DEF Tidy, Littered
  <2> QED
    BY <1>3, <2>5, <2>6, <2>7 DEF TidyLoop, Has, Looping
<1>5. CASE Verify /\ ~NextTask
  <2>1. pc = "verify" /\ UNCHANGED disk /\ chunk' = chunk
    BY <1>5 DEF Verify, Go
  <2>2. Has(Path, Wanted) /\ Littered \subseteq ChunkPaths /\ chunk = 1
    BY <2>1 DEF Tidy, ChunkInv, Working
  <2>3. pc' = "clean"
    BY <1>5, <2>2 DEF Verify, Go
  <2>4. ChunkPaths = {ChunkPath(k) : k \in 1 .. Len(Wanted)}
    BY <1>2, WantedFacts DEF ChunkPaths
  <2> QED
    BY <1>3, <2>1, <2>2, <2>3, <2>4 DEF TidyLoop, Littered, Looping
<1>6. CASE Clean /\ ~NextTask
  <2>1. /\ pc = "clean" /\ pc' = pc /\ disk' = Drop(ChunkPath(chunk)) /\ chunk' = chunk + 1
    BY <1>6 DEF Clean
  <2>2. chunk \in Nat /\ Len(Wanted) \in Nat
    BY <1>2, WantedFacts, TaskFacts
  <2>3. Littered \subseteq {ChunkPath(k) : k \in chunk .. Len(Wanted)}
    BY <2>1 DEF Tidy
  <2>4. Littered' = Littered \ {ChunkPath(chunk)}
    BY <2>1 DEF Littered, Drop
  <2>5. \A k \in chunk .. Len(Wanted) : k = chunk \/ k \in chunk + 1 .. Len(Wanted)
    BY <2>2
  <2>6. Littered' \subseteq {ChunkPath(k) : k \in chunk + 1 .. Len(Wanted)}
    BY <2>3, <2>4, <2>5
  <2> QED
    BY <1>3, <2>1, <2>6 DEF TidyLoop, Looping
<1> QED
  BY <1>4, <1>5, <1>6

\* Steps that touch no chunk and leave the command where it is.
LEMMA TidyRest ==
  ASSUME TypeOK, PcInv, ChunkInv, Tidy, faults = 0, faults' = faults, Deploy \/ UNCHANGED vars
  PROVE  Tidy'
<1>1. UNCHANGED <<command, armed, pc, task, chunk>>
  BY DEF Deploy, vars
<1>2. Wanted' = Wanted /\ Path' = Path /\ ChunkPaths' = ChunkPaths /\ \A k : ChunkPath(k)' = ChunkPath(k)
  BY <1>1 DEF Wanted, Path, Now, ChunkPaths, ChunkPath
<1>3. /\ DOMAIN disk' = DOMAIN disk
      /\ \A f \in DOMAIN disk \ {Idefix} : disk'[f] = disk[f]
  <2>1. Idefix \in DOMAIN disk
    BY DEF TypeOK
  <2> QED
    BY <2>1 DEF Deploy, vars, Put
<1>4. Littered' = Littered
  BY <1>3 DEF Littered
<1>5. ASSUME pc = "verify", Has(Path, Wanted) PROVE Has(Path, Wanted)'
  <2>1. Path # Idefix
    BY <1>5, WantedFacts DEF PcInv, Writing
  <2> QED
    BY <1>2, <1>3, <1>5, <2>1 DEF Has
<1>6. ASSUME NEW k \in DOMAIN Wanted, pc \in Looping, Has(ChunkPath(k), <<Wanted[k]>>)
      PROVE  Has(ChunkPath(k), <<Wanted[k]>>)'
  <2>1. ChunkPath(k) # Idefix
    BY <1>6, WantedFacts, OtherFiles DEF PcInv, Writing, Looping
  <2> QED
    BY <1>2, <1>3, <1>6, <2>1 DEF Has
<1>7. pc \in {"chunk", "write"} => 1 .. chunk - 1 \subseteq DOMAIN Wanted
  <2>1. pc \in {"chunk", "write"} => Now.op = "check" /\ chunk \in DOMAIN Wanted
    BY DEF PcInv, ChunkInv, Writing
  <2> QED
    BY <2>1, WantedFacts
<1>8. (pc \notin Looping => Littered = {}) /\ TidyLoop /\ (armed => pc = "done")
  BY TidyParts
<1>9. TidyLoop'
  BY <1>1, <1>2, <1>4, <1>5, <1>6, <1>7, <1>8 DEF TidyLoop, WholeChunks, Looping
<1> QED
  BY <1>1, <1>4, <1>8, <1>9 DEF Tidy, TidyLoop, Looping

LEMMA TidyStep ==
  ASSUME TypeOK, PcInv, ChunkInv, Tidy, [Next]_vars
  PROVE  Tidy'
<1>1. SUFFICES ASSUME faults' = 0
               PROVE  /\ armed' => pc' = "done"
                      /\ pc' \notin Looping => Littered' = {}
                      /\ TidyLoop'
  BY DEF Tidy, TidyLoop, Looping
<1>2. faults = 0 /\ ~Failure
  <2>1. faults \in Nat
    BY DEF TypeOK
  <2>2. ~Disturb
    BY <1>1, <2>1 DEF Disturb
  <2>3. ~Failure
    BY <2>2 DEF Failure, CallFails, ExitFails, UploadFails, CheckFails, SetTargetFails
  <2>4. faults' = faults
    BY <2>3 DEF Next, Step, Run, Info, Sha, Check, Create, Chunk, Write, Join, Verify, Clean, Copy, Exit,
       Exists, Upload, Confirm, SetTarget, Alive, Stay, Apply, Deploy, vars
  <2> QED
    BY <1>1, <2>3, <2>4
<1>3. (armed => pc = "done") /\ (pc \notin Looping => Littered = {})
  BY <1>2, TidyParts
<1>4. ASSUME Step PROVE armed' => pc' = "done"
  <2>1. pc # "done"
    BY <1>4 DEF Step, Run, Info, Sha, Check, Create, Chunk, Write, Join, Verify, Clean, Copy, Exit,
       Exists, Upload, Confirm, SetTarget, Alive
  <2>2. ~armed
    BY <1>3, <2>1
  <2>3. CASE Exit
    <3>1. pc = "exit" /\ NextTask
      BY <2>3 DEF Exit
    <3>2. Now.op = "exit"
      BY <3>1 DEF PcInv, Working, Writing
    <3>3. task = Len(Plan(command)) /\ task \in Nat
      BY <3>2, TaskFacts DEF PlanOK, Now
    <3> QED
      BY <3>1, <3>3 DEF NextTask
  <2>4. CASE ~Exit
    BY <1>4, <2>2, <2>4 DEF Step, Run, Info, Sha, Check, Create, Chunk, Write, Join, Verify, Clean,
       Copy, Exists, Upload, Confirm, SetTarget, Alive, Stay
  <2> QED
    BY <2>3, <2>4
<1>5. CASE Run
  <2>1. pc \notin Looping /\ UNCHANGED disk /\ pc' \in Ops
    BY <1>5, TaskFacts DEF Run, PlanOK, Fine, Looping
  <2>2. TidyLoop'
    BY <2>1 DEF TidyLoop, Ops
  <2> QED
    BY <1>3, <1>4, <1>5, <2>1, <2>2 DEF Littered, Step
<1>6. CASE Step /\ NextTask /\ ~Run
  <2>1. command' = command
    BY FlagsStep
  <2>2. pc' \in Ops \cup {"done"}
    BY <1>6, <2>1, TaskMoves
  <2>3. TidyLoop'
    BY <2>2 DEF TidyLoop, Ops
  <2>4. Littered' = {}
    BY <1>2, <1>6, TidyTask
  <2> QED
    BY <1>4, <1>6, <2>3, <2>4
<1>7. CASE Create
  BY <1>2, <1>4, <1>7, TidyStart DEF Step
<1>8. CASE Chunk \/ Write
  <2>1. pc' \in Looping
    BY <1>8 DEF Chunk, Write, NextChunk, Go, Looping
  <2> QED
    BY <1>2, <1>4, <1>8, <2>1, TidyChunks DEF Step
<1>9. CASE Join \/ ((Verify \/ Clean) /\ ~NextTask)
  BY <1>2, <1>4, <1>9, TidyEnd DEF Step
<1>10. CASE (Sha \/ Check \/ Exists \/ Confirm) /\ ~NextTask
  <2>1. pc \notin Looping /\ UNCHANGED disk /\ pc' \in {"refused", "create", "upload", "failed"}
    BY <1>10 DEF Sha, Check, Exists, Confirm, Go, Looping
  <2>2. TidyLoop'
    BY <2>1 DEF TidyLoop
  <2> QED
    BY <1>3, <1>4, <1>10, <2>1, <2>2 DEF Littered, Step
<1>11. CASE Apply
  <2>1. pc' = "done" /\ ~armed' /\ Littered = {}
    BY <1>3, <1>11 DEF Apply, Looping
  <2>2. Littered' = {}
    BY <1>11, <2>1, ApplyMoves DEF Updated, Littered
  <2>3. TidyLoop'
    BY <2>1 DEF TidyLoop
  <2> QED
    BY <2>1, <2>2, <2>3
<1>12. CASE Deploy \/ UNCHANGED vars
  <2>1. Tidy'
    BY <1>1, <1>2, <1>12, TidyRest
  <2> QED
    BY <1>1, <2>1 DEF Tidy, TidyLoop, Looping
<1> QED
  BY <1>2, <1>5, <1>6, <1>7, <1>8, <1>9, <1>10, <1>11, <1>12
  DEF Next, Step, Info, Copy, Exit, Upload, SetTarget, Alive

\* A command none of whose calls failed has removed every chunk it wrote (the last
\* loop of FileWrite, os.go).
THEOREM NoLitterHolds == Spec => []NoLitter
<1>1. Init => Tidy
  <2> SUFFICES ASSUME Init PROVE Tidy
    OBVIOUS
  <2>1. pc = "idle" /\ ~armed /\ DOMAIN disk = {Idefix}
    BY DEF Init
  <2> QED
    BY <2>1, OtherFiles DEF Tidy, Littered
<1>2. UInv /\ Tidy /\ [Next]_vars => Tidy'
  BY TidyStep DEF UInv
<1>3. UInv /\ Tidy => NoLitter
  <2> SUFFICES ASSUME UInv, Tidy, pc = "done", faults = 0, NEW f \in DOMAIN disk
               PROVE  f[2] = 0
    BY DEF NoLitter
  <2>1. f \in Files /\ f \notin ChunkFiles
    BY DEF UInv, TypeOK, Tidy, Littered
  <2> QED
    BY <2>1 DEF Files
<1> QED
  BY <1>1, <1>2, <1>3, Invariance, PTL DEF Spec

-----------------------------------------------------------------------------
(* How many calls an attempt makes at most.                                 *)

AtChunk == {"chunk", "write", "clean"}

\* The calls left of a task, at a place of it, with n chunks, at the k-th.
Calls(p, n, k) ==
  IF p = "check" THEN 3 * n + 4 ELSE
  IF p = "create" THEN 3 * n + 3 ELSE
  IF p = "chunk" THEN 2 * (n - k) + n + 4 ELSE
  IF p = "write" THEN 2 * (n - k) + n + 3 ELSE
  IF p = "join" THEN n + 2 ELSE
  IF p = "verify" THEN n + 1 ELSE
  IF p = "clean" THEN n - k + 1 ELSE
  IF p = "exists" THEN 2 ELSE 1

PerTask == 3 * Chunks + 4
Left(tasks, calls) == tasks * PerTask + calls

TasksLeft == Len(Plan(command)) - task
CallsLeft == Calls(pc, Len(Wanted), chunk)

\* The calls left of the attempt.
Work == IF pc \in Working THEN Left(TasksLeft, CallsLeft) ELSE 0
MostWork == Len(Plan(command)) * PerTask

LEMMA PerTaskNat == PerTask \in Nat \ {0} /\ Chunks \in Nat \ {0}
BY UpdatesAssumption DEF PerTask

LEMMA CallsRange ==
  ASSUME NEW p \in Working, NEW n, NEW k,
         p \in Writing \cup {"check"} => n \in 0 .. Chunks,
         p \in AtChunk => k \in 1 .. n
  PROVE  Calls(p, n, k) \in 1 .. PerTask
<1>1. CASE p \in AtChunk
  <2>1. n \in 0 .. Chunks /\ k \in 1 .. n
    BY <1>1 DEF Writing, AtChunk
  <2> QED BY <1>1, <2>1, PerTaskNat DEF Calls, AtChunk, PerTask
<1>2. CASE p \in {"check", "create", "join", "verify"}
  <2>1. n \in 0 .. Chunks
    BY <1>2 DEF Writing
  <2> QED BY <1>2, <2>1, PerTaskNat DEF Calls, PerTask
<1>3. CASE p \in Working \ (Writing \cup {"check"})
  <2>1. Calls(p, n, k) \in {1, 2}
    BY <1>3 DEF Calls, Writing, Working
  <2> QED BY <2>1, PerTaskNat DEF PerTask
<1> QED BY <1>1, <1>2, <1>3 DEF AtChunk, Writing, Working

LEMMA FewerTasks ==
  ASSUME NEW t \in Nat \ {0}, NEW v \in 1 .. PerTask, NEW w \in 1 .. PerTask
  PROVE  Left(t - 1, w) < Left(t, v)
<1>1. PICK m \in Nat : t = m + 1
  BY DEF Left
<1>2. PerTask \in Nat
  BY PerTaskNat
<1>3. (m + 1) * PerTask = m * PerTask + PerTask /\ m * PerTask \in Nat
  BY <1>2
<1>4. \A x, k \in Nat : \A a, b \in 1 .. k : x + b < (x + k) + a
  OBVIOUS
<1>5. m * PerTask + w < (m * PerTask + PerTask) + v
  BY <1>2, <1>3, <1>4
<1>6. t - 1 = m
  BY <1>1
<1> HIDE DEF PerTask
<1> QED BY <1>1, <1>3, <1>5, <1>6 DEF Left

LEMMA FewerCalls ==
  ASSUME NEW t \in Nat, NEW v \in 1 .. PerTask, NEW w \in 1 .. PerTask, w < v
  PROVE  Left(t, w) < Left(t, v)
<1>1. PerTask \in Nat
  BY PerTaskNat
<1>2. t * PerTask \in Nat
  BY <1>1
<1>3. \A x, k \in Nat : \A a, b \in 1 .. k : b < a => x + b < x + a
  OBVIOUS
<1> HIDE DEF PerTask
<1> QED BY <1>1, <1>2, <1>3 DEF Left

\* Of the plan and the place in it, what the steps below need.
LEMMA WorkFacts ==
  ASSUME UInv
  PROVE  /\ Len(Plan(command)) \in Nat \ {0} /\ task \in 1 .. Len(Plan(command)) /\ task \in Nat
         /\ TasksLeft \in Nat
         /\ pc \in Working => CallsLeft \in 1 .. PerTask
         /\ pc \in Writing \cup {"check"} => Len(Wanted) \in 0 .. Chunks
         /\ pc \in AtChunk => chunk \in 1 .. Len(Wanted)
         /\ Work \in 0 .. MostWork
<1>1. Len(Plan(command)) \in Nat \ {0} /\ task \in 1 .. Len(Plan(command)) /\ task \in Nat
  BY TaskFacts DEF UInv, PlanOK
<1>2. TasksLeft \in Nat /\ TasksLeft + 1 <= Len(Plan(command))
  BY <1>1 DEF TasksLeft
<1>3. pc \in Writing \cup {"check"} => Len(Wanted) \in 0 .. Chunks /\ DOMAIN Wanted = 1 .. Len(Wanted)
  <2>1. pc \in Writing \cup {"check"} => Now.op = "check"
    BY DEF UInv, PcInv, Writing, Working
  <2> QED BY <2>1, WantedFacts DEF UInv
<1>4. pc \in AtChunk => chunk \in 1 .. Len(Wanted)
  BY <1>3 DEF UInv, ChunkInv, AtChunk, Writing
<1>5. pc \in Working => CallsLeft \in 1 .. PerTask
  BY <1>3, <1>4, CallsRange DEF CallsLeft
<1>6. Work \in 0 .. MostWork
  <2> DEFINE L == Len(Plan(command))
  <2>1. PerTask \in Nat /\ L \in Nat
    BY <1>1, PerTaskNat
  <2>2. L * PerTask \in Nat
    BY <2>1
  <2>3. CASE pc \in Working
    <3> DEFINE t == TasksLeft
    <3>1. t \in Nat /\ CallsLeft \in 1 .. PerTask /\ t + 1 <= L
      BY <1>2, <1>5, <2>3
    <3> HIDE DEF t, L
    <3>2. PICK d \in Nat : L = (t + 1) + d
      BY <2>1, <3>1
    <3>3. L * PerTask = t * PerTask + PerTask + d * PerTask
      BY <2>1, <3>1, <3>2
    <3>4. t * PerTask \in Nat /\ d * PerTask \in Nat
      BY <2>1, <3>1
    <3>5. \A x, y, k \in Nat : \A w \in 1 .. k : x + w \in 0 .. x + k + y
      OBVIOUS
    <3>6. t * PerTask + CallsLeft \in 0 .. L * PerTask
      BY <2>1, <3>1, <3>3, <3>4, <3>5
    <3> QED BY <2>3, <3>6 DEF Work, Left, MostWork, t, L
  <2>4. CASE pc \notin Working
    BY <2>2, <2>4 DEF Work, MostWork
  <2> QED BY <2>3, <2>4
<1> QED BY <1>1, <1>2, <1>3, <1>4, <1>5, <1>6

WorkKnown == TasksLeft \in Nat /\ (pc \in Working => CallsLeft \in 1 .. PerTask)

LEMMA WorkKnownNow == UInv => WorkKnown
BY WorkFacts DEF WorkKnown

LEMMA WorkKnownAfter == UInv' => WorkKnown'
BY WorkKnownNow, PTL

\* A step to the next task.
LEMMA TaskWorks ==
  ASSUME UInv, UInv', NextTask, UNCHANGED command, pc \in Working
  PROVE  Work' < Work
<1>1. /\ TasksLeft \in Nat /\ CallsLeft \in 1 .. PerTask /\ Work = Left(TasksLeft, CallsLeft)
      /\ Len(Plan(command)) \in Nat \ {0} /\ task \in 1 .. Len(Plan(command)) /\ task \in Nat
  BY WorkFacts DEF Work
<1>2. PerTask \in Nat
  BY PerTaskNat
<1>3. CASE pc' = "done"
  <2>1. Work' = 0
    BY <1>3 DEF Work, Working
  <2>2. TasksLeft * PerTask \in Nat
    BY <1>1, <1>2
  <2>3. \A x, k \in Nat : \A w \in 1 .. k : 0 < x + w
    OBVIOUS
  <2>4. 0 < Left(TasksLeft, CallsLeft)
    BY <1>1, <1>2, <2>2, <2>3 DEF Left
  <2> QED BY <1>1, <2>1, <2>4
<1>4. CASE task' = task + 1 /\ pc' \in Ops
  <2>1. pc' \in Working
    BY <1>4 DEF Ops, Working
  <2>2. TasksLeft' \in Nat /\ CallsLeft' \in 1 .. PerTask
    BY <2>1, WorkKnownAfter DEF WorkKnown, PerTask
  <2>3. TasksLeft' = TasksLeft - 1
    BY <1>1, <1>4 DEF TasksLeft
  <2>4. TasksLeft \in Nat \ {0}
    BY <1>1, <2>2, <2>3
  <2>5. Work' = Left(TasksLeft', CallsLeft')
    BY <2>1 DEF Work, Left, PerTask
  <2>6. Left(TasksLeft - 1, CallsLeft') < Left(TasksLeft, CallsLeft)
    BY <1>1, <2>2, <2>4, FewerTasks
  <2> QED BY <1>1, <2>3, <2>5, <2>6
<1> QED BY <1>3, <1>4, TaskMoves DEF UInv

\* A step within a task, or one that ends the attempt.
LEMMA PlaceWorks ==
  ASSUME UInv, UInv', UNCHANGED <<command, task>>, pc \in Working,
         \/ pc' \in {"failed", "refused"}
         \/ pc' \in Working /\ Calls(pc', Len(Wanted), chunk') < CallsLeft
  PROVE  Work' < Work
<1>1. /\ TasksLeft \in Nat /\ CallsLeft \in 1 .. PerTask /\ Work = Left(TasksLeft, CallsLeft)
  BY WorkFacts DEF Work
<1>2. PerTask \in Nat
  BY PerTaskNat
<1>3. CASE pc' \in {"failed", "refused"}
  <2>1. Work' = 0
    BY <1>3 DEF Work, Working
  <2>2. TasksLeft * PerTask \in Nat
    BY <1>1, <1>2
  <2>3. \A x, k \in Nat : \A w \in 1 .. k : 0 < x + w
    OBVIOUS
  <2>4. 0 < Left(TasksLeft, CallsLeft)
    BY <1>1, <1>2, <2>2, <2>3 DEF Left
  <2> QED BY <1>1, <2>1, <2>4
<1>4. CASE pc' \in Working /\ Calls(pc', Len(Wanted), chunk') < CallsLeft
  <2>1. Wanted' = Wanted /\ TasksLeft' = TasksLeft
    BY DEF Wanted, Now, TasksLeft
  <2>2. CallsLeft' = Calls(pc', Len(Wanted), chunk')
    BY <2>1 DEF CallsLeft
  <2>3. CallsLeft' \in 1 .. PerTask
    BY <1>4, WorkKnownAfter DEF WorkKnown, PerTask
  <2>4. Work' = Left(TasksLeft, CallsLeft')
    BY <1>4, <2>1 DEF Work, Left, PerTask
  <2> QED BY <1>1, <1>4, <2>2, <2>3, <2>4, FewerCalls
<1> QED BY <1>3, <1>4

LEMMA CommandWorks ==
  ASSUME UInv, UInv', Step \/ Failure, pc \in Working
  PROVE  Work' < Work
<1> DEFINE n == Len(Wanted)
<1>1. UNCHANGED command
  BY FlagsStep DEF UInv, Next
<1>2. /\ pc \in Writing \cup {"check"} => n \in 0 .. Chunks /\ n \in Nat
      /\ pc \in AtChunk => chunk \in 1 .. n
      /\ pc \in Working \ AtChunk => chunk = 1
      /\ Chunks \in Nat
  BY WorkFacts, PerTaskNat DEF UInv, ChunkInv, AtChunk
<1>3. CASE NextTask
  BY <1>1, <1>3, TaskWorks
<1>4. CASE pc' \in {"failed", "refused"} /\ UNCHANGED task
  BY <1>1, <1>4, PlaceWorks
<1>5. ASSUME pc' \in Working, UNCHANGED task, Calls(pc', n, chunk') < CallsLeft
      PROVE  Work' < Work
  BY <1>1, <1>5, PlaceWorks
<1>6. CASE (Check \/ CheckFails) /\ ~NextTask
  <2>1. /\ \/ pc = "check" /\ pc' = "create"
           \/ pc = "chunk" /\ pc' = "write"
        /\ UNCHANGED <<task, chunk>>
    BY <1>6 DEF Check, CheckFails, Go
  <2>2. Calls(pc', n, chunk') < CallsLeft
    BY <1>2, <2>1 DEF Calls, CallsLeft, AtChunk, Writing
  <2> QED BY <1>5, <2>1, <2>2 DEF Working
<1>7. CASE Create
  <2>1. pc = "create" /\ UNCHANGED <<task, chunk>> /\ pc' = IF n = 0 THEN "join" ELSE "chunk"
    BY <1>7 DEF Create, Go, Stay
  <2>2. chunk = 1 /\ n \in Nat
    BY <1>2, <2>1 DEF AtChunk, Writing, Working
  <2>3. Calls(pc', n, chunk') < CallsLeft
    BY <2>1, <2>2 DEF Calls, CallsLeft
  <2> QED BY <1>5, <2>1, <2>3 DEF Working
<1>8. CASE Chunk \/ Write
  <2>1. /\ pc \in {"chunk", "write"} /\ UNCHANGED task /\ chunk \in 1 .. n /\ n \in Nat
        /\ \/ pc = "chunk" /\ pc' = "write" /\ chunk' = chunk
           \/ NextChunk("chunk", "join")
    BY <1>2, <1>8 DEF Chunk, Write, Go, Stay, AtChunk, Writing
  <2>2. CASE pc = "chunk" /\ pc' = "write" /\ chunk' = chunk
    <3>1. Calls(pc', n, chunk') < CallsLeft
      BY <2>1, <2>2 DEF Calls, CallsLeft
    <3> QED BY <1>5, <2>1, <2>2, <3>1 DEF Working
  <2>3. CASE NextChunk("chunk", "join")
    <3>1. \/ chunk < n /\ chunk' = chunk + 1 /\ pc' = "chunk"
          \/ chunk = n /\ chunk' = 1 /\ pc' = "join"
      BY <2>1, <2>3 DEF NextChunk
    <3>2. Calls(pc', n, chunk') < CallsLeft
      BY <2>1, <3>1 DEF Calls, CallsLeft
    <3> QED BY <1>5, <2>1, <3>1, <3>2 DEF Working
  <2> QED BY <2>1, <2>2, <2>3
<1>9. CASE Join
  <2>1. /\ pc = "join" /\ UNCHANGED <<task, chunk>> /\ pc' \in {"verify", "failed"}
        /\ n \in Nat
    BY <1>2, <1>9 DEF Join, Go, Stay, Writing
  <2>2. pc' = "verify" => Calls(pc', n, chunk') < CallsLeft
    BY <2>1 DEF Calls, CallsLeft
  <2> QED BY <1>4, <1>5, <2>1, <2>2 DEF Working
<1>10. CASE Verify /\ ~NextTask
  <2>1. /\ pc = "verify" /\ UNCHANGED <<task, chunk>> /\ pc' \in {"clean", "failed"}
        /\ n \in Nat /\ chunk = 1
    BY <1>2, <1>10 DEF Verify, Go, AtChunk, Writing, Working
  <2>2. pc' = "clean" => Calls(pc', n, chunk') < CallsLeft
    BY <2>1 DEF Calls, CallsLeft
  <2> QED BY <1>4, <1>5, <2>1, <2>2 DEF Working
<1>11. CASE Clean /\ ~NextTask
  <2>1. /\ pc = "clean" /\ pc' = pc /\ UNCHANGED task /\ chunk' = chunk + 1 /\ chunk < n
        /\ n \in Nat /\ chunk \in 1 .. n
    BY <1>2, <1>11 DEF Clean, AtChunk, Writing
  <2>2. Calls(pc', n, chunk') < CallsLeft
    BY <2>1 DEF Calls, CallsLeft
  <2> QED BY <1>5, <2>1, <2>2 DEF Working
<1>12. CASE (Sha \/ Exists \/ Confirm) /\ ~NextTask
  <2>1. /\ UNCHANGED <<task, chunk>>
        /\ (pc = "exists" /\ pc' = "upload") \/ pc' \in {"failed", "refused"}
    BY <1>12 DEF Sha, Exists, Confirm, Go
  <2>2. pc' = "upload" /\ pc = "exists" => Calls(pc', n, chunk') < CallsLeft
    BY DEF Calls, CallsLeft
  <2> QED BY <1>4, <1>5, <2>1, <2>2 DEF Working
<1>13. CASE CallFails \/ ExitFails \/ UploadFails
  BY <1>4, <1>13 DEF CallFails, ExitFails, UploadFails, Go
<1>14. CASE Info \/ Copy \/ Exit \/ Upload \/ SetTarget \/ Alive \/ SetTargetFails
  BY <1>3, <1>14 DEF Info, Copy, Exit, Upload, SetTarget, Alive, SetTargetFails
<1>15. ~Run
  BY DEF Run, Working
<1> QED
  BY <1>3, <1>6, <1>7, <1>8, <1>9, <1>10, <1>11, <1>12, <1>13, <1>14, <1>15 DEF Step, Failure

\* Calls, whatever comes of them, bring an attempt to its end; from there only the
\* operator goes on, and the device's own update takes nothing of it or adds to it.
Hastens ==
  /\ pc \in Working /\ (Step \/ Failure) => Work' < Work
  /\ pc \notin Working /\ (Step \/ Failure) => Run
  /\ Apply \/ Deploy => Work' = Work

\* An attempt makes a bounded number of calls: three for every chunk and four more
\* for each task of its plan, whatever fails, whatever an attempt before it left, and
\* whenever the device stops to update (the loops of FileWrite, os.go, and the
\* commands).  It ends done, refused or failed, and only a command that failed, or was
\* not run, runs again; this is the safety half of CommandEnds.
THEOREM AttemptsEnd == Spec => [](Work \in 0 .. MostWork) /\ [][Hastens]_vars
<1>1. UInv => Work \in 0 .. MostWork
  BY WorkFacts
<1>2. UInv /\ UInv' /\ [Next]_vars => [Hastens]_vars
  <2> SUFFICES ASSUME UInv, UInv', Next PROVE Hastens
    OBVIOUS
  <2>1. pc \in Working /\ (Step \/ Failure) => Work' < Work
    BY CommandWorks
  <2>2. pc \notin Working /\ (Step \/ Failure) => Run
    BY DEF Working, Step, Failure, Info, Sha, Check, Create, Chunk, Write, Join, Verify, Clean,
           Copy, Exit, Exists, Upload, Confirm, SetTarget, Alive,
           CallFails, ExitFails, UploadFails, CheckFails, SetTargetFails
  <2>3. Apply \/ Deploy => Work' = Work
    BY DEF Apply, Deploy, Work, Left, PerTask, TasksLeft, CallsLeft, Wanted, Now
  <2> QED BY <2>1, <2>2, <2>3 DEF Hastens
<1> QED BY <1>1, <1>2, Invariance, PTL DEF Spec
=============================================================================
