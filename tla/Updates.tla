------------------------------- MODULE Updates -------------------------------
(***************************************************************************)
(* An operator updates a device: the commands "update send file|patch|     *)
(* cloud" and "move-gsr2 int" of tools/idefix, with the chunked FileWrite  *)
(* of os.go below them.  A command is a plan of tasks, one remote call     *)
(* after the other; a failing call ends it and the operator runs it again. *)
(* A call that fails may have had its effect, none, or half of it.  The    *)
(* device, which stops to update some time after it was asked to, and the  *)
(* release manager are external.                                           *)
(***************************************************************************)
EXTENDS Naturals, Sequences

CONSTANTS
  Kinds,      \* the commands: subset of {"file", "patch", "cloud", "int"}
  Chunks,     \* chunks of the upgrade file
  MaxFaults   \* bound on failing calls

ASSUME UpdatesAssumption ==
  /\ Kinds \subseteq {"file", "patch", "cloud", "int"}
  /\ Chunks \in Nat \ {0} /\ MaxFaults \in Nat

\* A content is the sequence of its chunks; different contents differ in their
\* hash.  A chunk is kept under the hash of the whole content and its offset.
Contents == {"old", "other", "upgrade", "env", "hashes", "patch", "unpatch", "back",
             "int", "empty"}
Size(name) == IF name = "upgrade" THEN Chunks ELSE IF name = "empty" THEN 0 ELSE 1
Data(name) == [k \in 1 .. Size(name) |-> <<name, k>>]
ChunkFiles == Contents \X (1 .. Chunks)

Names == {"idefix", "upgrade.env", "upgrade.bin", "upgrade.patch", "rollback.env",
          "rollback.bin", "rollback.patch", "int.json"}
File(name) == <<name, 0>>
Idefix == File("idefix")
Files == (Names \X {0}) \cup ChunkFiles

\* What a file may hold; of what is none of the contents only the hash matters.
Broken == <<Idefix>>
Stored == {Data(n) : n \in Contents} \cup {<<c>> : c \in ChunkFiles} \cup {<<>>, Broken}

VARIABLES
  command,   \* the command of the operator: its kind and its kind of rollback
  disk,      \* the files of the device
  armed,     \* the device counts down to its stop for the update
  unsure,    \* a call failed while it did
  pc,        \* where the command is
  task,      \* the task of the plan it is at
  chunk,     \* the chunk of FileWrite it is at
  released,  \* the release manager has the upgrade
  target,    \* the environment of the device asks for the upgrade
  faults     \* number of calls that failed

vars == <<command, disk, armed, unsure, pc, task, chunk, released, target, faults>>
manager == <<released, target>>

Command == [kind : Kinds \cap {"cloud", "int"}, rollback : {"none"}] \cup
           [kind : Kinds \cap {"file"}, rollback : {"none", "bin"}] \cup
           [kind : Kinds \cap {"patch"}, rollback : {"none", "bin", "patch"}]

-----------------------------------------------------------------------------
Send(name, data) == [op |-> "check", path |-> File(name), data |-> Data(data)]
Ask(op) == [op |-> op, path |-> Idefix, data |-> <<>>]

\* The environment file of the upgrade names the hashes of a patch; that of a
\* rollback to a full binary has nothing to say.
FilePlan(rollback) ==
  IF rollback = "none"
  THEN <<Ask("info"), Send("upgrade.env", "env"), Send("upgrade.bin", "upgrade"), Ask("exit")>>
  ELSE <<Ask("info"), Send("upgrade.env", "env"), Send("upgrade.bin", "upgrade"),
         Send("rollback.env", "empty"), Ask("copy"), Ask("exit")>>

PatchPlan(rollback) ==
  IF rollback = "none"
  THEN <<Ask("info"), Ask("sha"), Send("upgrade.env", "hashes"), Send("upgrade.patch", "patch"),
         Ask("exit")>>
  ELSE <<Ask("info"), Ask("sha"), Send("upgrade.env", "hashes"), Send("upgrade.patch", "patch"),
         Send("rollback.env", "back"),
         IF rollback = "bin" THEN Ask("copy") ELSE Send("rollback.patch", "unpatch"),
         Ask("exit")>>

CloudPlan == <<Ask("exists"), Ask("confirm"), Ask("set"), Ask("alive")>>
IntPlan == <<Send("int.json", "int"), Ask("exit")>>

Plan(c) ==
  IF c.kind = "file" THEN FilePlan(c.rollback)
  ELSE IF c.kind = "patch" THEN PatchPlan(c.rollback)
  ELSE IF c.kind = "cloud" THEN CloudPlan ELSE IntPlan

TypeOK ==
  /\ command \in Command /\ armed \in BOOLEAN /\ unsure \in BOOLEAN
  /\ Idefix \in DOMAIN disk /\ DOMAIN disk \subseteq Files
  /\ \A f \in DOMAIN disk : disk[f] \in Stored
  /\ pc \in {"idle", "info", "sha", "check", "create", "chunk", "write", "join", "verify",
             "clean", "copy", "exit", "exists", "upload", "confirm", "set", "alive",
             "failed", "refused", "done"}
  /\ task \in 1 .. Len(Plan(command)) /\ chunk \in 1 .. Chunks
  /\ released \in BOOLEAN /\ target \in BOOLEAN /\ faults \in 0 .. MaxFaults

Init ==
  /\ command \in Command
  /\ \E b \in {"old", "other"} : disk = [f \in {Idefix} |-> Data(b)]
  /\ armed = FALSE /\ unsure = FALSE
  /\ pc = "idle" /\ task = 1 /\ chunk = 1
  /\ released \in BOOLEAN /\ target = FALSE /\ faults = 0

-----------------------------------------------------------------------------
Now == Plan(command)[task]
Path == Now.path
Wanted == Now.data

Has(path, content) == path \in DOMAIN disk /\ disk[path] = content
Put(path, content) ==
  [f \in DOMAIN disk \cup {path} |-> IF f = path THEN content ELSE disk[f]]
Drop(path) == [f \in DOMAIN disk \ {path} |-> disk[f]]

\* The chunks of a content, by hash and offset.
ChunkPath(k) == Wanted[k]
ChunkPaths == {ChunkPath(k) : k \in DOMAIN Wanted}
\* What "cat chunks > path" leaves: the content, if its chunks are there and whole.
Joined ==
  IF \A k \in DOMAIN Wanted : Has(ChunkPath(k), <<Wanted[k]>>) THEN Wanted ELSE Broken

NextTask ==
  /\ chunk' = 1
  /\ IF task < Len(Plan(command))
     THEN task' = task + 1 /\ pc' = Plan(command)[task + 1].op
     ELSE UNCHANGED task /\ pc' = "done"

\* The loop of FileWrite goes on with the next chunk, or to its next part.
NextChunk(here, after) ==
  IF chunk < Len(Wanted) THEN chunk' = chunk + 1 /\ pc' = here
  ELSE chunk' = 1 /\ pc' = after

Go(p) == pc' = p /\ UNCHANGED chunk
Stay == UNCHANGED <<command, armed, unsure, task, released, target, faults>>

\* The operator runs the command, and runs it again when it failed.
Run ==
  /\ pc \in {"idle", "failed"}
  /\ task' = 1 /\ chunk' = 1 /\ pc' = Plan(command)[1].op
  /\ UNCHANGED <<command, disk, armed, unsure, released, target, faults>>

\* sys.cmd.info and the free space, which are only shown.
Info ==
  /\ pc = "info" /\ NextTask
  /\ UNCHANGED <<command, disk, armed, unsure, manager, faults>>

\* A patch is refused on a device that runs something else than its source.
Sha ==
  /\ pc = "sha"
  /\ IF Has(Idefix, Data("old")) THEN NextTask ELSE pc' = "refused" /\ UNCHANGED <<task, chunk>>
  /\ UNCHANGED <<command, disk, armed, unsure, manager, faults>>

-----------------------------------------------------------------------------
\* FileWrite.  Mutant: the file is written again although it is there.
CheckWritesAgain == pc = "check" /\ Go("create") /\ UNCHANGED disk /\ Stay

Check ==
  /\ pc = "check"
  /\ IF Has(Path, Wanted) THEN NextTask ELSE Go("create") /\ UNCHANGED task
  /\ UNCHANGED <<command, disk, armed, unsure, manager, faults>>

\* The file is made empty, for its mode.
Create ==
  /\ pc = "create" /\ disk' = Put(Path, <<>>)
  /\ Go(IF Len(Wanted) = 0 THEN "join" ELSE "chunk") /\ Stay

\* Mutant: a chunk that is there is good.
ChunkSkips ==
  /\ pc = "chunk" /\ UNCHANGED disk /\ Stay
  /\ IF ChunkPath(chunk) \in DOMAIN disk THEN NextChunk("chunk", "join") ELSE Go("write")

Chunk ==
  /\ pc = "chunk" /\ UNCHANGED disk /\ Stay
  /\ IF Has(ChunkPath(chunk), <<Wanted[chunk]>>)
     THEN NextChunk("chunk", "join") ELSE Go("write")

Write ==
  /\ pc = "write" /\ disk' = Put(ChunkPath(chunk), <<Wanted[chunk]>>)
  /\ NextChunk("chunk", "join") /\ Stay

\* cat fails when a chunk is gone, and has written the others.
Join ==
  /\ pc = "join" /\ disk' = Put(Path, Joined)
  /\ Go(IF ChunkPaths \subseteq DOMAIN disk THEN "verify" ELSE "failed") /\ Stay

Verify ==
  /\ pc = "verify"
  /\ \/ Has(Path, Wanted) /\ Len(Wanted) = 0 /\ NextTask
     \/ Has(Path, Wanted) /\ Len(Wanted) > 0 /\ Go("clean") /\ UNCHANGED task
     \/ ~Has(Path, Wanted) /\ Go("failed") /\ UNCHANGED task
  /\ UNCHANGED <<command, disk, armed, unsure, manager, faults>>

\* Mutant: the last chunk is forgotten.
CleanForgets ==
  /\ pc = "clean"
  /\ disk' = IF chunk < Len(Wanted) THEN Drop(ChunkPath(chunk)) ELSE disk
  /\ IF chunk < Len(Wanted) THEN chunk' = chunk + 1 /\ UNCHANGED <<pc, task>> ELSE NextTask
  /\ UNCHANGED <<command, armed, unsure, manager, faults>>

Clean ==
  /\ pc = "clean" /\ disk' = Drop(ChunkPath(chunk))
  /\ IF chunk < Len(Wanted) THEN chunk' = chunk + 1 /\ UNCHANGED <<pc, task>> ELSE NextTask
  /\ UNCHANGED <<command, armed, unsure, manager, faults>>

-----------------------------------------------------------------------------
\* The rollback to a full binary is a copy of what runs now.
Copy ==
  /\ pc = "copy" /\ disk' = Put(File("rollback.bin"), disk[Idefix]) /\ NextTask
  /\ UNCHANGED <<command, armed, unsure, manager, faults>>

\* updater.cmd.update, or sys.cmd.exit of move-gsr2.
Exit ==
  /\ pc = "exit" /\ armed' = TRUE /\ unsure' = (unsure /\ armed) /\ NextTask
  /\ UNCHANGED <<command, disk, manager, faults>>

\* release.exists, once before and once after the upload that may be needed.
Exists ==
  /\ pc = "exists"
  /\ IF released THEN NextTask ELSE Go("upload") /\ UNCHANGED task
  /\ UNCHANGED <<command, disk, armed, unsure, manager, faults>>
Upload ==
  /\ pc = "upload" /\ released' = TRUE /\ NextTask
  /\ UNCHANGED <<command, disk, armed, unsure, target, faults>>
Confirm ==
  /\ pc = "confirm"
  /\ IF released THEN NextTask ELSE Go("failed") /\ UNCHANGED task
  /\ UNCHANGED <<command, disk, armed, unsure, manager, faults>>

SetTarget ==
  /\ pc = "set" /\ target' = TRUE /\ NextTask
  /\ UNCHANGED <<command, disk, armed, unsure, released, faults>>
Alive ==
  /\ pc = "alive" /\ NextTask
  /\ UNCHANGED <<command, disk, armed, unsure, manager, faults>>

-----------------------------------------------------------------------------
\* A call fails: before its effect, after it, or, of a write, in the middle.
Disturb ==
  /\ faults < MaxFaults /\ faults' = faults + 1
  /\ unsure' = (unsure \/ armed) /\ UNCHANGED command

\* What such a call may leave.
Half ==
  \/ UNCHANGED disk
  \/ pc = "create" /\ disk' = Put(Path, <<>>)
  \/ pc = "write" /\ \E data \in {<<>>, <<Wanted[chunk]>>} : disk' = Put(ChunkPath(chunk), data)
  \/ pc = "join" /\ \E data \in {<<>>, Joined} : disk' = Put(Path, data)
  \/ pc = "clean" /\ disk' = Drop(ChunkPath(chunk))
  \/ pc = "copy" /\ \E data \in {<<>>, disk[Idefix]} : disk' = Put(File("rollback.bin"), data)

CallFails ==
  /\ pc \in {"info", "sha", "create", "write", "join", "verify", "clean", "copy",
             "exists", "confirm", "alive"}
  /\ Disturb /\ Half /\ Go("failed")
  /\ UNCHANGED <<armed, task, manager>>
ExitFails ==
  /\ pc = "exit" /\ Disturb /\ armed' \in {armed, TRUE} /\ Go("failed")
  /\ UNCHANGED <<disk, task, manager>>
UploadFails ==
  /\ pc = "upload" /\ Disturb /\ released' \in BOOLEAN /\ Go("failed")
  /\ UNCHANGED <<disk, armed, task, target>>

\* A failing hash query counts as a file that has to be written.
CheckFails ==
  /\ pc \in {"check", "chunk"} /\ Disturb
  /\ Go(IF pc = "check" THEN "create" ELSE "write")
  /\ UNCHANGED <<disk, armed, task, manager>>

\* The errors of AddressEnvironmentSet are not looked at.
SetTargetFails ==
  /\ pc = "set" /\ Disturb /\ target' \in {target, TRUE} /\ NextTask
  /\ UNCHANGED <<disk, armed, released>>

-----------------------------------------------------------------------------
UpgradeFile == File(IF command.kind = "patch" THEN "upgrade.patch" ELSE "upgrade.bin")

\* What the device runs after it looked at the upgrade file: a full binary as it
\* is, a patch if it is whole and for what runs now.
Upgraded ==
  IF command.kind # "patch" /\ UpgradeFile \in DOMAIN disk THEN disk[UpgradeFile]
  ELSE IF Has(UpgradeFile, Data("patch")) /\ Has(Idefix, Data("old")) THEN Data("upgrade")
  ELSE disk[Idefix]

\* The device stops, updates and starts.  It may keep /tmp, and the upgrade files
\* too; it keeps them if they did not lead to the upgrade.
Apply ==
  /\ armed /\ armed' = FALSE
  /\ \E used \in {{}, {UpgradeFile, File("upgrade.env")}}, tmp \in {{}, ChunkFiles} :
       /\ used # {} => Upgraded = Data("upgrade")
       /\ disk' = [f \in DOMAIN disk \ (used \cup tmp) |->
                    IF f = Idefix THEN Upgraded ELSE disk[f]]
  /\ unsure' = FALSE
  /\ UNCHANGED <<command, pc, task, chunk, manager, faults>>

\* The release manager has the device updated.
Deploy ==
  /\ released /\ target /\ disk[Idefix] # Data("upgrade")
  /\ disk' = Put(Idefix, Data("upgrade"))
  /\ UNCHANGED <<command, armed, unsure, pc, task, chunk, manager, faults>>

Step ==
  \/ Run \/ Info \/ Sha \/ Check \/ Create \/ Chunk \/ Write \/ Join \/ Verify \/ Clean
  \/ Copy \/ Exit \/ Exists \/ Upload \/ Confirm \/ SetTarget \/ Alive
Failure ==
  CallFails \/ ExitFails \/ UploadFails \/ CheckFails \/ SetTargetFails

Next == Step \/ Failure \/ Apply \/ Deploy

Spec == Init /\ [][Next]_vars
\* The operator goes on until the command succeeds, and the device stops when it
\* was asked to.
FairSpec == Spec /\ WF_vars(Step) /\ WF_vars(Apply) /\ WF_vars(Deploy)

-----------------------------------------------------------------------------
Whole(name, data) == Has(File(name), Data(data))

\* A device that counts down to its update has the whole upgrade and its
\* environment, or has been updated already, although the command is run again
\* meanwhile, over what an attempt before it left.  Unless a call fails in this
\* very time: then the retry may have made a file empty under the device.  Of a
\* rollback it has the whole patch, or a copy of the binary that the device made
\* and the command does not look at.
Upgradable(file, data, env) ==
  \/ Whole(file, data) /\ Whole("upgrade.env", env)
  \/ Has(Idefix, Data("upgrade"))

Equipped ==
  armed /\ ~unsure =>
    /\ command.kind # "cloud"
    /\ command.kind = "int" => Whole("int.json", "int")
    /\ command.kind = "file" => Upgradable("upgrade.bin", "upgrade", "env")
    /\ command.kind = "patch" => Upgradable("upgrade.patch", "patch", "hashes")
    /\ command.rollback # "none" =>
         Whole("rollback.env", IF command.kind = "file" THEN "empty" ELSE "back")
    /\ command.rollback = "bin" => File("rollback.bin") \in DOMAIN disk
    /\ command.rollback = "patch" => Whole("rollback.patch", "unpatch")

\* A patch is refused only by a device that does not run its source.
RefusedRightly == pc = "refused" => ~Has(Idefix, Data("old"))

\* A device is neither left without its update nor kept from it.
SafeUpdate == TypeOK /\ Equipped /\ RefusedRightly

\* A command none of whose calls failed leaves no chunk behind.
NoLitter == pc = "done" /\ faults = 0 => \A f \in DOMAIN disk : f[2] = 0

\* The update arrives, after whatever failures and with whatever they left on the
\* device, or the patch is refused; a cloud update may be lost with its answer.
UpdateArrives == <>(\/ Has(Idefix, Data("upgrade")) \/ pc = "refused"
                    \/ command.kind = "int" /\ Whole("int.json", "int")
                    \/ command.kind = "cloud" /\ faults > 0)

\* In the end no command is under way.
CommandEnds == <>[](pc \in {"done", "refused"})
\* So retrying is all an operator has to do.
RetriesSuffice == UpdateArrives /\ CommandEnds
=============================================================================
