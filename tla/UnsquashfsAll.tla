--------------------------- MODULE UnsquashfsAll ---------------------------
(***************************************************************************)
(* unsquashfs_all.sh tries one unsquashfs after the other on the same      *)
(* directory and keeps the first result that looks right. Each runs in the *)
(* background; wait_for_complete is to wait for it, for TIMEOUT seconds at *)
(* most, and asks pgrep whether it still runs. pgrep compares with the     *)
(* name of a process, and is given a path: it never finds one. So a tool   *)
(* has one second, is looked at wherever it has got to, and is not killed. *)
(***************************************************************************)
EXTENDS Integers

CONSTANT N    \* tools whose directory names the version of the image

ASSUME UnsquashfsAssumption == N \in Nat \ {0}

VARIABLES
    skill,      \* what each tool can do with the image
    hasShell,   \* the image holds a bin/sh
    pc, k,      \* the script, and the tool it is at
    MKFS,       \* the tool it reports, 0 for none
    tool,       \* tool -> how far its process is
    exists,     \* DIR
    file,       \* the files in it: size, and the tool that wrote it
    late        \* a tool still ran when its result was looked at

vars == <<skill, hasShell, pc, k, MKFS, tool, exists, file, late>>

Tools  == 1..N
Skills == {"refuses", "hollow", "whole"}
Files  == {"shell", "other"}
Image  == IF hasShell THEN Files ELSE {"other"}
Absent == [size |-> "absent", by |-> 0]
Idle   == [at |-> "idle", todo |-> {}]

Init ==
    /\ skill \in [Tools -> Skills] /\ hasShell \in BOOLEAN
    /\ pc = "try" /\ k = 1 /\ MKFS = 0
    /\ tool = [t \in Tools |-> Idle]
    /\ exists = FALSE /\ file = [f \in Files |-> Absent]
    /\ late = FALSE

-----------------------------------------------------------------------------
(* An unsquashfs process. It makes DIR, and gives up when there is one. A  *)
(* tool that cannot decompress leaves files of size zero; so does, for a   *)
(* moment, one that can. Below a DIR that was removed nothing is written.  *)

Running(t) == tool[t].at \in {"started", "writing"}

MakeDir(t) ==
    /\ tool[t].at = "started"
    /\ IF skill[t] = "refuses" \/ exists
       THEN tool' = [tool EXCEPT ![t] = Idle] /\ UNCHANGED exists
       ELSE /\ tool' = [tool EXCEPT ![t] = [at |-> "writing", todo |-> Image]]
            /\ exists' = TRUE
    /\ UNCHANGED <<skill, hasShell, pc, k, MKFS, file, late>>

WriteFile(t) ==
    /\ tool[t].at = "writing"
    /\ \E f \in tool[t].todo :
         \/ /\ exists /\ file[f].size = "absent"
            /\ file' = [file EXCEPT ![f] = [size |-> "zero", by |-> t]]
            /\ tool' = IF skill[t] = "whole" THEN tool
                       ELSE [tool EXCEPT ![t].todo = @ \ {f}]
         \/ /\ exists /\ file[f].size # "absent"
            /\ file' = IF skill[t] = "whole"
                       THEN [file EXCEPT ![f] = [size |-> "full", by |-> t]]
                       ELSE file
            /\ tool' = [tool EXCEPT ![t].todo = @ \ {f}]
         \/ /\ ~exists
            /\ tool' = [tool EXCEPT ![t].todo = @ \ {f}]
            /\ UNCHANGED file
    /\ UNCHANGED <<skill, hasShell, pc, k, MKFS, exists, late>>

Ends(t) ==
    /\ tool[t] = [at |-> "writing", todo |-> {}]
    /\ tool' = [tool EXCEPT ![t] = Idle]
    /\ UNCHANGED <<skill, hasShell, pc, k, MKFS, exists, file, late>>

-----------------------------------------------------------------------------
(* The script.                                                             *)

Start ==
    /\ pc = "try" /\ pc' = "wait"
    /\ tool' = [tool EXCEPT ![k].at = "started"]
    /\ UNCHANGED <<skill, hasShell, k, MKFS, exists, file, late>>

(* The processes whose name, of fifteen characters at most, contains a     *)
(* path: none. The other ways out of the loop are never taken.             *)
Pgrep(t) == {}

WaitForComplete ==
    /\ pc = "wait" /\ Pgrep(k) = {} /\ pc' = "ls"
    /\ late' = (late \/ \E t \in Tools : Running(t))
    /\ UNCHANGED <<skill, hasShell, k, MKFS, tool, exists, file>>

Listed == exists /\ \E f \in Files : file[f].size # "absent"

Ls ==
    /\ pc = "ls"
    /\ pc' = CASE Listed  -> "sh"
               [] ~exists -> "next"
               [] OTHER   -> "remove"
    /\ UNCHANGED <<skill, hasShell, k, MKFS, tool, exists, file, late>>

(* A shell of size zero is refused, a missing one is not.                  *)
ShellPasses_Any == TRUE
ShellPasses_Swapped == file["shell"].size \in {"zero", "absent"}
ShellPasses == file["shell"].size # "zero"

Look ==
    /\ pc = "sh"
    /\ IF ShellPasses
       THEN pc' = "ok" /\ MKFS' = k
       ELSE pc' = "remove" /\ UNCHANGED MKFS
    /\ UNCHANGED <<skill, hasShell, k, tool, exists, file, late>>

Remove_Not ==
    /\ pc = "remove" /\ pc' = "next"
    /\ UNCHANGED <<skill, hasShell, k, MKFS, tool, exists, file, late>>
Remove ==
    /\ pc = "remove" /\ pc' = "next"
    /\ exists' = FALSE /\ file' = [f \in Files |-> Absent]
    /\ UNCHANGED <<skill, hasShell, k, MKFS, tool, late>>

Last_TooFar == k > N
Last == k = N

NextTool ==
    /\ pc = "next"
    /\ IF Last THEN pc' = "failed" /\ UNCHANGED k
                ELSE pc' = "try" /\ k' = k + 1
    /\ UNCHANGED <<skill, hasShell, MKFS, tool, exists, file, late>>

Script == Start \/ WaitForComplete \/ Ls \/ Look \/ Remove \/ NextTool
Process(t) == MakeDir(t) \/ WriteFile(t) \/ Ends(t)

Next == Script \/ \E t \in Tools : Process(t)

Spec == Init /\ [][Next]_vars

-----------------------------------------------------------------------------
(* Properties.                                                             *)

(* Every variable holds a value of its kind.                               *)
TypeOK ==
    /\ skill \in [Tools -> Skills] /\ hasShell \in BOOLEAN
    /\ pc \in {"try", "wait", "ls", "sh", "remove", "next", "ok", "failed"}
    /\ k \in Tools /\ MKFS \in 0..N
    /\ tool \in [Tools -> [at : {"idle", "started", "writing"}, todo : SUBSET Files]]
    /\ exists \in BOOLEAN /\ late \in BOOLEAN
    /\ file \in [Files -> [size : {"absent", "zero", "full"}, by : 0..N]]

(* The tool whose mksquashfs the build will use is the one that wrote what *)
(* is in DIR, and the shell is not empty, when every tool had ended by the *)
(* time it was looked at.                                                  *)
RightTool ==
    pc = "ok" /\ ~late =>
        /\ \A f \in Image : file[f].by = MKFS
        /\ hasShell => file["shell"].size = "full"

(* No earlier tool could have extracted the image, with the same proviso.  *)
FirstOnTime == pc = "ok" /\ ~late => \A t \in 1..(MKFS - 1) : skill[t] # "whole"

(* A failed extraction leaves no directory behind, with the same proviso:  *)
(* a tool that was late makes DIR again after it was removed.              *)
NothingLeft == pc = "failed" /\ ~late => ~exists

-----------------------------------------------------------------------------
(* What the script says of itself, and the code does not keep.             *)

(* "we want *first* supporting version" (unsquashfs_all.sh:14): no earlier *)
(* tool could have extracted the image.                                    *)
FirstSupporting == pc = "ok" => \A t \in 1..(MKFS - 1) : skill[t] # "whole"
=============================================================================
