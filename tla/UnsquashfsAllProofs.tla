------------------------- MODULE UnsquashfsAllProofs -------------------------
(***************************************************************************)
(* What unsquashfs_all.sh keeps for any number of tools as long as every   *)
(* tool has ended by the time its result is looked at. Nothing can be said *)
(* of a run in which one has not: the condition is ~late.                  *)
(***************************************************************************)
EXTENDS UnsquashfsAll, TLAPS

NoDir   == ~exists /\ \A f \in Files : file[f] = Absent
Made(t) == [size |-> IF skill[t] = "whole" THEN "full" ELSE "zero", by |-> t]

(* What the tool at hand has written, except for the files still to do.    *)
Wrote(todo) ==
    /\ exists /\ skill[k] # "refuses"
    /\ \A f \in Image : IF f \in todo
                        THEN file[f] \in {Absent, [size |-> "zero", by |-> k]}
                        ELSE file[f] = Made(k)
    /\ \A f \in Files \ Image : file[f] = Absent

Done == IF skill[k] = "refuses" THEN NoDir ELSE Wrote({})

AlreadyTried == \A t \in Tools : t < k => skill[t] # "whole"
OneAtATime   == \A t \in Tools : Running(t) => pc = "wait" /\ t = k

Waiting ==
    /\ tool[k].at = "started" => NoDir
    /\ tool[k].at = "writing" => Wrote(tool[k].todo) /\ tool[k].todo \subseteq Image
    /\ tool[k].at = "idle"    => Done

OnTime ==
    /\ AlreadyTried /\ OneAtATime
    /\ pc \in {"try", "next", "failed"} => NoDir
    /\ pc = "wait" => Waiting
    /\ pc \in {"ls", "sh", "remove", "ok"} => Done
    /\ pc \in {"sh", "ok"} => exists
    /\ pc \in {"remove", "next", "failed"} => skill[k] # "whole"
    /\ pc = "ok" => MKFS = k /\ ShellPasses

UnsqInv == TypeOK /\ (~exists => NoDir) /\ (~late => OnTime)

-----------------------------------------------------------------------------
LEMMA InitUnsqInv == Init => UnsqInv
<1> SUFFICES ASSUME Init  PROVE UnsqInv
    OBVIOUS
<1>1. N \in Nat /\ 1 \in Tools /\ 0 \in 0..N  BY UnsquashfsAssumption DEF Tools
<1>2. TypeOK
    BY <1>1 DEF Init, TypeOK, Idle, Absent
<1>3. NoDir  BY DEF Init, NoDir
<1>4. AlreadyTried  BY <1>1 DEF Init, AlreadyTried, Tools
<1>5. OneAtATime  BY DEF Init, OneAtATime, Running, Idle
<1> QED  BY <1>2, <1>3, <1>4, <1>5 DEF Init, UnsqInv, OnTime

(* A process takes no step once the script has gone on without it in time. *)
LEMMA OnlyTheToolAtHand ==
    ASSUME TypeOK, ~late, OnTime, NEW t \in Tools, Running(t)
    PROVE  t = k /\ pc = "wait" /\ Waiting
BY DEF OnTime, OneAtATime

LEMMA TypeStep ==
    ASSUME TypeOK, [Next]_vars
    PROVE  TypeOK'
<1>0. N \in Nat /\ k \in 1..N /\ MKFS \in 0..N  BY UnsquashfsAssumption DEF TypeOK, Tools
<1>1. CASE Start
    BY <1>1 DEF Start, TypeOK
<1>2. CASE WaitForComplete
    BY <1>2 DEF WaitForComplete, TypeOK
<1>3. CASE Ls
    BY <1>3 DEF Ls, TypeOK
<1>4. CASE Look
    BY <1>4, <1>0 DEF Look, TypeOK
<1>5. CASE Remove
    <2>1. Absent \in [size : {"absent", "zero", "full"}, by : 0..N]
        BY <1>0 DEF Absent
    <2>2. file' = [f \in Files |-> Absent]  BY <1>5 DEF Remove
    <2>3. file' \in [Files -> [size : {"absent", "zero", "full"}, by : 0..N]]
        BY <2>1, <2>2
    <2> QED  BY <1>5, <2>3 DEF Remove, TypeOK
<1>6. CASE NextTool
    BY <1>6, <1>0 DEF NextTool, TypeOK, Last, Tools
<1>7. ASSUME NEW t \in Tools, MakeDir(t)  PROVE TypeOK'
    <2>1. Idle \in [at : {"idle", "started", "writing"}, todo : SUBSET Files]
          /\ [at |-> "writing", todo |-> Image]
               \in [at : {"idle", "started", "writing"}, todo : SUBSET Files]
        BY DEF Idle, Image, Files
    <2>2. PICK p \in [at : {"idle", "started", "writing"}, todo : SUBSET Files] :
            tool' = [tool EXCEPT ![t] = p]
        BY <1>7, <2>1 DEF MakeDir
    <2>3. tool' \in [Tools -> [at : {"idle", "started", "writing"}, todo : SUBSET Files]]
        BY <2>2 DEF TypeOK
    <2>4. exists' \in BOOLEAN  BY <1>7 DEF MakeDir, TypeOK
    <2> QED  BY <1>7, <2>3, <2>4 DEF MakeDir, TypeOK
<1>8. ASSUME NEW t \in Tools, WriteFile(t)  PROVE TypeOK'
    <2>1. UNCHANGED <<skill, hasShell, pc, k, MKFS, exists, late>>  BY <1>8 DEF WriteFile
    <2>2. t \in 0..N  BY <1>0 DEF Tools
    <2>3. PICK f \in tool[t].todo :
            /\ tool' = tool \/ tool' = [tool EXCEPT ![t].todo = @ \ {f}]
            /\ \/ file' = file
               \/ file' = [file EXCEPT ![f] = [size |-> "zero", by |-> t]]
               \/ file' = [file EXCEPT ![f] = [size |-> "full", by |-> t]]
        BY <1>8 DEF WriteFile
    <2>4. f \in Files  BY <2>3 DEF TypeOK
    <2>5. tool' \in [Tools -> [at : {"idle", "started", "writing"}, todo : SUBSET Files]]
        BY <2>3 DEF TypeOK
    <2>6. file' \in [Files -> [size : {"absent", "zero", "full"}, by : 0..N]]
        BY <2>2, <2>3, <2>4 DEF TypeOK
    <2> QED  BY <2>1, <2>5, <2>6 DEF TypeOK
<1>9. ASSUME NEW t \in Tools, Ends(t)  PROVE TypeOK'
    BY <1>9 DEF Ends, TypeOK, Idle
<1>10. CASE UNCHANGED vars
    BY <1>10 DEF vars, TypeOK, Tools
<1> QED
    BY <1>1, <1>2, <1>3, <1>4, <1>5, <1>6, <1>7, <1>8, <1>9, <1>10 DEF Next, Script, Process

-----------------------------------------------------------------------------
(* The steps of the script.                                                *)

LEMMA StartKeeps ==
    ASSUME UnsqInv, Start  PROVE (~exists => NoDir)' /\ (~late => OnTime)'
<1>1. UNCHANGED <<skill, hasShell, k, MKFS, exists, file, late, NoDir, AlreadyTried>>
    BY DEF Start, NoDir, AlreadyTried
<1>2. pc = "try" /\ pc' = "wait" /\ k \in Tools /\ tool' = [tool EXCEPT ![k].at = "started"]
    BY DEF Start, UnsqInv, TypeOK
<1>3. tool'[k].at = "started" /\ \A t \in Tools : t # k => tool'[t] = tool[t]
    BY <1>2 DEF UnsqInv, TypeOK
<1> SUFFICES ASSUME ~late  PROVE OnTime'
    BY <1>1 DEF UnsqInv
<1>4. NoDir /\ AlreadyTried /\ \A t \in Tools : ~Running(t)
    BY <1>2 DEF UnsqInv, OnTime, OneAtATime
<1>5. OneAtATime'
    BY <1>1, <1>2, <1>3, <1>4 DEF OneAtATime, Running
<1>6. Waiting'
    BY <1>1, <1>3, <1>4 DEF Waiting
<1> QED  BY <1>1, <1>2, <1>4, <1>5, <1>6 DEF OnTime

LEMMA WaitForCompleteKeeps ==
    ASSUME UnsqInv, WaitForComplete  PROVE (~exists => NoDir)' /\ (~late => OnTime)'
<1>1. UNCHANGED <<skill, hasShell, k, MKFS, tool, exists, file, NoDir, AlreadyTried>>
    BY DEF WaitForComplete, NoDir, AlreadyTried
<1>2. UNCHANGED Done
    BY <1>1 DEF Done, Wrote, Made, Image
<1> SUFFICES ASSUME ~late'  PROVE OnTime'
    BY <1>1 DEF UnsqInv
<1>3. pc = "wait" /\ pc' = "ls" /\ ~late /\ \A t \in Tools : ~Running(t)
    BY DEF WaitForComplete
<1>4. k \in Tools /\ tool[k].at = "idle"
    BY <1>3 DEF Running, UnsqInv, TypeOK
<1>5. Done /\ AlreadyTried
    BY <1>3, <1>4 DEF UnsqInv, OnTime, Waiting
<1>6. OneAtATime'
    BY <1>1, <1>3 DEF OneAtATime, Running
<1> QED  BY <1>1, <1>2, <1>3, <1>5, <1>6 DEF OnTime

(* After a tool on time, DIR is not empty.                                 *)
LEMMA DoneIsListed ==
    ASSUME TypeOK, Done, exists  PROVE skill[k] # "refuses" /\ Wrote({}) /\ Listed
<1>1. skill[k] # "refuses" /\ Wrote({})  BY DEF Done, NoDir
<1>2. "other" \in Image /\ "other" \in Files  BY DEF Image, Files
<1>3. file["other"] = Made(k)  BY <1>1, <1>2 DEF Wrote
<1>4. file["other"].size # "absent"  BY <1>3 DEF Made
<1> QED  BY <1>1, <1>2, <1>4 DEF Listed

LEMMA LsKeeps ==
    ASSUME UnsqInv, Ls  PROVE (~exists => NoDir)' /\ (~late => OnTime)'
<1>1. UNCHANGED <<skill, hasShell, k, MKFS, tool, exists, file, late, NoDir, AlreadyTried>>
    BY DEF Ls, NoDir, AlreadyTried
<1>2. UNCHANGED Done
    BY <1>1 DEF Done, Wrote, Made, Image
<1> SUFFICES ASSUME ~late  PROVE OnTime'
    BY <1>1 DEF UnsqInv
<1>3. pc = "ls" /\ Done /\ AlreadyTried /\ OneAtATime /\ TypeOK
    BY DEF Ls, UnsqInv, OnTime
<1>4. OneAtATime'
    BY <1>1, <1>3 DEF OneAtATime, Running
<1>5. CASE exists
    <2>1. Listed  BY <1>3, <1>5, DoneIsListed
    <2>2. pc' = "sh"  BY <2>1, <1>5 DEF Ls
    <2> QED  BY <1>1, <1>2, <1>3, <1>4, <1>5, <2>2 DEF OnTime
<1>6. CASE ~exists
    <2>1. pc' = "next"  BY <1>6 DEF Ls, Listed
    <2>2. skill[k] = "refuses"  BY <1>3, <1>6 DEF Done, Wrote
    <2>3. NoDir  BY <1>6 DEF UnsqInv
    <2> QED  BY <1>1, <1>3, <1>4, <2>1, <2>2, <2>3 DEF OnTime
<1> QED  BY <1>5, <1>6

LEMMA LookKeeps ==
    ASSUME UnsqInv, Look  PROVE (~exists => NoDir)' /\ (~late => OnTime)'
<1>1. UNCHANGED <<skill, hasShell, k, tool, exists, file, late, NoDir, AlreadyTried, ShellPasses>>
    BY DEF Look, NoDir, AlreadyTried, ShellPasses
<1>2. UNCHANGED Done
    BY <1>1 DEF Done, Wrote, Made, Image
<1> SUFFICES ASSUME ~late  PROVE OnTime'
    BY <1>1 DEF UnsqInv
<1>3. pc = "sh" /\ exists /\ Done /\ AlreadyTried /\ OneAtATime /\ TypeOK
    BY DEF Look, UnsqInv, OnTime
<1>4. OneAtATime'
    BY <1>1, <1>3 DEF OneAtATime, Running, Look
<1>5. CASE ShellPasses
    BY <1>1, <1>2, <1>3, <1>4, <1>5 DEF Look, OnTime
<1>6. CASE ~ShellPasses
    <2>1. Wrote({})  BY <1>3, DoneIsListed
    <2>2. file["shell"].size = "zero" /\ "shell" \in Files  BY <1>6 DEF ShellPasses, Files
    <2>3. "shell" \in Image  BY <2>1, <2>2 DEF Wrote, Absent
    <2>4. file["shell"] = Made(k)  BY <2>1, <2>3 DEF Wrote
    <2>5. skill[k] # "whole"  BY <2>2, <2>4 DEF Made
    <2> QED  BY <1>1, <1>2, <1>3, <1>4, <1>6, <2>5 DEF Look, OnTime
<1> QED  BY <1>5, <1>6

LEMMA RemoveKeeps ==
    ASSUME UnsqInv, Remove  PROVE (~exists => NoDir)' /\ (~late => OnTime)'
<1>1. UNCHANGED <<skill, hasShell, k, MKFS, tool, late, AlreadyTried>>
    BY DEF Remove, AlreadyTried
<1>2. NoDir'
    BY DEF Remove, NoDir
<1> SUFFICES ASSUME ~late  PROVE OnTime'
    BY <1>1, <1>2
<1>3. pc = "remove" /\ pc' = "next" /\ skill[k] # "whole" /\ AlreadyTried /\ OneAtATime
    BY DEF Remove, UnsqInv, OnTime
<1>4. OneAtATime'
    BY <1>1, <1>3 DEF OneAtATime, Running
<1> QED  BY <1>1, <1>2, <1>3, <1>4 DEF OnTime

LEMMA NextToolKeeps ==
    ASSUME UnsqInv, NextTool  PROVE (~exists => NoDir)' /\ (~late => OnTime)'
<1>1. UNCHANGED <<skill, hasShell, MKFS, tool, exists, file, late, NoDir>>
    BY DEF NextTool, NoDir
<1> SUFFICES ASSUME ~late  PROVE OnTime'
    BY <1>1 DEF UnsqInv
<1>2. /\ pc = "next" /\ NoDir /\ skill[k] # "whole" /\ AlreadyTried /\ OneAtATime
      /\ pc' \in {"try", "failed"} /\ (pc' = "failed" => k' = k) /\ (pc' = "try" => k' = k + 1)
    BY DEF NextTool, UnsqInv, OnTime
<1>3. OneAtATime'
    BY <1>1, <1>2 DEF OneAtATime, Running
<1>4. AlreadyTried'
    <2>1. \A t \in Tools : t < k + 1 => t < k \/ t = k
        BY UnsquashfsAssumption DEF Tools, UnsqInv, TypeOK
    <2> QED  BY <1>1, <1>2, <2>1 DEF AlreadyTried
<1>5. pc' = "failed" => skill'[k'] # "whole"
    BY <1>1, <1>2
<1> QED  BY <1>1, <1>2, <1>3, <1>4, <1>5 DEF OnTime

-----------------------------------------------------------------------------
(* The steps of the tools.                                                 *)

(* On time, all a step of the tool at hand must keep is Waiting.           *)
LEMMA ToolStep ==
    ASSUME UnsqInv, ~late, NEW t \in Tools, Running(t),
           UNCHANGED <<skill, hasShell, pc, k, MKFS, late>>,
           \A u \in Tools : u # t => tool'[u] = tool[u],
           Waiting => Waiting'
    PROVE  OnTime'
<1>1. t = k /\ pc = "wait" /\ Waiting /\ AlreadyTried /\ OneAtATime
    BY OnlyTheToolAtHand DEF UnsqInv, OnTime
<1>2. OneAtATime'
    BY <1>1 DEF OneAtATime, Running
<1>3. AlreadyTried'
    BY <1>1 DEF AlreadyTried
<1> QED  BY <1>1, <1>2, <1>3 DEF OnTime

LEMMA MakeDirKeeps ==
    ASSUME UnsqInv, NEW t \in Tools, MakeDir(t)
    PROVE  (~exists => NoDir)' /\ (~late => OnTime)'
<1>1. UNCHANGED <<skill, hasShell, pc, k, MKFS, file, late, Image>> /\ tool[t].at = "started"
    BY DEF MakeDir, Image
<1>2. (~exists => NoDir)'
    BY <1>1 DEF MakeDir, UnsqInv, NoDir
<1> SUFFICES ASSUME ~late  PROVE OnTime'
    BY <1>1, <1>2
<1>3. Running(t)  BY <1>1 DEF Running
<1>4. t = k /\ Waiting /\ NoDir
    BY <1>1, <1>3, OnlyTheToolAtHand DEF UnsqInv, Waiting
<1>5. CASE skill[t] = "refuses" \/ exists
    <2>1. tool' = [tool EXCEPT ![t] = Idle] /\ exists' = exists  BY <1>5 DEF MakeDir
    <2>2. tool'[t] = Idle /\ \A u \in Tools : u # t => tool'[u] = tool[u]
        BY <2>1 DEF UnsqInv, TypeOK
    <2>3. skill[k] = "refuses" /\ Done'
        BY <1>1, <1>4, <1>5, <2>1 DEF Done, NoDir
    <2>4. Waiting'
        BY <1>1, <1>4, <2>2, <2>3 DEF Waiting, Idle
    <2> QED  BY <1>1, <1>3, <2>2, <2>4, ToolStep
<1>6. CASE ~(skill[t] = "refuses" \/ exists)
    <2>1. tool' = [tool EXCEPT ![t] = [at |-> "writing", todo |-> Image]] /\ exists' = TRUE
        BY <1>6 DEF MakeDir
    <2>2. /\ tool'[t] = [at |-> "writing", todo |-> Image]
          /\ \A u \in Tools : u # t => tool'[u] = tool[u]
        BY <2>1 DEF UnsqInv, TypeOK
    <2>3. Image \subseteq Files  BY DEF Image, Files
    <2>4. Wrote(Image)'
        BY <1>1, <1>4, <1>6, <2>1, <2>3 DEF Wrote, NoDir
    <2>5. Waiting'
        BY <1>1, <1>4, <2>2, <2>4 DEF Waiting
    <2> QED  BY <1>1, <1>3, <2>2, <2>5, ToolStep
<1> QED  BY <1>5, <1>6

LEMMA WriteFileKeeps ==
    ASSUME UnsqInv, NEW t \in Tools, WriteFile(t)
    PROVE  (~exists => NoDir)' /\ (~late => OnTime)'
<1>1. UNCHANGED <<skill, hasShell, pc, k, MKFS, exists, late, Image>> /\ tool[t].at = "writing"
    BY DEF WriteFile, Image
<1>2. ~exists => file' = file
    BY DEF WriteFile
<1>3. (~exists => NoDir)'
    BY <1>1, <1>2 DEF UnsqInv, NoDir
<1> SUFFICES ASSUME ~late  PROVE OnTime'
    BY <1>1, <1>3
<1>4. Running(t)  BY <1>1 DEF Running
<1>5. t = k /\ Wrote(tool[k].todo) /\ tool[k].todo \subseteq Image
    BY <1>1, <1>4, OnlyTheToolAtHand DEF UnsqInv, Waiting
<1>6. exists /\ Image \subseteq Files  BY <1>5 DEF Wrote, Image, Files
<1>7. PICK f \in tool[k].todo :
        \/ /\ file[f].size = "absent"
           /\ file' = [file EXCEPT ![f] = [size |-> "zero", by |-> k]]
           /\ tool' = IF skill[k] = "whole" THEN tool ELSE [tool EXCEPT ![k].todo = @ \ {f}]
        \/ /\ file[f].size # "absent"
           /\ file' = IF skill[k] = "whole"
                      THEN [file EXCEPT ![f] = [size |-> "full", by |-> k]] ELSE file
           /\ tool' = [tool EXCEPT ![k].todo = @ \ {f}]
    BY <1>5, <1>6 DEF WriteFile
<1>8. f \in Files /\ f \in Image  BY <1>5, <1>6
<1>9. \A g \in Files : g # f => file'[g] = file[g]
    BY <1>7, <1>8 DEF UnsqInv, TypeOK
<1>10. /\ tool'[k].at = "writing" /\ tool'[k].todo \in {tool[k].todo, tool[k].todo \ {f}}
       /\ \A u \in Tools : u # t => tool'[u] = tool[u]
    BY <1>5, <1>7, <1>1 DEF UnsqInv, TypeOK
<1>11. IF f \in tool'[k].todo
       THEN file'[f] \in {Absent, [size |-> "zero", by |-> k]} ELSE file'[f] = Made(k)
    <2>0. file[f] \in {Absent, [size |-> "zero", by |-> k]}  BY <1>5, <1>8 DEF Wrote
    <2>1. CASE file[f].size = "absent"
        <3>1. file'[f] = [size |-> "zero", by |-> k]  BY <2>1, <1>7, <1>8 DEF UnsqInv, TypeOK
        <3>2. skill[k] # "whole" => [size |-> "zero", by |-> k] = Made(k)  BY DEF Made
        <3>3. skill[k] = "whole" => tool'[k].todo = tool[k].todo  BY <2>1, <1>7
        <3> QED  BY <3>1, <3>2, <3>3, <1>8
    <2>2. CASE file[f].size # "absent"
        <3>1. f \notin tool'[k].todo  BY <2>2, <1>5, <1>7 DEF UnsqInv, TypeOK
        <3>2. file[f] = [size |-> "zero", by |-> k]  BY <2>0, <2>2 DEF Absent
        <3>3. CASE skill[k] = "whole"
            <4>1. file'[f] = [size |-> "full", by |-> k]
                BY <2>2, <3>3, <1>7, <1>8 DEF UnsqInv, TypeOK
            <4> QED  BY <3>1, <3>3, <4>1 DEF Made
        <3>4. CASE skill[k] # "whole"
            <4>1. file'[f] = file[f]  BY <2>2, <3>4, <1>7
            <4> QED  BY <3>1, <3>2, <3>4, <4>1 DEF Made
        <3> QED  BY <3>3, <3>4
    <2> QED  BY <2>1, <2>2
<1>12. Wrote(tool[k].todo)'
    <2>1. \A g \in Image : IF g \in tool'[k].todo
                           THEN file'[g] \in {Absent, [size |-> "zero", by |-> k]}
                           ELSE file'[g] = Made(k)
        <3> SUFFICES ASSUME NEW g \in Image, g # f
                     PROVE  IF g \in tool'[k].todo
                            THEN file'[g] \in {Absent, [size |-> "zero", by |-> k]}
                            ELSE file'[g] = Made(k)
            BY <1>11
        <3>1. file'[g] = file[g] /\ (g \in tool'[k].todo <=> g \in tool[k].todo)
            BY <1>6, <1>9, <1>10
        <3> QED  BY <3>1, <1>5 DEF Wrote
    <2>2. \A g \in Files \ Image : file'[g] = Absent
        BY <1>5, <1>8, <1>9 DEF Wrote
    <2>3. UNCHANGED Made(k)  BY <1>1 DEF Made
    <2> QED  BY <1>1, <1>5, <2>1, <2>2, <2>3 DEF Wrote
<1>13. Waiting'
    BY <1>1, <1>5, <1>10, <1>12 DEF Waiting
<1> QED  BY <1>1, <1>4, <1>5, <1>10, <1>13, ToolStep

LEMMA EndsKeeps ==
    ASSUME UnsqInv, NEW t \in Tools, Ends(t)
    PROVE  (~exists => NoDir)' /\ (~late => OnTime)'
<1>1. UNCHANGED <<skill, hasShell, pc, k, MKFS, exists, file, late, NoDir, Done>>
    BY DEF Ends, NoDir, Done, Wrote, Made, Image
<1> SUFFICES ASSUME ~late  PROVE OnTime'
    BY <1>1 DEF UnsqInv
<1>2. tool[t] = [at |-> "writing", todo |-> {}] /\ tool' = [tool EXCEPT ![t] = Idle]
    BY DEF Ends
<1>3. Running(t)  BY <1>2 DEF Running
<1>4. t = k /\ Wrote({}) /\ Done
    <2>1. t = k /\ Wrote(tool[k].todo)
        BY <1>2, <1>3, OnlyTheToolAtHand DEF UnsqInv, Waiting
    <2>2. Wrote({})  BY <1>2, <2>1
    <2> QED  BY <2>1, <2>2 DEF Done, Wrote
<1>5. tool'[t] = Idle /\ \A u \in Tools : u # t => tool'[u] = tool[u]
    BY <1>2 DEF UnsqInv, TypeOK
<1>6. Waiting'
    BY <1>1, <1>4, <1>5 DEF Waiting, Idle
<1> QED  BY <1>1, <1>3, <1>5, <1>6, ToolStep

LEMMA UnsqStep == UnsqInv /\ [Next]_vars => UnsqInv'
<1> SUFFICES ASSUME UnsqInv, [Next]_vars  PROVE UnsqInv'
    OBVIOUS
<1>0. TypeOK'  BY TypeStep DEF UnsqInv
<1>1. CASE Start  BY <1>0, <1>1, StartKeeps DEF UnsqInv
<1>2. CASE WaitForComplete  BY <1>0, <1>2, WaitForCompleteKeeps DEF UnsqInv
<1>3. CASE Ls  BY <1>0, <1>3, LsKeeps DEF UnsqInv
<1>4. CASE Look  BY <1>0, <1>4, LookKeeps DEF UnsqInv
<1>5. CASE Remove  BY <1>0, <1>5, RemoveKeeps DEF UnsqInv
<1>6. CASE NextTool  BY <1>0, <1>6, NextToolKeeps DEF UnsqInv
<1>7. ASSUME NEW t \in Tools, Process(t)  PROVE UnsqInv'
    <2>1. (~exists => NoDir)' /\ (~late => OnTime)'
        BY <1>7, MakeDirKeeps, WriteFileKeeps, EndsKeeps DEF Process
    <2> QED  BY <1>0, <2>1 DEF UnsqInv
<1>8. CASE UNCHANGED vars
    <2>1. UNCHANGED <<skill, hasShell, pc, k, MKFS, tool, exists, file, late>>
        BY <1>8 DEF vars
    <2>2. UNCHANGED <<NoDir, Done, AlreadyTried, OneAtATime, Waiting, ShellPasses>>
        BY <2>1 DEF NoDir, Done, Wrote, Made, Image, AlreadyTried, OneAtATime, Running, Waiting,
            ShellPasses
    <2> QED  BY <1>0, <2>1, <2>2 DEF UnsqInv, OnTime
<1> QED  BY <1>1, <1>2, <1>3, <1>4, <1>5, <1>6, <1>7, <1>8 DEF Next, Script

(* While every tool is on time, one runs at a time, DIR holds what the     *)
(* tool at hand has written, and no tool before it could do the image.     *)
THEOREM UnsqInvariant == Spec => []UnsqInv
BY InitUnsqInv, UnsqStep, PTL DEF Spec

(* TypeOK, for any number of tools, late or not.                           *)
THEOREM TypeCorrect == Spec => []TypeOK
<1>1. UnsqInv => TypeOK  BY DEF UnsqInv
<1> QED  BY <1>1, UnsqInvariant, PTL

(* The tool reported is the one that wrote DIR, shell included.            *)
THEOREM RightToolHolds == Spec => []RightTool
<1>1. UnsqInv => RightTool
    <2> SUFFICES ASSUME UnsqInv, pc = "ok", ~late
                 PROVE  /\ \A f \in Image : file[f].by = MKFS
                        /\ hasShell => file["shell"].size = "full"
        BY DEF RightTool
    <2>1. Wrote({}) /\ MKFS = k /\ ShellPasses
        BY DoneIsListed DEF UnsqInv, OnTime
    <2>2. \A f \in Image : file[f] = Made(k)  BY <2>1 DEF Wrote
    <2>3. hasShell => file["shell"].size = "full"
        <3>1. hasShell => "shell" \in Image  BY DEF Image, Files
        <3> QED  BY <3>1, <2>1, <2>2 DEF Made, ShellPasses
    <2> QED  BY <2>1, <2>2, <2>3 DEF Made
<1> QED  BY <1>1, UnsqInvariant, PTL

(* No tool before the one reported could have extracted the image.         *)
THEOREM FirstOnTimeHolds == Spec => []FirstOnTime
<1>1. UnsqInv => FirstOnTime
    <2> SUFFICES ASSUME UnsqInv, pc = "ok", ~late, NEW t \in 1..(MKFS - 1)
                 PROVE  skill[t] # "whole"
        BY DEF FirstOnTime
    <2>1. AlreadyTried /\ MKFS = k /\ k \in 1..N /\ N \in Nat
        BY UnsquashfsAssumption DEF UnsqInv, OnTime, TypeOK, Tools
    <2>2. t \in Tools /\ t < k  BY <2>1 DEF Tools
    <2> QED  BY <2>1, <2>2 DEF AlreadyTried
<1> QED  BY <1>1, UnsqInvariant, PTL

(* A failed extraction leaves no directory.                                *)
THEOREM NothingLeftHolds == Spec => []NothingLeft
<1>1. UnsqInv => NothingLeft  BY DEF UnsqInv, OnTime, NothingLeft, NoDir
<1> QED  BY <1>1, UnsqInvariant, PTL
=============================================================================
