-------------------------------- MODULE Boot --------------------------------
(***************************************************************************)
(* How the machine comes up.  On the host the image inserter               *)
(* (src/src/inserter/external-inserter.c) runs the same driver on an empty *)
(* image and writes the shell to it.  At every boot kernel_setup           *)
(* (src/src/kernel.c) mounts the disk, maps the shell's page, makes its    *)
(* example directories and file, without looking for those of an earlier   *)
(* boot and whatever the driver answers, reads the shell and runs it.      *)
(***************************************************************************)
EXTENDS Fat32Properties, Paging

CONSTANTS
    ShellName, Ikanaide, Kano1, Kano2, Daijoubu,   \* the names that are written
    KANO2_PARENT,     \* the cluster kano2 goes to (0xF in the code)
    DAIJOUBU_PARENT,  \* the cluster daijoubu.uwu goes to (0x10 in the code)
    SHELL_SIZE,       \* clusters of the shell
    SHELL_BUFFER,     \* clusters the shell may have (512 in the code)
    DAIJOUBU_SIZE,    \* clusters of daijoubu.uwu (5 in the code)
    ShellText, DaijoubuText

ASSUME BootNamesAssumption == {ShellName, Ikanaide, Kano1, Kano2, Daijoubu} \subseteq Names
ASSUME ParentsAssumption == {KANO2_PARENT, DAIJOUBU_PARENT} \subseteq Cluster
ASSUME FilesAssumption ==
    /\ {SHELL_SIZE, DAIJOUBU_SIZE} \subseteq Lengths
    /\ SHELL_BUFFER \in Nat /\ SHELL_SIZE <= SHELL_BUFFER
    /\ {ShellText, DaijoubuText} \subseteq Payloads

VARIABLES
    who,     \* what runs: the inserter on the "host", the "kernel", the "shell"
    setup,   \* the position of kernel_setup in what it does
    loaded   \* what was read to the user's address 0

bootVars == <<who, setup, loaded>>
machine  == <<vars, pageVars, bootVars>>

BootInit == Init /\ PagingInit /\ who = "host" /\ setup = 0 /\ loaded = <<>>

\* initialize_filesystem_fat32, on the host and on the machine.
Start == (MountSigned \/ SignDisk) /\ UNCHANGED <<pageVars, bootVars>>

\* A step of the call being served.
Serve == Step /\ UNCHANGED <<pageVars, bootVars>>

(***************************************************************************)
(* The host                                                                *)
(***************************************************************************)
InsertShell ==
    /\ who = "host" /\ setup = 0
    /\ Write(ROOT_CLUSTER_NUMBER, ShellName, SHELL_SIZE, ShellText)
    /\ setup' = 1
    /\ UNCHANGED <<pageVars, who, loaded>>

\* The inserter ends: the image is saved and its memory is gone.
SaveImage ==
    /\ who = "host" /\ setup = 1 /\ pc = "idle"
    /\ who' = "kernel" /\ setup' = 0
    /\ pc' = "off"
    /\ fat' = EmptyFat /\ out' = Answer(Pending)
    /\ UNCHANGED <<disk, call, pageVars, loaded>>

(***************************************************************************)
(* kernel_setup                                                            *)
(***************************************************************************)
AllocateUserPage ==
    /\ who = "kernel" /\ setup = 0 /\ pc = "idle"
    /\ allocate_single_user_page_frame(0)
    /\ setup' = 1
    /\ UNCHANGED <<vars, who, loaded>>

\* The calls of kernel_setup, in their order.
Example(kano2_parent, daijoubu_parent) ==
    \/ setup = 1 /\ Read(ROOT_CLUSTER_NUMBER, Ikanaide, 0)
    \/ setup = 2 /\ Write(ROOT_CLUSTER_NUMBER, Ikanaide, 0, DaijoubuText)
    \/ setup = 3 /\ Write(ROOT_CLUSTER_NUMBER, Kano1, 0, DaijoubuText)
    \/ setup = 4 /\ Write(kano2_parent, Kano2, 0, DaijoubuText)
    \/ setup = 5 /\ Write(daijoubu_parent, Daijoubu, DAIJOUBU_SIZE, DaijoubuText)

\* Faults: the shell is three clusters longer than the numbers were chosen for;
\* a write that is refused is made again.
MakeExamplesMisplaced ==
    /\ who = "kernel" /\ setup' = setup + 1
    /\ Example(KANO2_PARENT - 3, DAIJOUBU_PARENT - 3)
    /\ UNCHANGED <<pageVars, who, loaded>>
MakeExamplesAgain ==
    /\ who = "kernel"
    /\ Example(KANO2_PARENT, DAIJOUBU_PARENT)
    /\ setup' = IF setup > 1 /\ pc' = "idle" THEN setup ELSE setup + 1
    /\ UNCHANGED <<pageVars, who, loaded>>

MakeExamples ==
    /\ who = "kernel" /\ setup' = setup + 1
    /\ Example(KANO2_PARENT, DAIJOUBU_PARENT)
    /\ UNCHANGED <<pageVars, who, loaded>>

\* Whatever was read is jumped into.
RunShell ==
    /\ who = "kernel" /\ setup = 6
    /\ Read(ROOT_CLUSTER_NUMBER, ShellName, SHELL_BUFFER)
    /\ loaded' = out'.blocks
    /\ who' = "shell" /\ setup' = 0
    /\ UNCHANGED pageVars

BootPowerFails ==
    /\ who # "host" /\ PowerFails
    /\ who' = "kernel" /\ setup' = 0 /\ loaded' = <<>>
    /\ page_directory' = StartDirectory /\ next_frame' = 1 /\ allocated' = 0

Work == Start \/ Serve \/ InsertShell \/ SaveImage
          \/ AllocateUserPage \/ MakeExamples \/ RunShell

BootNext     == Work \/ BootPowerFails
BootSpec     == BootInit /\ [][BootNext]_machine
FairBootSpec == BootSpec /\ WF_machine(Work)

(***************************************************************************)
(* Properties.  NoCrossLink and FilesWhole are asked again: the examples   *)
(* are written to clusters the kernel names without knowing what they are. *)
(***************************************************************************)
\* What the kernel jumps into is the shell that was inserted, whole, in a page
\* of the user's that is not the kernel's, whatever the boots before this one
\* left on the disk when the power failed (kernel.c:54-131).
ShellLoaded ==
    who = "shell" =>
       /\ \A k \in 1 .. SHELL_SIZE : k \in DOMAIN loaded /\ loaded[k] = <<ShellText, k>>
       /\ page_directory[0].user /\ page_directory[0].frame # page_directory[KERNEL_PAGE].frame

\* Every boot comes to the shell unless the power fails: no call that
\* kernel_setup makes waits for ever (kernel.c:54-131).
Booting   == who = "kernel" /\ pc # "off"
BootEnds  == Booting ~> ~Booting
=============================================================================
