# OSyikkk: a verification development

OSyikkk is a 32-bit hobby operating system: a kernel with a FAT32-like file
system on an ATA disk, a keyboard and a text framebuffer, 4 MiB pages, and a
user-mode shell that talks to the kernel through `int 0x30`. This directory
holds TLA+ models of it, the TLC configurations that check them and proofs for
TLAPS. Paths below are relative to the repository.

## 1. The system

| Component | State it keeps | Operations | Correct when |
|---|---|---|---|
| FAT32 driver (`src/filesystem/fat32.c`) | `driver_state.fat_table` in memory; on disk a boot signature, the FAT (cluster 1), directory tables and file blocks | `initialize_filesystem_fat32`, `read_directory`, `read`, `write`, `delete` | chains are disjoint and end; an entry on disk has its content; memory and disk agree between calls; no cluster leaks; calls return |
| ATA disk (`src/filesystem/disk.c`) | the controller's registers | `read_blocks`, `write_blocks` | sectors are written in order, all of them |
| System calls (`src/interrupt/interrupt.c`) | none but the TSS | calls 0-3 to the driver, 4 keyboard, 5-7 screen, 8 `mv` | `mv` moves one entry and loses none |
| Keyboard (`src/keyboard/keyboard.c`) | `keyboard_state`, `tempCode`; outside: controller, PIC | `keyboard_isr`, activate, get, reset | each line typed reaches the shell, once; the keyboard stays alive |
| Framebuffer (`src/framebuffer/framebuffer.c`) | video memory, hardware cursor | set/get cursor, write, clear, scroll | nothing is written past the screen |
| Paging (`src/paging/paging.c`) | page directory, next free frame | `allocate_single_user_page_frame` | up to the wrap, frames are distinct and none is the kernel's |
| Start-up (`src/kernel.c`) | none | the files created at each boot, loading of the shell | a reboot changes nothing that exists |
| Shell (`src/user-shell.c`) | the line and its words; stack of directory clusters and names | trimming, splitting, cd, ls, mkdir, cat, cp, mv, rm, whereis | no word is lost; commands end, and come back where they started; what they write is linked from the root |
| Inserter (`src/inserter/external-inserter.c`) | disk image in memory | one `write` per run | as the driver |
| GDT, IDT, assembly, `stdmem.c`, `portio.c` | constant tables, single instructions | | |
| RTC (`src/filesystem/cmos.c`) | | not compiled | |

**Interaction.** The shell calls the kernel by `int 0x30`. The gate clears the
interrupt flag, so a file-system call runs alone from start to end: no other
call and no interrupt handler sees its intermediate states. System call 4 is the
exception, it executes `sti` and spins until the keyboard handler has seen a line
feed. The driver calls the disk cluster by cluster. Kernel start-up and the
inserter call the same driver.

**What is hard.** The order of disk writes against a loss of power; refused
calls that have changed memory already; searches at their limits (last cluster,
full table, shortest chain); the keyboard handler interleaved with system call
4; directory clusters kept by the shell while the directories go away; `mv`
writing two tables. `PROJECT.json` lists every hazard at its line.

## 2. Plan

1. *(done)* `Fat32Data`, `Fat32`, `Fat32Properties`: the driver and its disk.
   `FileStore`: what `fat32.h` promises. `Fat32Store`: the refinement. `Fat32Proofs`,
   `TreeLemmas`, `TreeProofs`, `StoreProofs`.
2. *(done)* `Screen`, `Keyboard`, `KeyboardProperties`: framebuffer, controller,
   PIC, handler and system calls 4 to 7 as interleaved processes; liveness of a
   typed line. `KeyboardProofs`.
3. *(done)* `Move`: system call 8 over the driver's disk (EXTENDS
   `Fat32Properties`), with power failures between its writes. `MoveProofs`.
4. *(done)* Torn clusters: a FAT that is half old and half new, in `Fat32`.
5. *(done)* `Paging`: the page-frame allocator.
6. *(done)* `Boot`: the inserter and the sequence of `kernel_setup` over the
   driver and the allocator, boot after boot. `MachineProofs` is about this machine
   with its allocator and its shell.
7. *(done)* `Shell`: the directory stack and the commands, on the machine of
   `Boot` and the moves of `Move`, so that the driver's own code answers them.
8. *(done)* `Words`: from the bytes of a line to the rows of `cmd`. `WordsProofs`.

Left to TLC are the liveness properties; and `TreeCopied`, `StackGoesStaleUpwards`
and `WritesLiveDirectories` of `Shell`, which need an invariant over the paths a
stack of clusters stands for.

## 3. The FAT32 driver

### What corresponds to what

`Fat32Data` holds the data structures and the searches in them: tables, entries,
the FAT, `TakesSlot` (the slot `write` settles on), `Allocation` (the clusters it
collects), `Linked` (the chain it builds), `Chain` (the walk of `read`).

`Fat32` is the driver at work. `signature`, `diskFat`, `table` and `data` are the
disk; `fat` is `driver_state.fat_table.cluster_map`; `call` is the stack frame of
the call being served; `out` is what the last call returned; `pc` names the disk
write that comes next. Every `write_clusters()` of the code is one action, and
the changes in memory before it belong to the same action:

| Code | Actions |
|---|---|
| `initialize_filesystem_fat32`, `create_fat32` | `MountSigned`, `SignDisk`, `FormatFat`, `FormatRoot` |
| `read_directory`, `read` | `ReadDirectory`, `Read` (no disk write, one action) |
| `write`, directory | `Write`/`MakeDirectory`, `WriteNewTable`, `FlushFat`, `FlushParent` |
| `write`, file | `Write`/`MakeFile`, `WriteContent` (once per block), `FlushFat`, `FlushParent` |
| `delete`, directory | `Delete`, `EraseDirectory`, `FlushFat`, `FlushParent` |
| `delete`, file | `Delete`, `EraseCluster` (once per round of the loop), `EraseLast`, `FlushFat`, `FlushParent` |
| loss of power | `PowerFails`: memory is gone, the disk keeps what was written |

Requests name directories that hang from the root (or cluster 0, which `write`
refuses), any name including the empty one, and whole numbers of clusters.

Operators and actions whose comment begins with "Fault" are never used by the
model. Each is a plausible mistake in the definition that follows it, kept to
show that the property it is meant for can fail.

### Abstractions

* A name stands for the 11 bytes (name, ext). A block of a file is a pair
  (payload, index).
* A table that `write` creates has slot 0 only. The code leaves slots 1 to 63 to
  what the stack holds; in the committed `bin/kernel` these bytes are zero
  where `user_attribute` is read, which is the case modelled.
* Bytes of files are text: read as a table they are free slots.
* `write_blocks` hands a cluster over in blocks of 512 bytes, and the power may
  fail between two. A write changes one entry of a table, so a torn table is the
  old or the new one; the clusters that a call fills or clears are not linked
  yet, or are those of the entry being deleted. The FAT is the cluster where it
  tells: `PowerFails` may leave it with its first blocks new and the rest old
  (`Torn`). A block has 128 cells; `BlockCells` = 4 puts clusters 0 to 3 and 4
  on in different blocks, so a chain of two can be torn apart.
* A word beyond `cluster_map` is one unknown word (`StrayWords`), cleared when
  the code clears it. In the built kernel the index 0x0FFFFFFF wraps to an
  address of the user's page that is normally zero.
* Requests of 1 to 2047 bytes, for which the code computes zero clusters, are
  left out.

### What is checked

| Run | Question | Answer |
|---|---|---|
| `crash` | Does the disk stay consistent wherever a write is cut off, and do calls return? | Yes: chains disjoint and ended (`NoCrossLink`), files whole (`FilesWhole`), memory equal to disk (`FatFlushed`), committed clusters spared (`CommittedUntouched`); a directory's own entry is lost only to a full table (`SelfEntryKept`); with files of two clusters or more every call ends (`CallsReturn`) |
| `store` | Is the driver the file store that `fat32.h` promises? | Yes, but for three calls: every behaviour is one of `FileStore`'s `DriverSpec` (`ImplementsStore`) |
| `promise` | `fat32.h:236`, "1 file/folder already exist" | violated: a name is written a second time (`KeepsPromise`, which is `FileStore`'s `Spec`) |
| `one_cluster` | `fat32.h:242`, "delete a file" | violated: with one cluster the boot sector is cleared and the loop does not end |

`FileStore` has two specifications. `Spec` is the promise of `fat32.h`: a call takes
effect once or not at all, and a write of a name that exists, a write into a full
directory and a read of a folder are refused. Which of the codes a refusal answers
is left open. The driver grants these three calls: they are the action `Departure`,
and `DriverSpec` is `Spec` with it. `ImplementsStore` is `DriverSpec`, so it says
that the driver departs from the promise in these three and nowhere else. That it
does depart is what `promise` shows for the name; the folder that is read is in
section 9, and `SelfEntryKept` is about what the write into a full directory costs.

That no cluster is lost is asked with moves among the calls, in section 5.

Deletes are judged on `Shown`, the disk with the entry being deleted taken as
gone: a delete clears content before it removes the entry, so a delete that is
cut off does leave the entry behind, over cleared or free clusters. The
invariants hold at each of its disk writes for every other entry, which is what
the next boot finds. For the same reason `PowerFailsIn` leaves `delete` and the
format out of the runs that ask for whole files: afterwards a write may take the
clusters of an entry that is still there. The theorems below hold with both.

**Bounds.** A FAT of 7 cells has clusters 3 to 6 for the user: two files, or a
file among up to three directories, two files with their clusters interleaved,
the last cluster and its off-by-one, and exhaustion. Tables of three slots fill
up with two entries. Two names give
duplicates and distinct entries, two payloads tell files apart. All searches of
the code are uniform in the sizes, and nothing else in the model is bounded: the
runs follow any number of calls, power failures and reboots.

**Fairness.** `FairSpec` asks for weak fairness of `Step`, the disk writes of a
call under way. The processor executes the call with interrupts disabled and
nothing can preempt it, so the next write is made unless the power fails. No
fairness is asked of requests, of the boot or of the power.

### What is proved

`Fat32Proofs` proves, for every size of the FAT (from four cells) and of the
tables, every set of names, payloads and lengths, and every choice of where the
power may fail, the format, delete and the middle of the FAT's write included:

* `TypeCorrect`: `Spec => []TypeOK`. `TypeOK` is not inductive: `WriteNewTable`
  and `WriteContent` write what the call has prepared, so `TypeInv` adds `CallOK`,
  that it has prepared a cluster, an entry and a block.
* `FatFlushedAlways`: `Spec => []FatFlushed`. The two FATs differ during a call;
  `Saved` strengthens the invariant to the steps from the FAT's write on. The one
  allowed difference, the last cell, is established by `SavedRefused`.
* `CommittedUntouchedAlways`: `Spec => CommittedUntouched`. `Fresh` says that the
  clusters a write has taken are free on the disk until the FAT is written:
  `AllocationFresh` carries that over from memory by `Saved`.

They rest on the constants' assumptions in `Fat32Data`: sizes that leave room for
one user cluster and stay below the FAT's special values, lengths of at least one
cluster, `NoName` not a name, and a stray word that may be zero.

`TreeLemmas` is about chains and directories as such. `Chain` and `Directories`
are recursive functions, which the prover knows only as a choice among the
functions that satisfy the equation: there a function is shown to exist, and what
it returns is found by the least counterexample among the natural numbers.
`ChainIs`: the walk from a cell returns q exactly when q is a chain of the FAT.
`DirectoriesAre`: the search returns the least set with the root that is closed
under the entries. The other lemmas say which clusters a change of the FAT or of a
table must leave alone for the chains, owners and directories to stay.

`TreeProofs` proves under `Benign`: the power does not fail in a delete or in the
format, and if the user deletes, files have two clusters or more. The first is what
`Shown` is about (above), the second is the fault the run `one_cluster` shows.

* `NoCrossLinkAlways`, `FilesWholeAlways`: `Spec => []...`.
* `SelfEntryKeptAlways`: `Spec => SelfEntryKept`.

The invariant is `TreeInv`: `Tree` says of a FAT, tables and blocks that every entry
reached from the root has a chain that ends and does not pass the root, that two
chains are apart, and that files have their blocks and directories one cluster. It is asked of the disk's FAT and of `Shown`
at every step. Alone it is not inductive. `FormatOrder`: until the root is written
there is no table. `Remembered`: memory has the tree's chains as the disk has them,
so that an allocation from memory takes none of their clusters. `Prepared`: what a
write has collected is a chain of clusters that nobody owns, and before the parent's
table is written the disk has it; the cluster it will write as the parent's is in no
file. That is less than to be a directory, and all the driver can promise: `write`
does not look at what kind of cluster it is given, and a boot gives it clusters that
an earlier boot, cut off, has left without a directory (section 6). `MakingDirectory` and `MakingFile`: by then the
new table or the blocks are there. `Deleting`: what is left to clear is a chain
nobody else owns, of more than one cluster while the loop goes on. `Waiting`: the
steps of a call are taken for a call only.

`StoreProofs` proves `StoreImplemented`: under `Benign`, `Spec => ImplementsStore`;
and `PromiseKept`: a caller who never takes one of the three departures has the
store as promised, `Spec /\ [][~Store!Departure]_vars => Store!Spec`.
The mapping shows the folders that hang from the root, with their items
(`Dirs`), or those of a fresh disk until the format ends. Every step is one of
`FileStore` or a stutter: `FlushParent` is `MakeFolder` or `MakeFile`, granted or
departing by the name and the room (`MakeStep`), the start of
a delete is `Remove` and its last write `Acknowledge`; reads are `ReadFile`, `List`
and the departure `ReadFolder`; a refused request is `Refuse`, an accepted write, a mount and a loss of
power are steps that change the answer only; all other writes leave `Dirs` as it is.
`StoreInv` adds to `TreeInv` that a formatted disk keeps its root (`RootInv`). That
`Remove` prunes what is no longer reachable is the closure of `DirectoriesAre`.

Model-checked only: `CallsReturn`, which is liveness. `NoLeak` is proved with moves
among the calls (section 5).

## 4. The keyboard and the screen

### What corresponds to what

`Screen` has the functions of `framebuffer.c` as operators on a record of the
visible cells and the cursor; rows and columns wrap as `uint8_t`. What is written
below the screen is dropped: `framebuffer_scroll_ln` blanks the row it would come
up in.

`Keyboard` interleaves three processes.

| Code | Actions |
|---|---|
| the user, the controller and the request line (external) | `Press` |
| `keyboard_isr` | `IgnoreKey`, `ServeKey` (one action, the handler is not interrupted) |
| system call 4 | `ReadLine` (to `sti`), `GetBuffer` (end of the loop and copy), `ResetBuffer` |
| `execute_cmd` and system calls 5 to 7 | `StartOutput`, `WriteOut`, `Refuse`, `Clear`, `NextLine`, `PrintHome` |

The handler may run between any two of the shell's actions: interrupts are on in
user mode, and inside system call 4 from its `sti` on. Within the other calls they
are off, so each is one action. `ServeKey` takes apart the keys the handler takes
apart: one that writes a letter, one that maps to 0 (`ctrl`), Enter, backspace,
ESC, the left arrow, left shift and caps lock, and the release of left shift or of
another key (`release`). The interrupt controller is edge-triggered
(`pic_remap` gives no `ICW1_LEVEL`), so a code left in port 0x60 raises no second
request; `irq` and `inService` are its two bits for the keyboard. The capital
table ends at 57: indices behind it are read for keys whose character is then
not used, or are taken as 0.

### What is checked

| Run | Question | Answer |
|---|---|---|
| `echo` | Does the screen show the line that is read? Does each line start and end clean? | Yes, over wraps, scrolling, backspaces and type-ahead (`EchoMatches`, `FreshLine`, `LineFrozen`) |
| `patient` | Is a user who waits for the shell served, whatever keys are pressed, and do ESC and the left arrow leave the state sound? | Yes (`InterruptPending`, `ScancodesProcessed`, `EnterEnds`, `FreshLine`); ESC and the arrow part cursor and index, so `EchoMatches` is not asked |
| `typeahead` | `keyboard.h:77`, "Will start listen and process keyboard scancode if keyboard_input_on." | violated: a key pressed too early makes the keyboard deaf |

**Bounds.** A screen of two rows of three cells wraps and scrolls within one
command; `Byte` = 4 makes the buffer as long as the index can count and lets the
line fill the screen but its last row, as 256 characters do not fill 24 rows of
80. Prompts grow with the path, so `echo` has one shorter than a row and one longer,
`patient` and `typeahead` the short one; `Fifo` = 2 has a code behind
the one in port 0x60. `Scancodes` has the keys a run's question needs. Commands
write any number of strings of `Outputs`. A refusal, after which the shell reads
without a prompt, can leave the cursor below the screen (section 9), so `echo` has
none; `patient` does, and no other output. Caps lock is in no run: it sets the
shift that left shift sets, until it is pressed again.

**Fairness.** `FairSpec` asks for weak fairness of the handler and of `GetBuffer`.
The processor takes a pending interrupt when interrupts are on, which they are
throughout the loop of system call 4; that loop does nothing but test the flag.
No fairness is asked of the user or of the commands. With `TypeAhead` the system
does stop: nothing raises the interrupt of a code that was ignored. Without it the
user may stop typing at a full controller or in a line. The runs where this
happens say `CHECK_DEADLOCK FALSE`.

### What is proved

`KeyboardProofs` proves for every screen, buffer, set of keys and strings of text:

* `KeyboardTypeCorrect`: `Spec => []TypeOK`. `ScreenInv` adds the screen, its cells
  and its cursor, which may be two rows below, and `Latched`: a request means that
  a code waits, as the handler reads port 0x60.
* `FreshLineAlways`: `Spec => []FreshLine`, by `Quiet`: input is on in the loop of
  system call 4 only, so the handler writes to the buffer there only, and the call
  empties it before it returns.
* `LineFrozenAlways`: `Spec => LineFrozen`, from `Quiet`: once Enter has turned
  input off, the handler only touches the index.
* `InterruptPendingPatient`: `Spec => []InterruptPending` when `TypeAhead` is FALSE,
  by `Attended`: at most one code waits, its request is latched and no request is
  in service. The run `typeahead` shows that the assumption is needed.

* `EchoMatchesAlways`: `Spec /\ []ShellOnScreen => []EchoMatches` for every prompt,
  output and refusal and all keys but ESC and the left arrow (`TypedKeys`), by
  `EchoInv`. `ShellOnScreen` says that no reading starts with the cursor off the
  screen. From there on only the handler moves it until the line ends.
* `ShellOnScreenAlways`: `Spec => []ShellOnScreen` if every command ends in a prompt
  and no prompt fills its last row to the end (`Plain`). Both conditions are needed,
  and the code gives neither: a refusal may end on the last row, and so may a path
  of the length that makes `print_home` end in the last cell. `Placed` says where the
  cursor may be, at the start of a row when the prompt is written. A prompt scrolls
  once a row from there, and its length modulo the row's says where it ends
  (`PromptEnds`); what `WriteString`, a fold over the string, leaves on the screen is
  `WriteStringIs`, by the least prefix that is a counterexample.

Model-checked only: the liveness properties.

## 5. Moving

`Move` adds system call 8 to `Fat32`. `MoveEntry` is the change of the two table
copies, `MoveSource` and `MoveDest` the writes of the tables to the clusters their
slots 0 name, `StartMove` the user's choice of an entry. The shell looks up both
tables afresh before the call and nothing runs in between, so the copies are taken
from the disk. `Moves` says which kinds the user asks for: between separate
directories (`apart`), within one (`same`), or of a directory into itself or below
(`inside`).

| Run | Question | Answer |
|---|---|---|
| `move_crash` | Is the disk consistent wherever a move is cut off, and are clusters lost? | Yes: chains disjoint, files whole (`NoCrossLink`, `FilesWhole`), types kept (`MoveTypeOK`); the entry may be in neither table. No cluster but the last one is lost until the power fails for the first time (`NoLeakWhilePowered`) |
| `move_same` | `user-shell.c:627`, "Move file" | violated: a move within one directory leaves two entries |

**Bounds.** As for the driver. Tables of five slots do not fill up with the entries
four clusters allow. `move_crash` leaves out moves the code gets wrong by design of
the call: `same` duplicates an entry, and `inside` cuts a directory off from the
root; the theorems and the shell's run have them. The specification compares names
and does nothing else with them, so permuting `Names` maps behaviours to
behaviours: `MCMove` gives the symmetry, and the history variable `cut`, which tells
whether the power has ever failed; a call that is cut off does leak what it had in
hand.

**Proved**, in `MoveProofs`, for moves of every kind, tables that lost their own
slot 0 included, and power failures anywhere: `MoveTypeCorrect`, `MoveFatFlushed`
and `MoveCommittedUntouched`. The invariant `MoveInv` is that of `Fat32Proofs`
between calls and during the driver's; between the two table writes it is
`Between`: types hold, no call of the driver is under way and the two FATs agree.

`MoveNoCrossLink` and `MoveFilesWhole` prove, under `Benign` and without the moves
within one directory, `MoveSpec /\ []Room => []NoCrossLink` and the same of
`FilesWhole`. `Room` says that no directory's table is full: a write into a full one
takes slot 0, and a move writes a table to the cluster its slot 0 names. The run
`move_crash` never leaves `Room`. The invariant `TreeMoveInv` is `TreeInv` with every
directory's own entry in place (`OwnEntries`) outside of a move. During one it is
`Transit`: the tables on the disk are a tree (`Sound`), and so are those after each
of the writes to come. `OwnersRelocated` is the reason: the tables after a move
have the owners of those before, but for the one that has moved, and no directory
more.

`MoveNoLeak` proves `MoveSpec /\ []Room => []NoLeak` under `Uncut`: besides `Benign`,
the power stays on and moves are between separate directories. The rest does leak:
a call cut off leaves clusters marked, a directory moved into itself leaves the tree
with its clusters. The invariant `NothingLost` is added to `TreeMoveInv`: a cluster
that memory has in use is the root's, the last one (`Granted`), on an owner's chain
(`OnChain`), or in the hand of the call (`InHand`: what a write has prepared, or what
a delete has yet to clear). During a move the owners counted are those of the tables
as both writes leave them, for in between the entry is in neither. Three lemmas carry
it: `OwnersGained`, the parent's write brings an owner for the prepared chain;
`OwnersLeft`, the start of a delete takes away only the owner whose chain it has in
hand; `OwnersArrive`, after a move every owner is there with the chain it had. TLC
checked `NothingLost` with six clusters over all its states, and with eight over 540
thousand, before it was proved.

## 6. Start-up, inserter and paging

### What corresponds to what

`Paging` is `paging.c`: the page directory as a function from pages to entries,
and the next frame. Addresses count MiB and wrap as a `uint32_t` does, after
`PAGE_ENTRY_COUNT` frames. The test that should refuse compares with 1 MiB, the
address of no frame, and is in the model as `Refused`.

`Boot` has one machine with three stages (`who`). On the `host` the inserter
initialises an empty image (`Start`), writes the shell (`InsertShell`) and saves
the image (`SaveImage`). The `kernel` mounts the disk (`Start` again), maps the
user's page (`AllocateUserPage`), makes its directories and its file
(`MakeExamples`: `setup` is the position in `kernel_setup`), reads the shell and
runs it (`RunShell`). Every call is the driver's own, write by write (`Serve`),
and nothing looks at its answer. `BootPowerFails` takes the machine back to
before `kernel_setup` from anywhere, the shell included, any number of times.

| Run | Question | Answer |
|---|---|---|
| `boot` | Does every boot come to the shell, on a disk that stays consistent, whatever an earlier boot left behind? | Yes: `BootEnds`, `ShellLoaded`, `NoCrossLink`, `FilesWhole`, and a table loses its own entry only when it is full (`SelfEntryKept`) |

The hard-coded clusters 0xF and 0x10 are right for a shell of the size the makefile
builds, on an image with nothing else. That is the case modelled: with
`SHELL_SIZE` = 2, `KANO2_PARENT` = 6 and `DAIJOUBU_PARENT` = 7 are where kano1 and
kano2 come to lie. With the fault `MakeExamplesMisplaced` they are three clusters off,
and files are overwritten.

**Bounds.** 14 clusters and tables of 5 slots: boots go on until the root's table
is full, its slot 0 is replaced, and the disk is full. The power fails anywhere
but in the format and, as nothing is deleted, in deletes. One page is allocated
each boot.

**Fairness.** Weak fairness of `Work`: the kernel runs alone with interrupts off,
so it goes on unless the power fails. No fairness is asked of the power.

**Proved**, in `MachineProofs`. `FramesApartAlways`, for every size of the page
directory and every sequence of up to `PAGE_ENTRY_COUNT` - 1 calls: user pages have
frames of their own and none has the kernel's. `Handed` is inductive: the frames in
use are those up to the number of calls. There is no run for it: what TLC could
enumerate is what the theorem says for all sizes.

`BootNoCrossLink`, `BootFilesWhole`, `ShellLoadedAlways` and `BootSelfEntryKept` state
the four safety properties of the run for every disk, table, shell and number of
boots, the power failing anywhere in them. They assume `Benign` (section 3), of which
only the format can bite, as a boot deletes nothing, and `Fits`: the two hard-coded
clusters lie just behind the shell, where ikanaide, kano1 and kano2
come to lie on a disk without a failure. That is how the makefile's build has it: 22156
bytes of shell are 11 clusters, 3 to 13, and the parents are 15 and 16.

The invariant `BootInv` is `TreeInv` and what makes a hard-coded cluster harmless. The
fear is that after a boot that was cut off they belong to a file, whose block is then
written over by a directory's table. They do not (`FreeOfFiles`), because allocation takes
the lowest free cluster, so that when daijoubu.uwu, the only file a boot writes, is
written, all clusters up to its parent are in use (`OnMachine`, `Full`). The directory
they name need not exist. `OnHost` says what the image is before the shell is on it,
`Mapped` that the shell's page has its frame, `ShellRead` that it holds the shell. TLC
found `BootInv` to hold in all 51233 states of the run before it was proved.

Model-checked only: `BootEnds`, which is liveness.

## 7. The shell

### From a line to words

`Words` is the head of `execute_cmd` and `parse_file_cmd`, byte by byte, because
its properties are about bytes: trimming (`TrimLeft`, one shift a step;
`TrimRight`), one row of `cmd` a round (`SplitWord`), a row that lies outside of
`cmd` (`RunOver`, where the model stops), and one row taken apart into stem and
extension (`ParseFile`). Two things outside of the arrays matter and are those of
the build, by the compiler of the committed `bin/shell_elf` and the makefile's
flags: behind `buf` lies `home`, whose first byte is the `O` of `OSyikkk`
(`Behind`), and `target_ext`, `target_name` and `full_name` lie one behind the
other. Below `buf` the search for a last character stops at the 0x100 pushed for
the last system call.

| Run | Question | Answer |
|---|---|---|
| `words` | Are the rows the words of the line? Is `cmd` large enough? Which names come apart? | Yes, in order, with the number of arguments (`RowsAreTheLine`); only a line of too many rows or a word longer than a row leaves `cmd` (`StaysInside`); names without extension, and with one if the stem has seven or eight characters, in a line of words that fit their rows (`StemAndExtension`); every line is split to its end (`SplitEnds`) |

`RowsAreTheLine` puts the rows together again and compares with the line in a
normal form: one space for several, no slash after a space or at the end. It
leaves out lines with spaces at both ends, whose last ones are not trimmed
(section 9), and lines with zero bytes inside. A word that is longer than its row but stays within
`cmd` is partly written over by the next one, and what is left of it stands behind a
later, shorter one: `StemAndExtension` is asked of lines of words that fit.

**Bounds.** Every buffer of six bytes over a letter, a dot, a slash, a space and
zero; `cmd` of four rows of five bytes, stems of three and extensions of one: words
that fill a row and run over, lines of five rows, stems one and two short of the
limit all fit in six bytes. The code's indices enter by comparison only. A
command's later reading of rows is in `Shell`. **Fairness:** weak fairness of the
loops, which nothing blocks; what a line does to its command is not asked.

**Proved**, in `WordsProofs`, for every length of the buffer and of `cmd`, every line
and whatever lies behind the buffer: `StaysInsideAlways`, `StemAndExtensionAlways`
and `RowsAreTheLineAlways`. The invariant `SplitInv` relates the loop's indices to the
text: `neff` is the number of slashes passed that separate words (`Kept`) and twice
that of such spaces, `cmd_length` that of the spaces, and if words fit, each row in use
holds one word, then zeroes to its end, and the rows behind are zero (`Clean`). So
a round that needs a row past the last one has passed as many separators as the
bound of `StaysInside` counts, which is `RunsOver`. `Round` is what a round does: it
takes a word and keeps of all that follows up to the next word one byte at most. For
names, `Parses` finds the memory that the loop of `parse_file_cmd` leaves after each
byte (`Memory`); it is here that the stem must be long enough for the zero
bytes behind the extension not to reach back over it. What recursive functions and
strings return (`FoldExists`, `StringEnds`) is found by the least counterexample, as in
section 3.

The rows need a second invariant, `TextInv`, which tells the text and not only its
places. While the line is trimmed, the buffer is the line shifted by some spaces, the
byte behind the buffer shifted in after it (`Shifted`); then its text is that of the line
without the spaces around it (`TrimmedText`; where spaces are at both ends, that byte
keeps the last ones from being trimmed, which `Plain` leaves out). From then on the
rows in use, put together, are the bytes passed in normal form, but for a slash just
passed, which is told only with the word behind it (`Told`, `Waiting`); `RoundTold` is
the step of a round.

Model-checked only: `SplitEnds`, which is liveness.

### The commands

`Shell` runs on the machine of `Boot`, with `Move` for system call 8: the tree is
the one `kernel_setup` makes, and each call is the driver's, write by write. A name
and a word are pairs of stem and extension (`Typed` and `Parsed` say what the code
makes of a word for `cd` and `mkdir`, and for files), a line is a command and the
words of its paths.

| Code | Actions and operators |
|---|---|
| `change_directory`, the loops over a path | `ChangeDirectory`, `Walk` |
| the listing of the directory the shell is in | `Listed` |
| the copies of the stack, put back after a command | `Type` (saved), `Restore` |
| mkdir, cat, rm | `MakeDirectoryCommand`, `CatCommand`, `RemoveCommand` |
| cp, `copy_folder`, `copy_file` | `CopyCommand`; `CopyFolder`, `EnterCopy`, `LeaveCopy` on `frames`, the activations of the recursion; `CopyFile`, `WriteCopy` |
| mv | `FindSource`, `MoveCommand`, `GiveUp` for its early returns |
| whereis | `WhereIs`, which writes nothing, as a function of the state |

The shell is the only process and the driver the only other code, so what it reads
between two calls that write belongs to one step. A table that could not be read is
whatever the stack held (`Garbage`: any directory's, or zeroes), and cp's
`filesize`, never initialised, keeps what the last cp left.

| Run | Question | Answer |
|---|---|---|
| `shell` | What can four lines do to the tree and to the shell's idea of it? | Every command ends (`CommandsEnd`) and comes back where it was typed (`StackKept`) but for mv's early returns; the stack goes stale only by a line with `..` (`StackGoesStaleUpwards`), and until then all writes go to directories that are linked (`WritesLiveDirectories`); a directory that cp copies without a refusal is the same tree (`TreeCopied`); whereis misses nothing as long as names differ and slot 0 is a directory's own (`WhereIsComplete`) |

**Bounds.** Four lines of sixteen (`MCShell`): paths that are not found, `..` and
`.`, removal and moving of the directory the shell is in, a move into the directory
itself, copies of trees, of files, and of a directory below itself, a file's word
with a short stem. 17 clusters leave a copy room to succeed and a copy below itself
room to fail; six slots hold the entries four lines make, and fill up in the root.
The power does not fail here: `crash` and `move_crash` have every call cut off.
The user need not type, and after four lines does not: `CHECK_DEADLOCK FALSE`.

**Fairness.** Weak fairness of `Execute`: the shell is the only program. None of
`Type`.

**Proved**, in `MachineProofs`: `StackKeptAlways`, for every set of lines, every tree
and whatever the driver answers. The invariant is that the copy equals the stack as
it was when the line was typed (`Copied`); cp and mv make the copy twice, the second
time from what they have just restored, which the model has as one.

`where_is` takes no care to end: it goes down by name, from the path it has so far, so a
name that two entries share, or a table reached twice, would lead it in circles. That it
ends and misses nothing is the tree's doing, and is proved of every disk whose tree is
sound: that of `Fat32` (`WhereIsCompleteAlways`), of `Boot` (`BootWhereIsComplete`) and
of `Move` (`MoveWhereIsComplete`), from the tree invariants of sections 3, 5 and 6.
The recursive function has a solution whatever the tables hold, the least one
(`PrintedExists`). Any solution prints every directory, because a path that leads to
a directory (`Leads`) goes on to each one in it; and no other, because a cluster that
is printed without reason would be passed on to one directory after the other: a set of
directories with the root, each with one below it in the set. In a tree these are all
different and none is the root, which a finite set has no room for (`NoWayDown`).
Proving it showed what `WhereIsComplete` has to assume, and no run of these bounds comes
to: that the root still has its own entry, by whose name it is listed, and that no other
directory is in a slot 0, where `where_is` does not look. A write into a full table
breaks both.

Left to TLC: `TreeCopied`, which compares what a recursive walk has written over many
calls with what it has read; `StackGoesStaleUpwards` and `WritesLiveDirectories`, which
are about lines the proof would have to follow from path to path, and not true of any
number of lines: once mv has doubled a directory within its own parent and has moved one
of the two into the other, a path may go round a circle, and a line without `..` takes
away what it came by; and `CommandsEnd`, which is liveness.

## 8. Not modelled

* Descriptor tables, the TSS and the assembly of the loader and of the interrupt
  stubs: constants and single instructions. Memory and port primitives: loops of
  bytes without state, used as assignments.
* The RTC driver: no target of the makefile builds it.
* The handshake with the disk controller (`disk.c:4-10`) and its registers. The
  order of a cluster's blocks is in section 3.
* The inserter's arguments and files on the host, and inserting twice.
* ls, echo, help, clear and the messages: they write to the screen, which is
  section 4, and change nothing else.
* Requests for less than a cluster, which no caller makes.
* What a line that runs over `cmd` does to the variables behind it.

## 9. Other disagreements met

Found while modelling, besides the runs that are violated, and not kept as runs:

* `read()` of a directory's name succeeds when the buffer holds a cluster;
  `fat32.h:228` says 1, not a file. It is one of the three calls of `Departure`.
* `write()` refuses a mkdir for which the last cluster is the free one, and leaves
  its cell marked (`fat32.c:291`); `fat32.c:292` says "Full file allocation table
  error".
* `delete()` answers -1 to a name that is not there; `fat32.h:245` says 1. The codes
  of refusals are not told apart by `FileStore`.
* `init_directory_table()` is given the directory's own cluster (`fat32.c:297`);
  `fat32.h:161` says parent's.
* With shift or caps lock Enter writes '?' and does not end the line
  (`keyboard.c:35`); `keyboard.h:80` says it stops the processing.
* Keys mapped to 0 are echoed and stored (`keyboard.c:110`); `keyboard.h:79` says
  printable characters only.
* `framebuffer_write_string()` scrolls once where the cursor is two rows below the
  screen: after output that ends in a newline on the last row the prompt loses its
  first character (`framebuffer.c:59`).
* After a refusal whose text ends in a newline on the last row, or fills it, and
  after a prompt that ends in the last cell, keys are echoed below the screen
  (`keyboard.c:106`): `ShellOnScreen` is what fails.
* After a path that is not found a command goes on where the walk stopped
  (`user-shell.c:107`): in d, `mkdir kano1/d` makes d/d; `user-shell.c:710` says
  "mkdir file in relative path". An early return of mv leaves the shell where its
  path led (`user-shell.c:1137`).
* A line with spaces at both ends keeps its last ones (`user-shell.c:528`: the byte
  behind the buffer comes in); `user-shell.c:531` says "remove space in the last
  character". An empty word, as in `cd a//b` or `cp a/ b`, ends the loops over a
  path early.
* `parse_file_cmd()` writes the zero bytes behind an extension over a stem of six
  characters or fewer (`user-shell.c:518`), so that `nigel.exe`, its own example
  (`user-shell.c:477`), does not come apart; cat, rm, cp and mv do not find `a.txt`;
  `user-shell.c:617` says "cat <filename> - Print file content".
* cat and cp look for the stem only, among free slots too, and take the size of the
  first match (`user-shell.c:831`). cp of a file alone uses the size an earlier cp
  left, or none (`user-shell.c:967`, `1040`); `user-shell.c:625` says "Copy file".
* In a directory with a child of its own name, cd does not reach the child, whereis
  calls itself for ever, and cp copies the parent (`user-shell.c:338`).
* cp of a path without a destination looks for a space row behind the words
  (`user-shell.c:911`); `DIR_STACK_LENGTH` is a `uint8_t` for a stack of 256.
* Each boot adds two directories to the root, found or not (`kernel.c:55-122`);
  after some thirty the root's own entry is replaced. Without a shell the kernel
  jumps into an empty page (`kernel.c:127`).
* The page-frame allocator never refuses (`paging.c:35`).
* `ATA_DRQ_wait()` waits for the ready bit (`disk.c:9`).
