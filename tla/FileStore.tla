----------------------------- MODULE FileStore -----------------------------
(***************************************************************************)
(* What fat32.h promises the callers of the driver: a tree of directories, *)
(* each a row of slots, in which a call takes effect at once or not at all *)
(* and nothing that took effect is lost when the power is.  It knows       *)
(* nothing of clusters, of the FAT or of the order of disk writes.  Which  *)
(* of its error codes a refusal gives is left open.                        *)
(*                                                                         *)
(* A directory is known by a handle.  It holds its own handle in slot 0.   *)
(*                                                                         *)
(* Spec is the promise.  Three calls that it refuses are granted by the    *)
(* driver; they are the Departure, and DriverSpec is Spec with them.       *)
(***************************************************************************)
EXTENDS Integers, FiniteSets, Sequences

CONSTANTS Handles, Root, TableSlots, Names, NoName, RootName, Payloads, Lengths, Pending

VARIABLES
    dirs,      \* the live directories: handle -> slot -> item
    removing,  \* has a removal taken effect that is not yet answered?
    answer     \* what the last call returned

vars == <<dirs, removing, answer>>

Slot == 0 .. TableSlots - 1
None == [name |-> NoName, kind |-> "none", ref |-> 0, content |-> <<>>]
Folder(n, h)  == [name |-> n, kind |-> "dir", ref |-> h, content |-> <<>>]
File(n, p, k) == [name |-> n, kind |-> "file", ref |-> 0, content |-> [i \in 1 .. k |-> <<p, i>>]]

NewDirectory(n, h) == [s \in Slot |-> IF s = 0 THEN Folder(n, h) ELSE None]

\* The directories that hang from the root: those in each set that has the root
\* and what its members link.  The tree without the others.
Hanging(t) ==
    {h \in DOMAIN t :
        \A S \in SUBSET DOMAIN t :
           /\ Root \in S
           /\ \A d \in S, s \in Slot : t[d][s].kind = "dir" => t[d][s].ref \in S
           => h \in S}
Prune(t) == [h \in Hanging(t) |-> t[h]]

\* The slot a write takes: the first that is empty, or slot 0 if none is.
HasRoom(d)  == \E s \in Slot : dirs[d][s] = None
Takes(d, s) ==
    \/ dirs[d][s] = None /\ \A r \in Slot : r < s => dirs[d][r] # None
    \/ s = 0 /\ ~HasRoom(d)

\* "file/folder already exist" (fat32.h:236)
Exists(d, n) == \E s \in Slot \ {0} : dirs[d][s].name = n

\* The first slot of that name is s.  Listing passes over files.
FirstNamed(d, n, s) ==
    /\ s # 0 /\ dirs[d][s].name = n
    /\ \A r \in Slot \ {0} : dirs[d][r].name = n => s <= r
FirstFolder(d, n, s) ==
    /\ dirs[d][s].name = n /\ dirs[d][s].kind = "dir"
    /\ \A r \in Slot : dirs[d][r].name = n /\ dirs[d][r].kind = "dir" => s <= r

Says(code) == answer' = [code |-> code, blocks |-> <<>>, listed |-> 0]

Init ==
    /\ dirs = [h \in {Root} |-> NewDirectory(RootName, Root)]
    /\ removing = FALSE
    /\ answer = [code |-> Pending, blocks |-> <<>>, listed |-> 0]

MakeFolder(d, n) ==
    /\ Says(0) /\ UNCHANGED removing
    /\ \E h \in Handles \ DOMAIN dirs, s \in Slot :
          /\ Takes(d, s)
          /\ LET grown == [x \in DOMAIN dirs \cup {h} |->
                             IF x = h THEN NewDirectory(n, h) ELSE dirs[x]]
             IN  dirs' = Prune([grown EXCEPT ![d][s] = Folder(n, h)])

MakeFile(d, n, k, p) ==
    /\ Says(0) /\ UNCHANGED removing
    /\ \E s \in Slot :
          /\ Takes(d, s)
          /\ dirs' = Prune([dirs EXCEPT ![d][s] = File(n, p, k)])

\* The item is gone; the call that removed it returns later.
Remove(d, n) ==
    /\ Says(Pending) /\ removing' = TRUE
    /\ \E s \in Slot :
          /\ FirstNamed(d, n, s)
          /\ dirs[d][s].kind = "dir" =>
                \A r \in Slot \ {0} : dirs[dirs[d][s].ref][r] = None
          /\ dirs' = Prune([dirs EXCEPT ![d][s] = None])

Acknowledge ==
    /\ removing /\ removing' = FALSE
    /\ Says(0) /\ UNCHANGED dirs

ReadFile(d, n, size) ==
    \E s \in Slot :
       /\ FirstNamed(d, n, s) /\ dirs[d][s].kind = "file"
       /\ LET c == dirs[d][s].content
          IN  IF Len(c) > size THEN Says(2)
              ELSE answer' = [code |-> 0, listed |-> 0, blocks |->
                                [i \in 1 .. size |-> IF i <= Len(c) THEN c[i] ELSE <<>>]]
       /\ UNCHANGED <<dirs, removing>>

\* A folder is one cluster, and has no content of a file.
ReadFolder(d, n, size) ==
    \E s \in Slot :
       /\ FirstNamed(d, n, s) /\ dirs[d][s].kind = "dir"
       /\ answer' = [code |-> 0, listed |-> 0, blocks |-> [i \in 1 .. size |-> <<>>]]
       /\ UNCHANGED <<dirs, removing>>

List(d, n) ==
    \E s \in Slot :
       /\ FirstFolder(d, n, s)
       /\ answer' = [code |-> 0, blocks |-> <<>>, listed |-> dirs[d][s].ref]
       /\ UNCHANGED <<dirs, removing>>

\* A call refused, and a call begun or cut off by the loss of power: no trace.
Refuse == /\ ~removing
          /\ \E code \in {-1, 1, 2, 3} : Says(code)
          /\ UNCHANGED <<dirs, removing>>
Begin  == ~removing /\ Says(Pending) /\ UNCHANGED <<dirs, removing>>

Make(d, n) == MakeFolder(d, n) \/ \E k \in Lengths, p \in Payloads : MakeFile(d, n, k, p)

Granted(d, n) ==
    \/ ~Exists(d, n) /\ HasRoom(d) /\ Make(d, n)
    \/ Remove(d, n)
    \/ \E k \in Lengths : ReadFile(d, n, k)
    \/ List(d, n)

\* A second entry of a name, an entry in the place of a directory's own, and a
\* folder read as if it were a file (fat32.h:228 has a code for "not a file").
Departs(d, n) ==
    \/ Exists(d, n) /\ Make(d, n)
    \/ ~HasRoom(d) /\ Make(d, n)
    \/ \E k \in Lengths : ReadFolder(d, n, k)

AnyName == Names \cup {RootName}
Next ==
    \/ Acknowledge \/ Refuse \/ Begin
    \/ ~removing /\ \E d \in DOMAIN dirs, n \in AnyName : Granted(d, n)
Departure == ~removing /\ \E d \in DOMAIN dirs, n \in AnyName : Departs(d, n)

Spec       == Init /\ [][Next]_vars
DriverNext == Next \/ Departure
DriverSpec == Init /\ [][DriverNext]_vars
=============================================================================
