-------------------------------- MODULE Move --------------------------------
(***************************************************************************)
(* System call 8, "mv" (src/src/interrupt/interrupt.c), on the disk of     *)
(* Fat32.  The shell hands over copies of two directory tables and an      *)
(* index in the first; the kernel moves the entry between the copies and   *)
(* writes both back, each to the cluster its own slot 0 names.  Nothing    *)
(* runs between the shell's reading of the tables and the call but the     *)
(* shell itself, so the copies are what the disk has.                      *)
(***************************************************************************)
EXTENDS Fat32Properties

CONSTANTS
    Moves,     \* what the user moves: see Kind
    MoveCut    \* may the power fail during a move?

ASSUME MoveAssumption == Moves \subseteq {"apart", "same", "inside"} /\ MoveCut \in BOOLEAN

VARIABLE move  \* the local variables of the call: two tables and their clusters

NoMove == [src |-> EmptyTable, dest |-> EmptyTable, from |-> 0, to |-> 0]
moveVars == <<vars, move>>

\* Fault: the entry's attributes are cleared, its name is not.
TakenKeepsName(t, i) == [t EXCEPT ![i].attribute = "none"]
Taken(t, i)          == [t EXCEPT ![i] = FreeEntry]

\* Between different directories, within one, or of a directory into itself or
\* below: the directories no longer linked from the root are those below it.
Kind(s, d, i) ==
    IF s = d THEN "same"
    ELSE IF d \notin Directories([table EXCEPT ![s] = Taken(@, i)]) THEN "inside"
    ELSE "apart"

\* The shell takes the last entry of that name (src_idx).
LastMatch(t, n, i) == i \in Matches(t, n) /\ \A r \in Matches(t, n) : r <= i

\* The first free slot of the destination after slot 0.
TakesFree(t, k) == k # 0 /\ ~Used(t[k]) /\ \A r \in Slot \ {0} : r < k => Used(t[r])

\* Fault: the destination's cluster is taken from its first entry.
HandSlotOne(src, dest) ==
    move' = [src |-> src, dest |-> dest, from |-> src[0].cluster, to |-> dest[1].cluster]

Hand(src, dest) ==
    move' = [src |-> src, dest |-> dest, from |-> src[0].cluster, to |-> dest[0].cluster]

\* The call with copies of the tables of s and d and the index i.  A full
\* destination: nothing is moved, both tables are written as they are.
MoveEntry(s, d, i) ==
    /\ pc = "idle"
    /\ \/ \E k \in Slot :
             /\ TakesFree(table[d], k)
             /\ Hand(Taken(table[s], i), [table[d] EXCEPT ![k] = table[s][i]])
       \/ /\ \A k \in Slot \ {0} : Used(table[d][k])
          /\ Hand(table[s], table[d])
    /\ pc' = "move_src"
    /\ UNCHANGED <<disk, fat, call, out>>

StartMove(s, d, n) ==
    \E i \in Slot :
       /\ LastMatch(table[s], n, i) /\ Kind(s, d, i) \in Moves
       /\ MoveEntry(s, d, i)

\* write_clusters() of a table to the cluster its slot 0 names: the boot sector
\* when slot 0 is free.
WriteBack(c, t) ==
    /\ signature' = (signature /\ c # 0)
    /\ table' = [x \in Cluster |-> IF x = c THEN t ELSE table[x]]
    /\ data' = [x \in Cluster |-> IF x = c THEN NoBlock ELSE data[x]]

\* Faults: one of the two tables is not written.
MoveSourceSkipped ==
    /\ pc = "move_src" /\ pc' = "move_dest"
    /\ UNCHANGED <<disk, fat, call, out, move>>
MoveDestSkipped ==
    /\ pc = "move_dest" /\ pc' = "idle"
    /\ move' = NoMove
    /\ UNCHANGED <<disk, fat, call, out>>

MoveSource ==
    /\ pc = "move_src"
    /\ WriteBack(move.from, move.src)
    /\ pc' = "move_dest"
    /\ UNCHANGED <<diskFat, fat, call, out, move>>

MoveDest ==
    /\ pc = "move_dest"
    /\ WriteBack(move.to, move.dest)
    /\ pc' = "idle"
    /\ move' = NoMove
    /\ UNCHANGED <<diskFat, fat, call, out>>

MovePowerFails ==
    /\ pc \in {"move_src", "move_dest"} /\ MoveCut
    /\ fat' = EmptyFat
    /\ pc' = "off"
    /\ out' = Answer(Pending)
    /\ move' = NoMove
    /\ UNCHANGED <<disk, call>>

MoveInit == Init /\ move = NoMove
MoveNext ==
    \/ Next /\ UNCHANGED move
    \/ \E s, d \in Directories(table), n \in Names : StartMove(s, d, n)
    \/ MoveSource \/ MoveDest \/ MovePowerFails
MoveSpec == MoveInit /\ [][MoveNext]_moveVars

(***************************************************************************)
(* Properties.  NoCrossLink, FilesWhole and NoLeak of Fat32Properties are  *)
(* asked again, now with moves among the calls: an entry on its way is in  *)
(* neither table, never in both, and when the call returns it is in one.   *)
(***************************************************************************)
\* Types, also while tables are on their way and after one was written to a
\* cluster that was not its own.
MoveTypeOK ==
    /\ move \in [src : Table, dest : Table, from : {0} \cup Cluster, to : {0} \cup Cluster]
    /\ pc \in {"move_src", "move_dest"} \/ TypeOK

\* "mv <filename/dirname> <dirname> - Move file" (the shell's help,
\* user-shell.c:627): what has been moved is in one place.
InOnePlace ==
    pc = "idle" => \A o1, o2 \in Owners(table) : EntryOf(o1).cluster = EntryOf(o2).cluster => o1 = o2
=============================================================================
