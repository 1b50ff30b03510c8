------------------------------- MODULE Disks -------------------------------
(***************************************************************************)
(* Volumes (volumes.rs) and the disks of sandboxes (block_device.rs).      *)
(*                                                                         *)
(* A volume is an image and a file of metadata, made and removed one after *)
(* the other.  A sandbox's disk is a file, or the directories of an overlay*)
(* and a mount.  Everything is synchronous: other threads, and a crash,    *)
(* come between two accesses to the file system.                           *)
(***************************************************************************)
EXTENDS Integers, FiniteSets

CONSTANTS
    Volumes,    \* ids of volumes, each made once
    Clerks,     \* threads that work on volumes
    Owners,     \* ids of sandboxes that want a disk
    DiskFaults  \* bound: operations that fail or are cut off by a crash

ASSUME DiskAssumption == DiskFaults \in Nat /\ IsFiniteSet(Volumes) /\ IsFiniteSet(Owners)

VARIABLES
    volume,     \* the image and the metadata of each volume
    clerk,      \* what each clerk is in the middle of
    disk,       \* what is there of each sandbox's disk
    backend,    \* how the disk of each sandbox is made
    handed,     \* the sandboxes whose disk its creator was told of
    breakages   \* operations that failed or were cut off, at most DiskFaults

diskVars == <<volume, clerk, disk, backend, handed, breakages>>

NoWork == [pc |-> "idle", volume |-> "none"]

DisksInit ==
    /\ volume = [v \in Volumes |-> [image |-> FALSE, meta |-> "none", used |-> FALSE]]
    /\ clerk = [k \in Clerks |-> NoWork]
    /\ disk = [o \in Owners |-> {}]
    /\ backend \in [Owners -> {"flat", "sparse", "cow"}]
    /\ handed = {}
    /\ breakages = 0

Breaks(n) == breakages + n <= DiskFaults /\ breakages' = breakages + n
Break == Breaks(1)

Work(k, pc, v) == clerk' = [clerk EXCEPT ![k] = [pc |-> pc, volume |-> v]]
Done(k) == clerk' = [clerk EXCEPT ![k] = NoWork]

-----------------------------------------------------------------------------
(* Volumes *)

\* An image of the wanted size, or else an empty one, formatted or not.
CreateVolume(k, v) ==
    /\ clerk[k].pc = "idle" /\ ~ volume[v].used
    /\ \/ /\ volume' = [volume EXCEPT ![v] = [@ EXCEPT !.image = TRUE, !.used = TRUE]]
          /\ Work(k, "describe", v)
          /\ UNCHANGED breakages
       \/ /\ Break
          /\ \E made \in BOOLEAN :
                volume' = [volume EXCEPT ![v] = [@ EXCEPT !.image = made, !.used = TRUE]]
          /\ UNCHANGED clerk
    /\ UNCHANGED <<disk, backend, handed>>

\* write_meta; what a failing write leaves cannot be parsed.
Describe(k) ==
    LET v == clerk[k].volume IN
    /\ clerk[k].pc = "describe"
    /\ \/ volume' = [volume EXCEPT ![v].meta = "good"] /\ UNCHANGED breakages
       \/ /\ Break
          /\ \E m \in {"none", "torn"} : volume' = [volume EXCEPT ![v].meta = m]
    /\ Done(k)
    /\ UNCHANGED <<disk, backend, handed>>

\* A volume is known from its creation, or from a listing, which skips torn metadata.
\* Each file is looked for and then removed; another clerk may have been faster.
Detach(k, v) ==
    /\ clerk[k].pc = "idle"
    /\ volume[v].used /\ \A l \in Clerks : clerk[l].volume = v => clerk[l].pc # "describe"
    /\ Work(k, IF volume[v].meta # "none" THEN "unlist" ELSE "look", v)
    /\ UNCHANGED <<volume, disk, backend, handed, breakages>>

RemoveMeta(k) ==
    LET v == clerk[k].volume IN
    /\ clerk[k].pc = "unlist"
    /\ \/ /\ volume[v].meta # "none"
          /\ volume' = [volume EXCEPT ![v].meta = "none"]
          /\ Work(k, "look", v)
          /\ UNCHANGED breakages
       \/ volume[v].meta = "none" /\ Done(k) /\ UNCHANGED <<volume, breakages>>
       \/ Break /\ Done(k) /\ UNCHANGED volume
    /\ UNCHANGED <<disk, backend, handed>>

LookForImage(k) ==
    LET v == clerk[k].volume IN
    /\ clerk[k].pc = "look"
    /\ IF volume[v].image THEN Work(k, "remove", v) ELSE Done(k)
    /\ UNCHANGED <<volume, disk, backend, handed, breakages>>

RemoveImage(k) ==
    /\ clerk[k].pc = "remove"
    /\ \/ volume' = [volume EXCEPT ![clerk[k].volume].image = FALSE] /\ UNCHANGED breakages
       \/ Break /\ UNCHANGED volume
    /\ Done(k)
    /\ UNCHANGED <<disk, backend, handed>>

\* The process dies; a file being written is cut short.
CrashClerks ==
    /\ Breaks(Cardinality({k \in Clerks : clerk[k].pc # "idle"}))
    /\ clerk' = [k \in Clerks |-> NoWork]
    /\ \E torn \in SUBSET {clerk[k].volume : k \in {l \in Clerks : clerk[l].pc = "describe"}} :
          volume' = [v \in Volumes |-> IF v \in torn THEN [volume[v] EXCEPT !.meta = "torn"]
                                       ELSE volume[v]]
    /\ UNCHANGED <<disk, backend, handed>>

-----------------------------------------------------------------------------
(* Disks of sandboxes *)

Make(o, parts) == disk' = [disk EXCEPT ![o] = parts]

\* dd is given the number of blocks as an operand it does not know, and always fails
\* before it makes the file.  The fallback of a sparse file fails with it.
CreateDisk(o) ==
    /\ o \notin handed
    /\ \/ backend[o] = "flat" /\ UNCHANGED <<disk, handed, breakages>>
       \/ /\ backend[o] = "sparse"
          /\ \/ Make(o, {"file"}) /\ handed' = handed \cup {o} /\ UNCHANGED breakages
             \/ /\ Break
                /\ \E parts \in {disk[o], {"file"}} : Make(o, parts)
                /\ UNCHANGED handed
       \/ /\ backend[o] = "cow"
          /\ \/ Make(o, {"dirs", "mount"}) /\ handed' = handed \cup {o} /\ UNCHANGED breakages
             \/ Break /\ Make(o, disk[o] \cup {"dirs"}) /\ UNCHANGED handed
    /\ UNCHANGED <<volume, clerk, backend>>

\* Only the removal of a file can fail; nothing looks at what happens to an overlay.
DestroyDisk(o) ==
    /\ o \in handed
    /\ \/ Make(o, {}) /\ handed' = handed \ {o} /\ UNCHANGED breakages
       \/ /\ Break
          /\ IF backend[o] = "cow"
             THEN handed' = handed \ {o} /\ \E parts \in SUBSET disk[o] : Make(o, parts)
             ELSE UNCHANGED <<handed, disk>>
    /\ UNCHANGED <<volume, clerk, backend>>

DisksNext ==
    \/ \E k \in Clerks, v \in Volumes : CreateVolume(k, v) \/ Detach(k, v)
    \/ \E k \in Clerks : Describe(k) \/ RemoveMeta(k) \/ LookForImage(k) \/ RemoveImage(k)
    \/ CrashClerks
    \/ \E o \in Owners : CreateDisk(o) \/ DestroyDisk(o)

-----------------------------------------------------------------------------

\* The types of the files of volumes.rs and block_device.rs.
DisksTypeOK ==
    /\ volume \in [Volumes -> [image : BOOLEAN, meta : {"none", "torn", "good"}, used : BOOLEAN]]
    /\ \A k \in Clerks : clerk[k].pc \in {"idle", "describe", "unlist", "look", "remove"}
    /\ disk \in [Owners -> SUBSET {"file", "dirs", "mount"}]
    /\ handed \subseteq Owners
    /\ breakages \in 0 .. DiskFaults

\* Files nobody can find: images without metadata that can be read, that no clerk is
\* working on, and disks that nobody was told of.
Strays ==
    {v \in Volumes : /\ volume[v].image /\ volume[v].meta # "good"
                     /\ \A k \in Clerks : clerk[k].volume # v}
    \cup {o \in Owners : disk[o] # {} /\ o \notin handed}

\* VolumeManager and BlockDeviceManager: a volume that can be listed has its image, and
\* every stray is somebody's failure.
DisksAccountedFor ==
    /\ \A v \in Volumes : volume[v].meta # "none" => volume[v].image
    /\ Cardinality(Strays) <= breakages
=============================================================================
