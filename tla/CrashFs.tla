------------------------------- MODULE CrashFs -------------------------------
(***************************************************************************)
(* What the repository assumes of the kernel and the disk: a directory has *)
(* the entries programs see now, and the entries a power failure may leave *)
(* behind.  Directory operations reach the disk in the order they were     *)
(* issued but at no particular time, so a power failure leaves the entries *)
(* as they were after any operation since the last fsync of THAT           *)
(* directory; fsync leaves only the present ones.  Directories are         *)
(* independent of each other, which is all POSIX gives and what the code's *)
(* separate fsync of every parent directory presumes.                      *)
(***************************************************************************)

(* A directory whose entries v are on disk, and nothing else. *)
Fresh(v) == [now |-> v, disk |-> {v}]

(* link, unlink, rename, mkdir, rmdir, fchmod: visible at once, durable
   later. *)
Put(d, v) == [now |-> v, disk |-> d.disk \cup {v}]

(* fsync of the directory. *)
Sync(d) == Fresh(d.now)

(* What the directory may be after a power failure. *)
AfterLoss(d) == {Fresh(v) : v \in d.disk}

(* The directories whose entries range over V. *)
DirOf(V) == [now : V, disk : SUBSET V]
==============================================================================
