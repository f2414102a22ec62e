------------------------------ MODULE FuseGuard ------------------------------
(***************************************************************************)
(* FuseGuard of crates/sharecli-core/src/fuse_guard.rs: the intercept      *)
(* mount a cache miss puts over its working directory.                     *)
(*                                                                         *)
(* try_mount makes a temporary mountpoint, writes a readiness marker into  *)
(* the working directory (its name holds only the process id), starts the  *)
(* mount on a thread and polls for the marker THROUGH the mountpoint.      *)
(* When it gives up, and when the guard is dropped, it unmounts, removes   *)
(* the marker and then removes the mountpoint with everything below it     *)
(* (TempDir's destructor).                                                 *)
(***************************************************************************)
EXTENDS Naturals

CONSTANTS
    Runs,           \* guards of one process
    Dirs,           \* working directories
    Backing,        \* [Runs -> Dirs]
    Timeout         \* FUSE_READY_TIMEOUT / FUSE_READY_POLL, in polls

ASSUME FuseGuardAssumption ==
    /\ Backing \in [Runs -> Dirs]
    /\ Timeout \in Nat \ {0}

VARIABLES
    gpc,        \* where each guard is: polling, in use, or at a step of its end
    mnt,        \* its mount thread: "none", "starting", "up" or "failed"
    marker,     \* directories that hold the readiness marker of this process
    polls,      \* polls made so far
    late,       \* history: guards whose mount came up after the poll gave up
    ruined      \* directories whose files were removed through a mount

vars == <<gpc, mnt, marker, polls, late, ruined>>

GuardTypeOK ==
    /\ gpc \in [Runs -> {"idle", "poll", "mounted", "noop", "unmount", "unmark", "rmdir"}]
    /\ mnt \in [Runs -> {"none", "starting", "up", "failed"}]
    /\ marker \subseteq Dirs
    /\ polls \in [Runs -> 0..Timeout]
    /\ late \subseteq Runs
    /\ ruined \subseteq Dirs

GuardInit ==
    /\ gpc = [r \in Runs |-> "idle"]
    /\ mnt = [r \in Runs |-> "none"]
    /\ marker = {}
    /\ polls = [r \in Runs |-> 0]
    /\ late = {}
    /\ ruined = {}

GuardTo(r, l) == gpc' = [gpc EXCEPT ![r] = l]

\* try_mount: tempdir, marker, mount thread.
TryMount(r) ==
    /\ gpc[r] = "idle"
    /\ GuardTo(r, "poll")
    /\ mnt'    = [mnt EXCEPT ![r] = "starting"]
    /\ marker' = marker \cup {Backing[r]}
    /\ UNCHANGED <<polls, late, ruined>>

\* The temporary directory or the marker cannot be made: a no-op guard.
TryMountErr(r) ==
    /\ gpc[r] = "idle"
    /\ GuardTo(r, "noop")
    /\ UNCHANGED <<mnt, marker, polls, late, ruined>>

\* External: the mount thread gets its mount up, or reports a failure.
MountThread(r) ==
    /\ mnt[r] = "starting"
    /\ \/ /\ mnt' = [mnt EXCEPT ![r] = "up"]
          /\ late' = IF gpc[r] # "poll" THEN late \cup {r} ELSE late
       \/ mnt' = [mnt EXCEPT ![r] = "failed"] /\ UNCHANGED late
    /\ UNCHANGED <<gpc, marker, polls, ruined>>

Poll_Unbounded(r) ==
    /\ gpc[r] = "poll"
    /\ \/ mnt[r] = "up" /\ Backing[r] \in marker /\ GuardTo(r, "mounted")
       \/ mnt[r] = "failed" /\ GuardTo(r, "unmount")
    /\ polls' = [polls EXCEPT ![r] = 0]
    /\ UNCHANGED <<mnt, marker, late, ruined>>

\* wait_fuse_mount_ready: the marker is readable through the mountpoint, or
\* the thread reported an error, or another poll, or the polls are used up.
Poll(r) ==
    LET ready == mnt[r] = "up" /\ Backing[r] \in marker IN
    /\ gpc[r] = "poll"
    /\ \/ /\ polls[r] < Timeout /\ ready
          /\ GuardTo(r, "mounted") /\ polls' = [polls EXCEPT ![r] = 0]
       \/ /\ polls[r] = Timeout \/ (~ready /\ mnt[r] = "failed")
          /\ GuardTo(r, "unmount") /\ polls' = [polls EXCEPT ![r] = 0]
       \/ /\ polls[r] < Timeout /\ ~ready /\ mnt[r] # "failed"
          /\ polls' = [polls EXCEPT ![r] = @ + 1] /\ UNCHANGED gpc
    /\ UNCHANGED <<mnt, marker, late, ruined>>

\* The run is over: the guard is dropped.
Drop(r) ==
    /\ gpc[r] \in {"mounted", "noop"}
    /\ GuardTo(r, IF gpc[r] = "mounted" THEN "unmount" ELSE "idle")
    /\ UNCHANGED <<mnt, marker, polls, late, ruined>>

Unmount_Skipped(r) ==
    /\ gpc[r] = "unmount"
    /\ GuardTo(r, "unmark")
    /\ UNCHANGED <<mnt, marker, polls, late, ruined>>

\* fusermount -uz / umount: takes a mount that is up down, and does nothing
\* about one that is still starting.  Its exit status is ignored.
Unmount(r) ==
    /\ gpc[r] = "unmount"
    /\ GuardTo(r, "unmark")
    /\ mnt' = [mnt EXCEPT ![r] = IF @ = "up" THEN "none" ELSE @]
    /\ UNCHANGED <<marker, polls, late, ruined>>

Unmark_Skipped(r) ==
    /\ gpc[r] = "unmark"
    /\ GuardTo(r, "rmdir")
    /\ UNCHANGED <<mnt, marker, polls, late, ruined>>

Unmark(r) ==
    /\ gpc[r] = "unmark"
    /\ GuardTo(r, "rmdir")
    /\ marker' = marker \ {Backing[r]}
    /\ UNCHANGED <<mnt, polls, late, ruined>>

\* TempDir's destructor removes the mountpoint recursively: if a mount is up
\* there, that removes the files of the working directory it mirrors.
RemoveMountpoint(r) ==
    /\ gpc[r] = "rmdir"
    /\ GuardTo(r, "idle")
    /\ ruined' = IF mnt[r] = "up" THEN ruined \cup {Backing[r]} ELSE ruined
    /\ mnt'    = [mnt EXCEPT ![r] = "none"]
    /\ UNCHANGED <<marker, polls, late>>

GuardStep(r) ==
    \/ Poll(r) \/ Unmount(r) \/ Unmark(r) \/ RemoveMountpoint(r)

GuardNext ==
    \E r \in Runs : \/ TryMount(r) \/ TryMountErr(r) \/ MountThread(r)
                    \/ GuardStep(r) \/ Drop(r)

GuardSpec ==
    GuardInit /\ [][GuardNext]_vars /\ \A r \in Runs : WF_vars(GuardStep(r))
-----------------------------------------------------------------------------
\* When no guard is active no marker is left in a working directory.
NoMarkerLeft == (\A r \in Runs : gpc[r] = "idle") => marker = {}

\* Taking a guard down leaves the user's files alone: the mountpoint is empty
\* when it is removed (fuse_guard.rs:213-214 "removes the now-empty
\* mountpoint directory").  It does not hold: a mount that comes up after the
\* unmount breaks it, and RuinedOnlyByLateMount says that nothing else does.
BackingIntact == ruined = {}

\* The only files ever lost are those below a mount that came up after the
\* readiness poll had given up on it.
RuinedOnlyByLateMount == ruined \subseteq {Backing[r] : r \in late}

\* try_mount always comes back, whatever the mount thread does.
TryMountReturns == \A r \in Runs : gpc[r] = "poll" ~> gpc[r] # "poll"
=============================================================================
