--------------------------- MODULE UpdateDownload ---------------------------
(***************************************************************************)
(* The download of an update and the window's pause, resume and stop       *)
(* (lib.rs).  They meet in three flags that each side reads and writes one *)
(* at a time; a command may be ended by the one that holds the flags while *)
(* a control that found it active has not written yet.                     *)
(***************************************************************************)
EXTENDS Integers

CONSTANTS
    Commands,           \* calls of download_and_install_update that may be open at the same time
    MaxChunks           \* bound: parts of an update

VARIABLES
    active, paused, cancelled,      \* UpdateDownloadControl
    at,                             \* where each command is
    chunks,                         \* parts received by the command that downloads
    control,                        \* the control the window has asked for, and where it is
    stopped,                        \* whether a stop that found this download has been written (history)
    crossed                         \* whether a control was between its two steps as it began (history)

downloadVars == <<active, paused, cancelled, at, chunks, control, stopped, crossed>>

Phases == {"idle", "manifest", "resetPaused", "resetCancelled", "look", "wait", "verify", "install", "cancelled",
           "drop", "dropCancelled", "dropActive"}
Actions == {"pause", "resume", "stop"}
NoControl == [action |-> "none", at |-> "idle", late |-> FALSE]

DownloadTypeOK ==
    /\ active \in BOOLEAN /\ paused \in BOOLEAN /\ cancelled \in BOOLEAN /\ stopped \in BOOLEAN /\ crossed \in BOOLEAN
    /\ at \in [Commands -> Phases] /\ chunks \in 0 .. MaxChunks
    /\ control \in [action : Actions \cup {"none"}, at : {"idle", "found", "resuming"}, late : BOOLEAN]

DownloadInit ==
    /\ active = FALSE /\ paused = FALSE /\ cancelled = FALSE /\ at = [c \in Commands |-> "idle"]
    /\ chunks = 0 /\ control = NoControl /\ stopped = FALSE /\ crossed = FALSE

Goes(c, phase) == at' = [at EXCEPT ![c] = phase]

-----------------------------------------------------------------------------
(* A command *)

Asks(c) == at[c] = "idle" /\ Goes(c, "manifest") /\ UNCHANGED <<active, paused, cancelled, chunks, control, stopped, crossed>>

\* begin: only one download at a time has the flags, and clears what the last left or was told too late.
Begins(c) ==
    /\ at[c] = "manifest" /\ active' = TRUE
    /\ \/ active /\ Goes(c, "idle") /\ UNCHANGED <<chunks, control, crossed>>
       \/ /\ ~active /\ Goes(c, "resetPaused") /\ chunks' = 0
          /\ crossed' = (control.at = "found") /\ control' = [control EXCEPT !.late = (control.at = "found")]
    /\ UNCHANGED <<paused, cancelled, stopped>>

ResetsPaused(c) ==
    /\ at[c] = "resetPaused" /\ Goes(c, "resetCancelled") /\ paused' = FALSE
    /\ UNCHANGED <<active, cancelled, chunks, control, stopped, crossed>>

KeepsCancelled(c) ==       \* variant: a stop that came after the end of the last download stays
    /\ at[c] = "resetCancelled" /\ Goes(c, "look") /\ stopped' = FALSE
    /\ UNCHANGED <<active, paused, cancelled, chunks, control, crossed>>

ResetsCancelled(c) ==
    /\ at[c] = "resetCancelled" /\ Goes(c, "look") /\ cancelled' = FALSE /\ stopped' = FALSE
    /\ UNCHANGED <<active, paused, chunks, control, crossed>>

\* controlled_update_download: before each part it waits while it is paused, and looks for a stop.
Looks(c) ==
    /\ at[c] = "look"
    /\ IF cancelled THEN Goes(c, "cancelled") ELSE ~paused /\ Goes(c, "wait")
    /\ UNCHANGED <<active, paused, cancelled, chunks, control, stopped, crossed>>

\* The next part, the end, an error or too many bytes.  No flag is looked at meanwhile.
Receives(c) ==
    /\ at[c] = "wait"
    /\ \/ chunks < MaxChunks /\ chunks' = chunks + 1 /\ Goes(c, "look")
       \/ (Goes(c, "verify") \/ Goes(c, "drop")) /\ UNCHANGED chunks
    /\ UNCHANGED <<active, paused, cancelled, control, stopped, crossed>>

\* The signature, and the installation, after which the program restarts unless it fails.
Verifies(c) ==
    /\ at[c] = "verify" /\ (Goes(c, "install") \/ Goes(c, "drop"))
    /\ UNCHANGED <<active, paused, cancelled, chunks, control, stopped, crossed>>

Fails(c) ==
    /\ at[c] \in {"install", "cancelled"} /\ Goes(c, "drop")
    /\ UNCHANGED <<active, paused, cancelled, chunks, control, stopped, crossed>>

\* UpdateDownloadGuard::drop.
Drops(c) ==
    /\ at[c] = "drop" /\ Goes(c, "dropCancelled") /\ paused' = FALSE
    /\ UNCHANGED <<active, cancelled, chunks, control, stopped, crossed>>

DropsCancelled(c) ==
    /\ at[c] = "dropCancelled" /\ Goes(c, "dropActive") /\ cancelled' = FALSE
    /\ UNCHANGED <<active, paused, chunks, control, stopped, crossed>>

DropsActive(c) ==
    /\ at[c] = "dropActive" /\ Goes(c, "idle") /\ active' = FALSE
    /\ UNCHANGED <<paused, cancelled, chunks, control, stopped, crossed>>

-----------------------------------------------------------------------------
(* control_update_download *)

Finds(action) ==
    /\ control = NoControl /\ active /\ control' = [NoControl EXCEPT !.action = action, !.at = "found"]
    /\ UNCHANGED <<active, paused, cancelled, at, chunks, stopped, crossed>>

Writes ==
    /\ control.at = "found"
    /\ \/ control.action = "pause" /\ paused' = TRUE /\ control' = NoControl /\ UNCHANGED <<cancelled, stopped, crossed>>
       \/ control.action = "resume" /\ paused' = FALSE /\ control' = NoControl /\ UNCHANGED <<cancelled, stopped, crossed>>
       \/ control.action = "stop" /\ cancelled' = TRUE /\ stopped' = (stopped \/ ~control.late) /\ UNCHANGED paused
          /\ control' = [control EXCEPT !.at = "resuming"]
    /\ UNCHANGED <<active, at, chunks, crossed>>

Resumes ==
    /\ control.at = "resuming" /\ control' = NoControl /\ paused' = FALSE
    /\ UNCHANGED <<active, cancelled, at, chunks, stopped, crossed>>

DownloadNext ==
    \/ \E c \in Commands :
          \/ Asks(c) \/ Begins(c) \/ ResetsPaused(c) \/ ResetsCancelled(c) \/ Looks(c) \/ Receives(c) \/ Verifies(c)
          \/ Fails(c) \/ Drops(c) \/ DropsCancelled(c) \/ DropsActive(c)
    \/ \E action \in Actions : Finds(action)
    \/ Writes \/ Resumes

DownloadSpec == DownloadInit /\ [][DownloadNext]_downloadVars

-----------------------------------------------------------------------------

\* A download is cancelled only by a stop that found it active.  One meant for the download before it, and
\* written after that had ended, does not reach it (begin, drop), unless it is written so late that this one
\* had begun by then: a control looks whether a download is active and writes its flag without a lock.
CancelledByItsOwnStop == \A c \in Commands : at[c] = "cancelled" => stopped \/ crossed
=============================================================================
