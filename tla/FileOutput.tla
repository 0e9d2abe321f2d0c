------------------------------ MODULE FileOutput ------------------------------
(***************************************************************************)
(* Verdicts written to files (src/src/lib/send_msg_to_file.c): one file    *)
(* for the whole run, or a new one every period, and beside each finished  *)
(* one an empty file with the suffix .sem that tells a reader that it may  *)
(* be taken.  What is written stays in the buffer of stdio until it is     *)
(* full, the file is closed, or the program exits.                         *)
(*                                                                         *)
(* The disk may refuse: what a write or a close could not save is lost,    *)
(* with an error message and no more; a new file that cannot be opened     *)
(* ends the program from the thread that prints.                           *)
(***************************************************************************)
EXTENDS Integers, FiniteSets

CONSTANTS
  Threads,    (* threads that give verdicts                                 *)
  Main,       (* the thread that ends the program                           *)
  Periods,    (* periods the program may be started with; 0: one file       *)
  MaxTime     (* bound on the clock, in seconds                             *)

VARIABLES
  clock,      (* time( 0 )                                                  *)
  period,
  file,       (* the name of the current file: the second of its creation   *)
  timestamp,
  fileLock,   (* holder of mutex_lock                                       *)
  buffer,     (* what stdio keeps of the current file                       *)
  disk,       (* disk[name]: the verdicts in a file                         *)
  sealed,     (* files with a semaphore                                     *)
  written,    (* what was given to fprintf, with the file                   *)
  failed,     (* files that a write, a close or exit could not save whole   *)
  fpc,        (* fpc[t]: where thread t is in send_message_to_file          *)
  now         (* now[t]: the time it read before it took the lock           *)

fileVars == <<clock, period, file, timestamp, fileLock, buffer, disk, sealed, written, failed, fpc, now>>

None  == -1
Names == 0 .. MaxTime
Nobody == "nobody"

(* init_file *)
FileInit ==
  /\ clock = 0 /\ period \in Periods
  /\ file = (IF period = 0 THEN 0 ELSE None)
  /\ timestamp = -period - 1           \* 1970
  /\ fileLock = Nobody /\ buffer = {} /\ sealed = {} /\ written = {} /\ failed = {}
  /\ disk = [n \in Names |-> {}]
  /\ fpc = [t \in Threads \cup {Main} |-> "idle"] /\ now = [t \in Threads |-> 0]

-----------------------------------------------------------------------------
Goto(t, pc) == fpc' = [fpc EXCEPT ![t] = pc]

(* The buffer, and what is added to it, goes to the current file.  An error is
   only logged: what did not get there is lost. *)
Save(added) ==
  \E saved \in SUBSET (buffer \cup added) :
    /\ disk' = [n \in Names |-> IF n = file THEN disk[n] \cup saved ELSE disk[n]]
    /\ buffer' = {}
    /\ failed' = IF saved = buffer \cup added THEN failed ELSE failed \cup {file}

(* Time only matters to files that are replaced. *)
Tick ==
  /\ period # 0 /\ clock < MaxTime /\ clock' = clock + 1
  /\ UNCHANGED <<period, file, timestamp, fileLock, buffer, disk, sealed, written, failed, fpc, now>>

(* send_message_to_file: the time is read before the lock is asked for; the
   single file has no lock but the one inside fprintf. *)
Start(t) ==
  /\ fpc[t] = "idle"
  /\ Goto(t, IF period = 0 THEN "write" ELSE "lock")
  /\ now' = (IF period = 0 THEN now ELSE [now EXCEPT ![t] = clock])
  /\ UNCHANGED <<clock, period, file, timestamp, fileLock, buffer, disk, sealed, written, failed>>

Over(t) == now[t] - timestamp >= period

(* Slip: the file is taken without the lock. *)
LockFile_Shared(t) ==
  /\ fpc[t] = "lock"
  /\ fileLock' = t
  /\ Goto(t, IF ~Over(t) /\ file # None THEN "write" ELSE IF file # None THEN "close" ELSE "open")
  /\ UNCHANGED <<clock, period, file, timestamp, buffer, disk, sealed, written, failed, now>>

LockFile(t) ==
  /\ fpc[t] = "lock" /\ fileLock = Nobody
  /\ fileLock' = t
  /\ Goto(t, IF ~Over(t) /\ file # None THEN "write" ELSE IF file # None THEN "close" ELSE "open")
  /\ UNCHANGED <<clock, period, file, timestamp, buffer, disk, sealed, written, failed, now>>

(* fclose, which writes what is in the buffer; if it fails the semaphore is made
   all the same. *)
CloseOld(t) ==
  /\ fpc[t] = "close" /\ Save({})
  /\ Goto(t, "seal")
  /\ UNCHANGED <<clock, period, file, timestamp, fileLock, sealed, written, now>>

(* The semaphore, which may fail to be made: an error message, no more. *)
Seal(t) ==
  /\ fpc[t] = "seal"
  /\ sealed' \in {sealed, sealed \cup {file}}
  /\ file' = None
  /\ Goto(t, IF t = Main THEN "idle" ELSE "open")
  /\ UNCHANGED <<clock, period, timestamp, fileLock, buffer, disk, written, failed, now>>

(* fopen( .., "w" ) empties a file that is there. *)
OpenNew(t) ==
  /\ fpc[t] = "open"
  /\ timestamp' = now[t] /\ file' = now[t]
  /\ disk' = [disk EXCEPT ![now[t]] = {}]
  /\ Goto(t, "write")
  /\ UNCHANGED <<clock, period, fileLock, buffer, sealed, written, failed, now>>

(* The file cannot be opened: mmt_halt, by this thread, which still has the lock. *)
OpenFails(t) ==
  /\ fpc[t] = "open"
  /\ timestamp' = now[t]
  /\ Goto(t, "halt")
  /\ UNCHANGED <<clock, period, file, fileLock, buffer, disk, sealed, written, failed, now>>

(* fprintf of verdict v: it stays in the buffer, or the buffer goes to the file. *)
Write(t, v) ==
  /\ fpc[t] = "write"
  /\ Save({v}) \/ (buffer' = buffer \cup {v} /\ UNCHANGED <<disk, failed>>)
  /\ written' = written \cup {[verdict |-> v, at |-> now[t], name |-> file]}
  /\ fileLock' = (IF period = 0 THEN fileLock ELSE Nobody)
  /\ Goto(t, "idle")
  /\ UNCHANGED <<clock, period, file, timestamp, sealed, now>>

(* close_file, by the thread that ends the program and without the lock. *)
CloseFile ==
  /\ IF period = 0 \/ file = None
     THEN Save({}) /\ file' = None /\ UNCHANGED fpc
     ELSE Goto(Main, "close") /\ UNCHANGED <<disk, buffer, failed, file>>
  /\ UNCHANGED <<clock, period, timestamp, fileLock, sealed, written, now>>

(* exit: stdio writes its buffers, without a word if that fails; the semaphore is
   not made. *)
Flush ==
  /\ Save({})
  /\ UNCHANGED <<clock, period, file, timestamp, fileLock, sealed, written, fpc, now>>

FileStep(t) == LockFile(t) \/ CloseOld(t) \/ Seal(t) \/ OpenNew(t) \/ OpenFails(t)

-----------------------------------------------------------------------------
FileTypeOK ==
  /\ clock \in Names /\ period \in Periods /\ file \in Names \cup {None}
  /\ fileLock \in Threads \cup {Nobody} /\ sealed \cup failed \subseteq Names
  /\ \A t \in Threads \cup {Main} : fpc[t] \in {"idle", "lock", "close", "seal", "open", "write", "halt"}

(* A file that has its semaphore is complete, whenever a reader looks: whatever
   was written to it is on the disk, and nothing is written to it again.  The one
   exception is a file that the disk refused to save, which gets its semaphore
   too. *)
SealedComplete ==
  \A w \in written : w.name \in sealed => w.verdict \in disk[w.name] \/ w.name \in failed

(* No verdict is younger than its file by a period or more, whatever the order in
   which threads read the clock and get the lock ("each file contains reports
   during 5 seconds", main_sec_server.c:76). *)
PeriodKept == period # 0 => \A w \in written : w.at - w.name < period

(* A verdict is in one file or on its way to it, unless the disk refused it: no
   file is emptied by being opened again in the same second. *)
NothingErased ==
  \A w \in written :
    \/ w.verdict \in disk[w.name]
    \/ w.verdict \in buffer /\ file = w.name
    \/ w.name \in failed

(* What a reader of the directory relies on, whatever the threads that write and
   the thread that ends do: no verdict goes missing between the buffer and a file
   that the disk accepts, each is in the file of its period, and a semaphore means
   complete. *)
FilesKept == FileTypeOK /\ SealedComplete /\ PeriodKept /\ NothingErased
=============================================================================
