---------------------------- MODULE ServerProofs ----------------------------
(***************************************************************************)
(* The process of a connection keeps its files and its channel right for   *)
(* every number of threads, every period, and every length of the run, and *)
(* a proper end of it loses no verdict.  FileInv is about the current file *)
(* and those before it, ReplyInv about the one connection to Redis, EndInv *)
(* about the reports that are read and the end of the process.             *)
(* The first process (ServerParent) shares nothing with or between its     *)
(* clients that it should not, for every number of threads and of cores    *)
(* its options accept and however many clients come: ParentIInv.           *)
(***************************************************************************)
EXTENDS ServerProcess, ServerParent, SequenceTheorems, TLAPS

Verdicts == Threads \X Nat

-----------------------------------------------------------------------------
(* The files. *)
FileTypes ==
  /\ clock \in File!Names /\ period \in Periods /\ timestamp \in Int
  /\ file \in File!Names \cup {File!None}
  /\ fileLock \in Threads \cup {File!Nobody} /\ sealed \subseteq File!Names
  /\ failed \subseteq File!Names /\ (file = File!None => buffer = {})
  /\ buffer \subseteq Verdicts /\ disk \in [File!Names -> SUBSET Verdicts]
  /\ written \subseteq [verdict : Verdicts, at : File!Names, name : File!Names]
  /\ fpc \in [Threads \cup {Main} -> {"idle", "lock", "close", "seal", "open", "write", "halt"}]
  /\ now \in [Threads -> File!Names]

(* A thread has the lock exactly while it touches the files; the single file has
   no lock. *)
LockHeld ==
  \A t \in Threads :
    IF period = 0 THEN fpc[t] \in {"idle", "write"}
    ELSE fileLock = t <=> fpc[t] \in {"close", "seal", "open", "write", "halt"}

(* What is true of the current file where a thread, or the main one, stands. *)
FileStands ==
  \A t \in Threads \cup {Main} :
    /\ fpc[t] \in {"close", "seal"} =>
         period # 0 /\ file # File!None /\ (t \in Threads => File!Over(t))
    /\ fpc[t] = "seal" => buffer = {}
    /\ fpc[t] = "open" =>
         /\ period # 0 /\ file = File!None
         /\ \A w \in written : w.name < now[t]
         /\ \A n \in sealed : n < now[t]
    /\ fpc[t] = "write" => file # File!None /\ (period # 0 => now[t] - file < period)
    /\ fpc[t] = "halt" => period # 0 /\ file = File!None

(* Files are made in the order of their names, and the current one is the last. *)
FilesInOrder ==
  IF period = 0 THEN sealed = {}
  ELSE /\ \A w \in written : w.name <= timestamp
       /\ \A n \in sealed : n <= timestamp
       /\ file # File!None => file = timestamp /\ file \notin sealed

(* While threads may print there is a file, or there has been none. *)
FileThere ==
  main \in {"receive", "unregister"} /\ file = File!None =>
    /\ period # 0
    /\ \/ \E t \in Threads : fpc[t] \in {"open", "halt"}
       \/ written = {} /\ sealed = {}

(* Threads print what they have been given; the main one closes after them. *)
Printing ==
  /\ \A t \in Threads : out[t] = "file" <=> fpc[t] # "idle"
  /\ fpc[Main] \in {"idle", "close", "seal"}
  /\ fpc[Main] # "idle" => main = "exit"
  /\ main \in {"free", "exit"} => \A t \in Threads : inbox[t] = 0 /\ out[t] = "none"

FileInv ==
  /\ FileTypes /\ LockHeld /\ FileStands /\ FilesInOrder /\ FileThere /\ Printing
  /\ File!PeriodKept /\ File!NothingErased

-----------------------------------------------------------------------------
(* The connection to Redis. *)
RedisTypes ==
  /\ linked \in BOOLEAN /\ err \in BOOLEAN /\ server \in BOOLEAN
  /\ mutex \in Threads \cup {Redis!Nobody, Redis!Reader}
  /\ waiters \in Seq(Verdicts) /\ woken \in Threads \cup {Redis!Nobody}
  /\ strayed \subseteq Verdicts
  /\ rpc \in [Threads -> {"idle", "lock", "write", "enqueue", "owner", "asleep", "awake"}]
  /\ reply \in [Threads -> {Redis!NoReply} \cup Verdicts]
  /\ asked \in [Threads -> Nat]
  /\ reader \in {"poll", "deliver", "signal", "fail", "ended"}
  /\ parsed \in Seq(Verdicts) /\ back \in Seq(Verdicts) /\ wire \in Seq(Verdicts)

(* Who has the mutex, and where the reader stands. *)
MutexHeld ==
  /\ \A t \in Threads : mutex = t <=> rpc[t] \in {"write", "enqueue"}
  /\ mutex = Redis!Reader <=> reader \in {"deliver", "signal", "fail"}
  /\ reader = "deliver" => parsed # <<>>
  /\ reader \in {"poll", "fail", "ended"} => parsed = <<>>

(* A thread is in the list once, and the one being woken no more: it waits, unless
   it woke without a signal. *)
WaitOnce ==
  /\ \A i, j \in DOMAIN waiters : waiters[i][1] = waiters[j][1] => i = j
  /\ reader = "signal" =>
       /\ woken \in Threads /\ (rpc[woken] \in {"owner", "asleep"} \/ strayed # {})
       /\ \A i \in DOMAIN waiters : waiters[i][1] # woken

(* A connection that is lost stays lost, and nothing goes to it. *)
Lost ==
  /\ err \/ reader \in {"fail", "ended"} => ~server
  /\ ~server => wire = <<>>

(* Commands without their answer, those being answered first, *)
Commands == (parsed \o back) \o wire

(* and the records to be answered, that of the thread that has just written last. *)
Line ==
  IF mutex \in Threads /\ rpc[mutex] = "enqueue" THEN Append(waiters, <<mutex, asked[mutex]>>)
  ELSE waiters

(* The commands q are those of the first records of l. *)
Match(q, l) == Len(q) <= Len(l) /\ \A i \in 1 .. Len(q) : q[i] = l[i]

(* Both are in step, whether the threads of the records still wait or not; some
   will not be answered when the server is gone. *)
InStep ==
  reader \notin {"fail", "ended"} =>
    /\ Match(Commands, Line)
    /\ server => Len(Commands) = Len(Line)

ReplyInv ==
  /\ RedisTypes /\ MutexHeld /\ WaitOnce /\ Lost /\ InStep
  /\ Redis!OwnReply /\ Redis!WaitersWait /\ Redis!CrashExplained

-----------------------------------------------------------------------------
(* Reports and the end. *)
Cuts == {"cutHeader", "cutBody", "reset"}

(* The end of the stream is its last element, and stays there. *)
StreamEnds ==
  /\ stream \in Seq({"report", "closed"} \cup Cuts)
  /\ peer \in {"open", "closed"} \cup Cuts
  /\ \A i \in DOMAIN stream : i < Len(stream) \/ peer = "open" => stream[i] = "report"
  /\ peer # "open" => /\ stream # <<>>
                      /\ stream[Len(stream)] \in {peer, "closed"}

(* No report is read twice, but for the one that is cut. *)
ReportsRead ==
  /\ sent \in 0 .. MaxReports /\ reports \in Nat
  /\ peer = "open" => reports + Len(stream) <= sent
  /\ peer # "open" /\ stream[Len(stream)] = peer => reports + Len(stream) <= sent + 1
  /\ reports + Len(stream) <= sent + 2

(* Threads have no more messages than reports came. *)
Counts ==
  /\ main \in {"receive", "unregister", "free", "exit", "exited", "halted"}
  /\ inbox \in [Threads -> Nat] /\ given \in [Threads -> Nat]
  /\ out \in [Threads -> {"none", "file", "redis"}]
  /\ \A t \in Threads : inbox[t] <= reports

(* A verdict has been written, or its thread is about to. *)
Printed ==
  "file" \in mode =>
    \A t \in Threads : \A n \in 1 .. given[t] :
      \/ \E w \in written : w.verdict = <<t, n>>
      \/ n = given[t] /\ out[t] = "file"

(* verdict_printer_free has closed the file where it is called, *)
ClosedLast == main = "exit" /\ fpc[Main] = "idle" /\ FreesPrinter => file = File!None

(* and a proper end leaves what EndComplete says. *)
EndInv == StreamEnds /\ ReportsRead /\ Counts /\ Printed /\ ClosedLast /\ EndComplete

IInv == FileInv /\ ReplyInv /\ EndInv

-----------------------------------------------------------------------------
(* What the disk gets of the buffer, and what it loses with a file that failed. *)
LEMMA Saved ==
  ASSUME FileTypes, NEW added \in SUBSET Verdicts, File!Save(added), file # File!None \/ added = {}
  PROVE  /\ buffer' = {} /\ disk' \in [File!Names -> SUBSET Verdicts]
         /\ failed' \subseteq File!Names /\ failed \subseteq failed'
         /\ \A n \in File!Names : disk[n] \subseteq disk'[n]
         /\ file # File!None => file \in failed' \/ buffer \cup added \subseteq disk'[file]
<1>1. PICK saved \in SUBSET (buffer \cup added) :
        /\ disk' = [n \in File!Names |-> IF n = file THEN disk[n] \cup saved ELSE disk[n]]
        /\ buffer' = {}
        /\ failed' = IF saved = buffer \cup added THEN failed ELSE failed \cup {file}
  BY DEF File!Save
<1>2. buffer \subseteq Verdicts /\ disk \in [File!Names -> SUBSET Verdicts] /\ failed \subseteq File!Names
      /\ file \in File!Names \cup {File!None} /\ (file = File!None => buffer = {})
  BY DEF FileTypes
<1>3. saved \subseteq Verdicts
  BY <1>1, <1>2
<1>4. disk' \in [File!Names -> SUBSET Verdicts]
  BY <1>1, <1>2, <1>3
<1>5. \A n \in File!Names : disk'[n] = IF n = file THEN disk[n] \cup saved ELSE disk[n]
  BY <1>1
<1>6. failed' \subseteq File!Names
  BY <1>1, <1>2
<1> QED BY <1>1, <1>2, <1>4, <1>5, <1>6

LEMMA SavedAll ==
  ASSUME FileTypes, File!NothingErased, NEW added \in SUBSET Verdicts, File!Save(added),
         file # File!None \/ added = {}
  PROVE  \A w \in written : w.verdict \in disk'[w.name] \/ w.name \in failed'
<1> SUFFICES ASSUME NEW w \in written
             PROVE  w.verdict \in disk'[w.name] \/ w.name \in failed'
  OBVIOUS
<1>1. w.name \in File!Names /\ (file = File!None => buffer = {})
  BY DEF FileTypes
<1>2. \/ w.verdict \in disk[w.name]
      \/ w.verdict \in buffer /\ file = w.name
      \/ w.name \in failed
  BY DEF File!NothingErased
<1> QED BY <1>1, <1>2, Saved

(* Every step of the files, one lemma for each. *)
LEMMA FilesSame ==
  ASSUME FileInv, UNCHANGED fileVars
  PROVE  /\ FileTypes' /\ LockHeld' /\ FileStands' /\ FilesInOrder'
         /\ File!PeriodKept' /\ File!NothingErased'
<1>1. FileTypes'
  BY DEF FileInv, FileTypes, fileVars, File!Names, File!None, File!Nobody
<1>2. LockHeld'
  BY DEF FileInv, LockHeld, fileVars
<1>3. FileStands'
  BY DEF FileInv, FileStands, fileVars, File!Over, File!None
<1>4. FilesInOrder'
  BY DEF FileInv, FilesInOrder, fileVars, File!None
<1>5. File!PeriodKept' /\ File!NothingErased'
  BY DEF FileInv, fileVars, File!PeriodKept, File!NothingErased
<1> QED BY <1>1, <1>2, <1>3, <1>4, <1>5

(* What the main thread writes to the disk when the program stops. *)
LEMMA FilesFlush ==
  ASSUME FileInv, File!Flush
  PROVE  /\ FileTypes' /\ LockHeld' /\ FileStands' /\ FilesInOrder'
         /\ File!PeriodKept' /\ File!NothingErased'
         /\ \A w \in written : w.verdict \in disk'[w.name] \/ w.name \in failed'
<1> USE DEF File!Flush
<1>0. FileTypes /\ File!NothingErased /\ File!Save({}) /\ {} \in SUBSET Verdicts
  BY DEF FileInv
<1>1. FileTypes'
  BY <1>0, Saved DEF FileTypes, File!Names, File!None, File!Nobody
<1>2. LockHeld'
  BY DEF FileInv, LockHeld
<1>3. FileStands'
  BY <1>0, Saved DEF FileInv, FileStands, File!Over, File!None
<1>4. FilesInOrder'
  BY DEF FileInv, FilesInOrder, File!None
<1>5. File!PeriodKept'
  BY DEF FileInv, File!PeriodKept
<1>6. \A w \in written : w.verdict \in disk'[w.name] \/ w.name \in failed'
  BY <1>0, SavedAll
<1>7. File!NothingErased'
  BY <1>6 DEF File!NothingErased
<1> QED BY <1>1, <1>2, <1>3, <1>4, <1>5, <1>6, <1>7

(* send_message_to_file begins. *)
LEMMA FilesStart ==
  ASSUME FileInv, Counts, Alive, NEW t \in Threads, inbox[t] > 0, out[t] = "none",
         File!Start(t), UNCHANGED main, out' = [out EXCEPT ![t] = "file"],
         inbox' = [inbox EXCEPT ![t] = @ - 1]
  PROVE  FileInv'
<1> USE DEF File!Start, File!Goto
<1>1. FileTypes'
  BY DEF FileInv, FileTypes, File!Names, File!None, File!Nobody
<1>2. LockHeld'
  BY DEF FileInv, FileTypes, LockHeld
<1>3. main \in {"receive", "unregister"}
  BY DEF FileInv, Printing, Counts, Alive, Ended
<1>4. period = 0 => file # File!None
  BY <1>3 DEF FileInv, FileThere
<1>5. FileStands'
  BY <1>4, ServerAssumption DEF FileInv, FileTypes, FileStands, File!Over, File!None
<1>6. FilesInOrder'
  BY DEF FileInv, FilesInOrder, File!None
<1>7. FileThere'
  BY DEF FileInv, FileTypes, FileThere, File!None
<1>8. Printing'
  BY <1>3, ServerAssumption DEF FileInv, FileTypes, Printing, Counts
<1>9. File!PeriodKept' /\ File!NothingErased'
  BY DEF FileInv, File!PeriodKept, File!NothingErased
<1> QED BY <1>1, <1>2, <1>5, <1>6, <1>7, <1>8, <1>9 DEF FileInv

(* A thread that prints runs beside others that print, and not beside the end. *)
LEMMA Alone ==
  ASSUME FileInv, Counts, Alive, NEW t \in Threads, out[t] = "file"
  PROVE  /\ main \in {"receive", "unregister"} /\ fpc[Main] = "idle"
         /\ fpc[t] # "idle"
         /\ period # 0 /\ fpc[t] \in {"close", "seal", "open", "write", "halt"} =>
              /\ fileLock = t
              /\ \A u \in Threads \ {t} : fpc[u] \notin {"close", "seal", "open", "write", "halt"}
         /\ period = 0 => fpc[t] = "write"
BY DEF FileInv, Printing, Counts, Alive, Ended, LockHeld

LEMMA FilesLock ==
  ASSUME FileInv, Counts, Alive, NEW t \in Threads, out[t] = "file",
         File!LockFile(t), UNCHANGED <<main, out, inbox>>
  PROVE  FileInv'
<1> USE DEF File!LockFile, File!Goto
<1>0. main \in {"receive", "unregister"} /\ fpc[Main] = "idle" /\ period # 0
  BY Alone
<1>a. \A u \in Threads : fpc[u] \notin {"close", "seal", "open", "write", "halt"}
  BY <1>0, ServerAssumption DEF FileInv, LockHeld, File!Nobody
<1>1. FileTypes'
  BY DEF FileInv, FileTypes, File!Names, File!None, File!Nobody
<1>2. LockHeld'
  BY <1>0, <1>a DEF FileInv, FileTypes, LockHeld
<1>3. file = File!None => written = {} /\ sealed = {}
  BY <1>0, <1>a DEF FileInv, FileThere
<1>4. FileStands'
  <2> SUFFICES ASSUME NEW u \in Threads \cup {Main}
               PROVE  FileStands!(u)'
    BY DEF FileStands
  <2>1. CASE u = t
    BY <2>1, <1>0, <1>3, ServerAssumption DEF FileInv, FileTypes, FilesInOrder, File!Over, File!None, File!Names
  <2>2. CASE u # t
    BY <2>2, <1>a, <1>0, ServerAssumption DEF FileInv, FileTypes
  <2> QED BY <2>1, <2>2
<1>5. FilesInOrder'
  BY DEF FileInv, FilesInOrder, File!None
<1>6. FileThere'
  BY <1>3, <1>0 DEF FileInv, FileTypes, FileThere, File!None
<1>7. Printing'
  BY <1>0, ServerAssumption DEF FileInv, FileTypes, Printing
<1>8. File!PeriodKept' /\ File!NothingErased'
  BY DEF FileInv, File!PeriodKept, File!NothingErased
<1> QED BY <1>1, <1>2, <1>4, <1>5, <1>6, <1>7, <1>8 DEF FileInv

LEMMA FilesClose ==
  ASSUME FileInv, NEW t \in Threads \cup {Main},
         t \in Threads => Counts /\ Alive /\ out[t] = "file",
         t = Main => main = "exit",
         File!CloseOld(t), UNCHANGED <<main, out, inbox>>
  PROVE  FileInv'
<1> USE DEF File!CloseOld, File!Goto
<1>0. /\ period # 0 /\ file \in File!Names
      /\ \A u \in Threads \ {t} : fpc[u] \notin {"close", "seal", "open", "write", "halt"}
      /\ t # Main => fpc[Main] = "idle"
  BY Alone DEF FileInv, FileTypes, FileStands, LockHeld, Printing
<1>a. FileTypes /\ File!NothingErased /\ File!Save({}) /\ {} \in SUBSET Verdicts
  BY DEF FileInv
<1>b. buffer' = {}
  BY <1>a, Saved
<1>1. FileTypes'
  BY <1>0, <1>a, Saved DEF FileTypes, File!Names, File!None, File!Nobody
<1>2. LockHeld'
  BY <1>0 DEF FileInv, FileTypes, LockHeld
<1>3. FileStands'
  <2> SUFFICES ASSUME NEW u \in Threads \cup {Main}
               PROVE  FileStands!(u)'
    BY DEF FileStands
  <2>1. CASE u = t
    BY <2>1, <1>0, <1>b DEF FileInv, FileTypes, FileStands, File!Over, File!None
  <2>2. CASE u # t
    BY <2>2, <1>0, <1>b DEF FileInv, FileTypes, FileStands, File!Over, Printing
  <2> QED BY <2>1, <2>2
<1>4. FilesInOrder'
  BY DEF FileInv, FilesInOrder, File!None
<1>5. FileThere'
  BY <1>0 DEF FileInv, FileTypes, FileThere, File!None, File!Names
<1>6. Printing'
  BY ServerAssumption DEF FileInv, FileTypes, Printing
<1>7. File!PeriodKept'
  BY DEF FileInv, File!PeriodKept
<1>8. File!NothingErased'
  BY <1>a, SavedAll DEF File!NothingErased
<1> QED BY <1>1, <1>2, <1>3, <1>4, <1>5, <1>6, <1>7, <1>8 DEF FileInv

(* The file is left to its readers, complete, and no thread has another one. *)
LEMMA FilesSeal ==
  ASSUME FileInv, NEW t \in Threads \cup {Main},
         t \in Threads => Counts /\ Alive /\ out[t] = "file",
         t = Main => main = "exit",
         File!Seal(t), UNCHANGED <<main, out, inbox>>
  PROVE  FileInv'
<1> USE DEF File!Seal, File!Goto
<1>0. /\ period # 0 /\ file \in File!Names /\ file = timestamp
      /\ \A u \in Threads \ {t} : fpc[u] \notin {"close", "seal", "open", "write", "halt"}
      /\ t # Main => fpc[Main] = "idle"
      /\ buffer = {}
  BY Alone DEF FileInv, FileTypes, FileStands, LockHeld, Printing, FilesInOrder
<1>a. sealed' \subseteq sealed \cup {timestamp}
  BY <1>0
<1>1. FileTypes'
  BY <1>0, ServerAssumption DEF FileInv, FileTypes, File!Names, File!None, File!Nobody
<1>2. LockHeld'
  BY <1>0, ServerAssumption DEF FileInv, FileTypes, LockHeld
<1>3. FileStands'
  <2> SUFFICES ASSUME NEW u \in Threads \cup {Main}
               PROVE  FileStands!(u)'
    BY DEF FileStands
  <2>1. CASE u = t /\ t = Main
    BY <2>1, <1>0 DEF FileInv, FileTypes
  <2>2. CASE u = t /\ t # Main
    <3>1. t \in Threads /\ now[t] \in Nat /\ timestamp \in Int /\ period \in Nat
          /\ now[t] - timestamp >= period
      BY <2>2, ServerAssumption DEF FileInv, FileTypes, FileStands, File!Over, File!Names
    <3>2. now[t] > timestamp
      BY <3>1, <1>0
    <3>3. \A w \in written : w.name \in Nat /\ w.name <= timestamp
      BY <1>0 DEF FileInv, FileTypes, FilesInOrder, File!Names
    <3>4. \A n \in sealed : n \in Nat /\ n <= timestamp
      BY <1>0 DEF FileInv, FileTypes, FilesInOrder, File!Names
    <3>5. fpc'[t] = "open" /\ file' = File!None
      BY <2>2 DEF FileInv, FileTypes
    <3>6. \A w \in written' : w.name < now'[t]
      BY <3>1, <3>2, <3>3
    <3>7. \A n \in sealed' : n < now'[t]
      BY <3>1, <3>2, <3>4, <1>a
    <3> QED BY <2>2, <3>5, <3>6, <3>7, <1>0
  <2>3. CASE u # t
    BY <2>3, <1>0 DEF FileInv, FileTypes, FileStands, File!Over, Printing
  <2> QED BY <2>1, <2>2, <2>3
<1>4. FilesInOrder'
  BY <1>0, <1>a DEF FileInv, FileTypes, FilesInOrder, File!None
<1>5. FileThere'
  BY <1>0, Alone DEF FileInv, FileTypes, FileThere
<1>6. Printing'
  BY ServerAssumption DEF FileInv, FileTypes, Printing
<1>7. File!PeriodKept'
  BY DEF FileInv, File!PeriodKept
<1>8. File!NothingErased'
  BY <1>0 DEF FileInv, File!NothingErased
<1> QED BY <1>1, <1>2, <1>3, <1>4, <1>5, <1>6, <1>7, <1>8 DEF FileInv

(* The new file has a new name: no file is emptied. *)
LEMMA FilesOpen ==
  ASSUME FileInv, Counts, Alive, NEW t \in Threads, out[t] = "file",
         File!OpenNew(t), UNCHANGED <<main, out, inbox>>
  PROVE  FileInv'
<1> USE DEF File!OpenNew, File!Goto
<1>0. /\ period # 0 /\ now[t] \in File!Names /\ file = File!None
      /\ \A u \in Threads \ {t} : fpc[u] \notin {"close", "seal", "open", "write", "halt"}
      /\ fpc[Main] = "idle" /\ t # Main
      /\ \A w \in written : w.name \in File!Names /\ w.name < now[t]
      /\ \A n \in sealed : n \in File!Names /\ n < now[t]
  BY Alone, ServerAssumption DEF FileInv, FileTypes, FileStands
<1>1. FileTypes'
  BY <1>0 DEF FileInv, FileTypes, File!Names, File!None, File!Nobody
<1>2. LockHeld'
  BY <1>0 DEF FileInv, FileTypes, LockHeld
<1>3. FileStands'
  <2> SUFFICES ASSUME NEW u \in Threads \cup {Main}
               PROVE  FileStands!(u)'
    BY DEF FileStands
  <2>1. CASE u = t
    <3>1. period \in Nat /\ now[t] \in Nat
      BY <1>0, ServerAssumption DEF FileInv, FileTypes, File!Names
    <3> QED BY <2>1, <1>0, <3>1 DEF FileInv, FileTypes, File!None
  <2>2. CASE u # t
    BY <2>2, <1>0 DEF FileInv, FileTypes, Printing
  <2> QED BY <2>1, <2>2
<1>4. FilesInOrder'
  BY <1>0 DEF FileInv, FilesInOrder, File!None, File!Names
<1>5. FileThere'
  BY <1>0 DEF FileThere, File!None, File!Names
<1>6. Printing'
  BY <1>0, ServerAssumption DEF FileInv, FileTypes, Printing
<1>7. File!PeriodKept'
  BY DEF FileInv, File!PeriodKept
<1>8. File!NothingErased'
  <2> SUFFICES ASSUME NEW w \in written PROVE w.verdict \in disk'[w.name] \/ w.name \in failed
    BY DEF File!NothingErased
  <2>1. (w.verdict \in disk[w.name] \/ w.name \in failed) /\ w.name \in File!Names /\ w.name # now[t]
    BY <1>0 DEF FileInv, File!NothingErased, File!None, File!Names
  <2> QED BY <2>1 DEF FileInv, FileTypes
<1> QED BY <1>1, <1>2, <1>3, <1>4, <1>5, <1>6, <1>7, <1>8 DEF FileInv

(* or it cannot be opened, and its thread keeps the lock. *)
LEMMA FilesOpenFails ==
  ASSUME FileInv, Counts, Alive, NEW t \in Threads, out[t] = "file",
         File!OpenFails(t), UNCHANGED <<main, out, inbox>>
  PROVE  FileInv'
<1> USE DEF File!OpenFails, File!Goto
<1>0. /\ period # 0 /\ now[t] \in File!Names /\ file = File!None
      /\ \A u \in Threads \ {t} : fpc[u] \notin {"close", "seal", "open", "write", "halt"}
      /\ fpc[Main] = "idle" /\ t # Main
      /\ \A w \in written : w.name \in File!Names /\ w.name < now[t]
      /\ \A n \in sealed : n \in File!Names /\ n < now[t]
  BY Alone, ServerAssumption DEF FileInv, FileTypes, FileStands
<1>1. FileTypes'
  BY <1>0 DEF FileInv, FileTypes, File!Names, File!None, File!Nobody
<1>2. LockHeld'
  BY <1>0 DEF FileInv, FileTypes, LockHeld
<1>3. FileStands'
  <2> SUFFICES ASSUME NEW u \in Threads \cup {Main}
               PROVE  FileStands!(u)'
    BY DEF FileStands
  <2>1. CASE u = t
    BY <2>1, <1>0 DEF FileInv, FileTypes, File!None
  <2>2. CASE u # t
    BY <2>2, <1>0 DEF FileInv, FileTypes, Printing
  <2> QED BY <2>1, <2>2
<1>4. FilesInOrder'
  BY <1>0 DEF FileInv, FilesInOrder, File!None, File!Names
<1>5. FileThere'
  BY <1>0 DEF FileInv, FileTypes, FileThere, File!None
<1>6. Printing'
  BY <1>0, ServerAssumption DEF FileInv, FileTypes, Printing
<1>7. File!PeriodKept' /\ File!NothingErased'
  BY DEF FileInv, File!PeriodKept, File!NothingErased
<1> QED BY <1>1, <1>2, <1>3, <1>4, <1>5, <1>6, <1>7 DEF FileInv

(* fprintf *)
LEMMA FilesWrite ==
  ASSUME FileInv, Counts, Alive, NEW t \in Threads, out[t] = "file",
         NEW v \in Verdicts, File!Write(t, v), UNCHANGED <<main, inbox>>,
         NEW o \in {"none", "redis"}, out' = [out EXCEPT ![t] = o]
  PROVE  FileInv'
<1> USE DEF File!Write, File!Goto
<1>0. /\ file \in File!Names /\ now[t] \in File!Names /\ t # Main /\ fpc[Main] = "idle"
      /\ main \in {"receive", "unregister"}
      /\ \A u \in Threads \ {t} : period # 0 => fpc[u] \notin {"close", "seal", "open", "write", "halt"}
      /\ period # 0 => now[t] - file < period /\ file = timestamp
  BY Alone, ServerAssumption DEF FileInv, FileTypes, FileStands, FilesInOrder
<1>w. written' = written \cup {[verdict |-> v, at |-> now[t], name |-> file]}
  OBVIOUS
<1>s. /\ FileTypes /\ File!NothingErased /\ {v} \in SUBSET Verdicts /\ file # File!None
      /\ File!Save({v}) \/ (buffer' = buffer \cup {v} /\ UNCHANGED <<disk, failed>>)
  BY <1>0 DEF FileInv, File!Names, File!None
<1>1. FileTypes'
  <2>1. /\ buffer' \subseteq Verdicts /\ disk' \in [File!Names -> SUBSET Verdicts]
        /\ failed' \subseteq File!Names
    BY <1>s, Saved DEF FileTypes
  <2> QED BY <1>0, <1>w, <1>s, <2>1 DEF FileTypes, File!Nobody
<1>2. LockHeld'
  BY <1>0, ServerAssumption DEF FileInv, FileTypes, LockHeld, File!Nobody
<1>3. FileStands'
  <2> SUFFICES ASSUME NEW u \in Threads \cup {Main}
               PROVE  FileStands!(u)'
    BY DEF FileStands
  <2>1. CASE u = t
    BY <2>1, <1>0 DEF FileInv, FileTypes
  <2>2. CASE u # t /\ period # 0
    BY <2>2, <1>0 DEF FileInv, FileTypes
  <2>3. CASE u # t /\ period = 0
    BY <2>3, <1>0 DEF FileInv, FileTypes, FileStands, LockHeld
  <2> QED BY <2>1, <2>2, <2>3
<1>4. FilesInOrder'
  BY <1>0, <1>w DEF FileInv, FileTypes, FilesInOrder, File!Names
<1>5. FileThere'
  BY <1>0 DEF FileThere, File!None, File!Names
<1>6. Printing'
  BY <1>0 DEF FileInv, FileTypes, Printing, Counts
<1>7. File!PeriodKept'
  BY <1>0, <1>w DEF FileInv, File!PeriodKept
<1>8. File!NothingErased'
  <2>1. CASE buffer' = buffer \cup {v} /\ UNCHANGED <<disk, failed>>
    BY <2>1, <1>w DEF FileInv, File!NothingErased
  <2>2. CASE File!Save({v})
    <3>1. v \in disk'[file] \/ file \in failed'
      BY <1>s, <2>2, Saved
    <3>2. \A w \in written : w.verdict \in disk'[w.name] \/ w.name \in failed'
      BY <1>s, <2>2, SavedAll
    <3> QED BY <3>1, <3>2, <1>w DEF File!NothingErased
  <2> QED BY <1>s, <2>1, <2>2
<1> QED BY <1>1, <1>2, <1>3, <1>4, <1>5, <1>6, <1>7, <1>8 DEF FileInv

(* close_file, when no thread prints. *)
LEMMA FilesFree ==
  ASSUME FileInv, Counts, main = "free", File!CloseFile, main' = "exit", UNCHANGED <<inbox, out>>
  PROVE  FileInv'
<1> USE DEF File!CloseFile, File!Goto
<1>0. \A t \in Threads \cup {Main} : fpc[t] = "idle"
  BY DEF FileInv, FileTypes, Printing
<1>a. FileTypes /\ File!NothingErased /\ {} \in SUBSET Verdicts
  BY DEF FileInv
<1>1. FileTypes'
  <2>1. /\ buffer' \subseteq Verdicts /\ disk' \in [File!Names -> SUBSET Verdicts]
        /\ failed' \subseteq File!Names /\ (file' = File!None => buffer' = {})
    BY <1>a, Saved DEF FileTypes, File!None
  <2> QED BY <1>0, <2>1 DEF FileInv, FileTypes, File!Names, File!None, File!Nobody
<1>2. LockHeld'
  BY <1>0, ServerAssumption DEF FileInv, FileTypes, LockHeld
<1>3. FileStands'
  <2>1. \A t \in Threads : fpc'[t] = "idle"
    BY <1>0, ServerAssumption DEF FileInv, FileTypes
  <2>2. fpc'[Main] = "idle" \/ (fpc'[Main] = "close" /\ period # 0 /\ file # File!None /\ UNCHANGED <<period, file>>)
    BY <1>0, ServerAssumption DEF FileInv, FileTypes
  <2> QED BY <2>1, <2>2, ServerAssumption DEF FileStands
<1>4. FilesInOrder'
  BY DEF FileInv, FilesInOrder, File!None
<1>5. FileThere'
  BY DEF FileThere
<1>6. Printing'
  BY <1>0, ServerAssumption DEF FileInv, FileTypes, Printing
<1>7. File!PeriodKept'
  BY DEF FileInv, File!PeriodKept
<1>8. File!NothingErased'
  <2>1. CASE File!Save({})
    BY <1>a, <2>1, SavedAll DEF File!NothingErased
  <2>2. CASE UNCHANGED <<disk, buffer, failed, file>>
    BY <2>2 DEF FileInv, File!NothingErased
  <2> QED BY <2>1, <2>2
<1> QED BY <1>1, <1>2, <1>3, <1>4, <1>5, <1>6, <1>7, <1>8 DEF FileInv

(* Steps that leave the files alone. *)
LEMMA FilesLeft ==
  ASSUME FileInv, UNCHANGED fileVars,
         \A t \in Threads : out'[t] = "file" <=> out[t] = "file",
         main' \in {"receive", "unregister"} => main \in {"receive", "unregister"},
         main = "exit" => main' = "exit",
         main' \in {"free", "exit"} => \A t \in Threads : inbox'[t] = 0 /\ out'[t] = "none"
  PROVE  FileInv'
<1>1. FileThere'
  BY DEF FileInv, FileThere, fileVars, File!None
<1>2. Printing'
  BY DEF FileInv, Printing, fileVars
<1> QED BY <1>1, <1>2, FilesSame DEF FileInv

LEMMA FilesNext ==
  ASSUME FileInv, Counts, Next
  PROVE  FileInv'
<1> USE DEF mainVars
<1>a. main \in {"free", "exit"} => \A t \in Threads : inbox[t] = 0 /\ out[t] = "none"
  BY DEF FileInv, Printing
<1>1. CASE Peer
  BY <1>1, <1>a, FilesLeft DEF Peer
<1>2. CASE Receive \/ ReadPacket \/ ReceiveShort \/ EndOfStream \/ Interrupt
  <2>1. main = "receive" /\ main' \in {"receive", "unregister"} /\ UNCHANGED <<fileVars, out>>
    BY <1>2 DEF Receive, ReadPacket, ReceiveShort, EndOfStream, Interrupt, Process
  <2> QED BY <2>1, FilesLeft
<1>3. CASE Unregister
  BY <1>3, FilesLeft DEF Unregister
<1>4. CASE Halt \/ Exit \/ \E t \in Threads : HaltedBy(t)
  <2>1. /\ main' \in {"exited", "halted"} /\ UNCHANGED <<out, inbox, fpc>>
        /\ File!Flush \/ UNCHANGED fileVars
    BY <1>4 DEF Halt, Exit, HaltedBy, Stop, File!Flush, fileVars
  <2>2. fpc[Main] = "idle"
    <3>1. CASE Halt \/ Exit
      BY <3>1 DEF Halt, Exit, FileInv, Printing
    <3>2. ASSUME NEW t \in Threads, HaltedBy(t) PROVE fpc[Main] = "idle"
      BY <3>2, Alone DEF HaltedBy, FileInv, Printing
    <3> QED BY <1>4, <3>1, <3>2
  <2>3. FileThere'
    BY <2>1 DEF FileThere
  <2>4. Printing'
    BY <2>1, <2>2 DEF FileInv, Printing
  <2> QED BY <2>1, <2>3, <2>4, FilesFlush, FilesSame DEF FileInv
<1>5. CASE Free
  BY <1>5, FilesFree DEF Free
<1>6. CASE CloseLast
  <2>1. fpc[Main] # "idle" /\ UNCHANGED <<main, out, inbox>>
    BY <1>6 DEF CloseLast, File!CloseOld, File!Seal
  <2>2. main = "exit"
    BY <2>1 DEF FileInv, Printing
  <2>3. CASE File!CloseOld(Main)
    BY <2>1, <2>2, <2>3, FilesClose, ServerAssumption
  <2>4. CASE File!Seal(Main)
    BY <2>1, <2>2, <2>4, FilesSeal, ServerAssumption
  <2> QED BY <1>6, <2>3, <2>4 DEF CloseLast
<1>7. ASSUME NEW t \in Threads, Verify(t) \/ PrintRedis(t) PROVE FileInv'
  <2>1. UNCHANGED <<fileVars, main>>
    BY <1>7 DEF Verify, PrintRedis
  <2>2. CASE Verify(t)
    BY <1>a, <2>1, <2>2, FilesLeft DEF Verify, Counts
  <2>3. CASE PrintRedis(t)
    <3>1. out[t] = "redis" /\ out' \in {out, [out EXCEPT ![t] = "none"]} /\ UNCHANGED inbox
      BY <2>3 DEF PrintRedis
    <3>2. \A u \in Threads : out'[u] = "file" <=> out[u] = "file"
      BY <3>1 DEF Counts
    <3> QED BY <1>a, <2>1, <3>1, <3>2, FilesLeft
  <2> QED BY <1>7, <2>2, <2>3
<1>8. ASSUME NEW t \in Threads, Verdict(t) PROVE FileInv'
  <2>1. CASE "file" \in mode
    BY <1>8, <2>1, FilesStart DEF Verdict
  <2>2. CASE "file" \notin mode
    <3>1. UNCHANGED <<fileVars, main>> /\ out[t] = "none" /\ inbox[t] > 0
          /\ out' = [out EXCEPT ![t] = "redis"]
      BY <1>8, <2>2 DEF Verdict
    <3>2. \A u \in Threads : out'[u] = "file" <=> out[u] = "file"
      BY <3>1 DEF Counts
    <3>3. main \notin {"free", "exit"}
      BY <1>a, <3>1
    <3> QED BY <3>1, <3>2, <3>3, FilesLeft
  <2> QED BY <2>1, <2>2
<1>9. ASSUME NEW t \in Threads, PrintFile(t) PROVE FileInv'
  <2>1. CASE File!FileStep(t) /\ UNCHANGED out
    <3>1. Alive /\ out[t] = "file" /\ UNCHANGED <<main, out, inbox>>
      BY <1>9, <2>1 DEF PrintFile
    <3>2. CASE File!LockFile(t)
      BY <3>1, <3>2, FilesLock
    <3>3. CASE File!CloseOld(t)
      BY <3>1, <3>3, FilesClose, ServerAssumption
    <3>4. CASE File!Seal(t)
      BY <3>1, <3>4, FilesSeal, ServerAssumption
    <3>5. CASE File!OpenNew(t)
      BY <3>1, <3>5, FilesOpen
    <3>6. CASE File!OpenFails(t)
      BY <3>1, <3>6, FilesOpenFails
    <3> QED BY <2>1, <3>2, <3>3, <3>4, <3>5, <3>6 DEF File!FileStep
  <2>2. CASE File!Write(t, <<t, given[t]>>)
    <3>1. Alive /\ out[t] = "file" /\ UNCHANGED <<main, inbox>>
      BY <1>9 DEF PrintFile
    <3>2. out' = [out EXCEPT ![t] = "redis"] \/ out' = [out EXCEPT ![t] = "none"]
      <4>1. fpc[t] = "write" /\ fpc'[t] = "idle"
        BY <2>2 DEF FileInv, FileTypes, File!Write, File!Goto
      <4>2. ~(File!FileStep(t) /\ UNCHANGED out)
        BY <4>1 DEF File!FileStep, File!LockFile, File!CloseOld, File!Seal, File!OpenNew, File!OpenFails
      <4> QED BY <1>9, <4>2 DEF PrintFile
    <3>3. <<t, given[t]>> \in Verdicts
      BY DEF Verdicts, Counts
    <3> QED BY <2>2, <3>1, <3>2, <3>3, FilesWrite
  <2> QED BY <1>9, <2>1, <2>2 DEF PrintFile
<1>10. CASE Clock
  <2>1. /\ clock < MaxTime /\ clock' = clock + 1
        /\ UNCHANGED <<period, file, timestamp, fileLock, buffer, disk, sealed, written, failed, fpc, now>>
        /\ UNCHANGED <<main, out, inbox>>
    BY <1>10 DEF Clock, File!Tick
  <2>2. FileTypes'
    <3>1. clock' \in File!Names
      BY <2>1, ServerAssumption DEF FileInv, FileTypes, File!Names
    <3> QED BY <2>1, <3>1 DEF FileInv, FileTypes, File!Names
  <2>3. LockHeld' /\ FileStands' /\ FilesInOrder' /\ FileThere' /\ Printing'
    BY <2>1 DEF FileInv, LockHeld, FileStands, FilesInOrder, FileThere, Printing, File!Over, File!None
  <2>4. File!PeriodKept' /\ File!NothingErased'
    BY <2>1 DEF FileInv, File!PeriodKept, File!NothingErased
  <2> QED BY <2>2, <2>3, <2>4 DEF FileInv
<1>11. CASE RedisReader \/ RedisServer \/ SpuriousWakeup
  <2>1. UNCHANGED <<fileVars, main, inbox, out>>
    BY <1>11 DEF RedisReader, RedisServer, SpuriousWakeup
  <2> QED BY <1>a, <2>1, FilesLeft
<1> QED BY <1>1, <1>2, <1>3, <1>4, <1>5, <1>6, <1>7, <1>8, <1>9, <1>10, <1>11 DEF Next, MainStep, Worker

-----------------------------------------------------------------------------
(* Sequences that are cut and joined, *)
LEMMA AppendConcat ==
  ASSUME NEW S, NEW p \in Seq(S), NEW b \in Seq(S), NEW x \in S
  PROVE  p \o Append(b, x) = Append(p \o b, x)
<1>1. Append(b, x) = b \o <<x>> /\ p \o b \in Seq(S)
  BY AppendIsConcat, ConcatProperties
<1>2. Append(p \o b, x) = (p \o b) \o <<x>>
  BY <1>1, AppendIsConcat
<1>3. <<x>> \in Seq(S)
  OBVIOUS
<1>4. (p \o b) \o <<x>> = p \o (b \o <<x>>)
  BY <1>3, ConcatAssociative
<1> QED BY <1>1, <1>2, <1>4

LEMMA HeadAndTail ==
  ASSUME NEW S, NEW s \in Seq(S), s # <<>>
  PROVE  s = <<Head(s)>> \o Tail(s) /\ <<Head(s)>> \in Seq(S) /\ Tail(s) \in Seq(S) /\ Head(s) \in S
<1>1. Head(s) \in S /\ Tail(s) \in Seq(S) /\ Len(s) >= 1
  BY HeadTailProperties
<1>2. <<Head(s)>> \in Seq(S)
  BY <1>1
<1>3. s = <<Head(s)>> \o Tail(s)
  BY <1>1, <1>2, ConcatProperties, HeadTailProperties, SeqEqual
<1> QED BY <1>1, <1>2, <1>3

(* when the server answers, *)
LEMMA JoinAnswered ==
  ASSUME NEW S, NEW p \in Seq(S), NEW b \in Seq(S), NEW w \in Seq(S), w # <<>>
  PROVE  (p \o Append(b, Head(w))) \o Tail(w) = (p \o b) \o w
<1>1. PICK h \in S, r \in Seq(S) : h = Head(w) /\ r = Tail(w) /\ w = <<h>> \o r /\ <<h>> \in Seq(S)
  BY HeadAndTail
<1>2. Append(b, h) = b \o <<h>> /\ b \o <<h>> \in Seq(S) /\ p \o b \in Seq(S)
  BY <1>1, AppendIsConcat, ConcatProperties
<1>3. p \o (b \o <<h>>) = (p \o b) \o <<h>>
  BY <1>1, ConcatAssociative
<1>4. ((p \o b) \o <<h>>) \o r = (p \o b) \o (<<h>> \o r)
  BY <1>1, <1>2, ConcatAssociative
<1>5. p \o Append(b, h) = (p \o b) \o <<h>>
  BY <1>2, <1>3
<1> QED BY <1>1, <1>4, <1>5

(* and when the first answer is taken. *)
LEMMA JoinTail ==
  ASSUME NEW S, NEW p \in Seq(S), NEW b \in Seq(S), NEW w \in Seq(S), p # <<>>
  PROVE  /\ (p \o b) \o w \in Seq(S) /\ (p \o b) \o w # <<>>
         /\ Head((p \o b) \o w) = Head(p)
         /\ (Tail(p) \o b) \o w = Tail((p \o b) \o w)
<1>1. PICK h \in S, r \in Seq(S) : h = Head(p) /\ r = Tail(p) /\ p = <<h>> \o r /\ <<h>> \in Seq(S)
  BY HeadAndTail
<1>2. r \o b \in Seq(S) /\ b \o w \in Seq(S) /\ (r \o b) \o w \in Seq(S) /\ (p \o b) \o w \in Seq(S)
  BY <1>1, ConcatProperties
<1>3. (<<h>> \o r) \o b = <<h>> \o (r \o b)
  BY <1>1, ConcatAssociative
<1>4. (<<h>> \o (r \o b)) \o w = <<h>> \o ((r \o b) \o w)
  BY <1>1, <1>2, ConcatAssociative
<1>5. (p \o b) \o w = <<h>> \o ((r \o b) \o w)
  BY <1>1, <1>3, <1>4
<1>6. ASSUME NEW u \in Seq(S) PROVE Head(<<h>> \o u) = h /\ Tail(<<h>> \o u) = u /\ <<h>> \o u # <<>>
  <2>1. <<h>> \o u \in Seq(S) /\ Len(<<h>> \o u) = 1 + Len(u)
        /\ \A i \in 1 .. 1 + Len(u) : (<<h>> \o u)[i] = IF i <= 1 THEN h ELSE u[i - 1]
    BY <1>1, ConcatProperties
  <2>2. PICK v \in Seq(S) : v = <<h>> \o u
    BY <2>1
  <2>3. v # <<>> /\ Head(v) = h
    BY <2>1, <2>2
  <2>4. Tail(v) \in Seq(S) /\ Len(Tail(v)) = Len(u) /\ \A i \in 1 .. Len(u) : Tail(v)[i] = u[i]
    BY <2>1, <2>2, <2>3, HeadTailProperties
  <2>5. Tail(v) = u
    BY <2>4, SeqEqual
  <2> QED BY <2>2, <2>3, <2>5
<1>7. PICK u \in Seq(S) : u = (r \o b) \o w
  BY <1>2
<1>8. PICK q \in Seq(S) : q = (p \o b) \o w
  BY <1>2
<1>9. q = <<h>> \o u
  BY <1>5, <1>7, <1>8
<1>10. q # <<>> /\ Head(q) = h /\ Tail(q) = u
  BY <1>6, <1>9
<1>11. (Tail(p) \o b) \o w = u
  BY <1>1, <1>7
<1> QED BY <1>1, <1>8, <1>10, <1>11

(* Commands and records stay in step: one more thread waits, with a command of its
   own *)
LEMMA MatchAppend ==
  ASSUME NEW q \in Seq(Verdicts), NEW l \in Seq(Verdicts), NEW c \in Verdicts, Match(q, l),
         Len(q) = Len(l)
  PROVE  Match(Append(q, c), Append(l, c)) /\ Len(Append(q, c)) = Len(Append(l, c))
<1>1. Len(Append(q, c)) = Len(q) + 1 /\ Len(Append(l, c)) = Len(l) + 1
  OBVIOUS
<1>2. ASSUME NEW i \in 1 .. Len(q) + 1 PROVE Append(q, c)[i] = Append(l, c)[i]
  <2>1. CASE i <= Len(q)
    <3>1. Append(q, c)[i] = q[i] /\ Append(l, c)[i] = l[i]
      BY <2>1
    <3> QED BY <3>1, <2>1 DEF Match
  <2>2. CASE i = Len(q) + 1
    <3>1. Append(q, c)[i] = c /\ Append(l, c)[i] = c
      BY <2>2
    <3> QED BY <3>1
  <2> QED BY <2>1, <2>2
<1> QED BY <1>1, <1>2 DEF Match

(* or without, when the connection is gone; *)
LEMMA MatchMore ==
  ASSUME NEW q \in Seq(Verdicts), NEW l \in Seq(Verdicts), NEW c \in Verdicts, Match(q, l)
  PROVE  Match(q, Append(l, c))
BY SMTT(30) DEF Match

(* the first of them is answered; *)
LEMMA MatchTail ==
  ASSUME NEW q \in Seq(Verdicts), NEW l \in Seq(Verdicts), Match(q, l), q # <<>>
  PROVE  /\ l # <<>> /\ Head(q) = Head(l)
         /\ Match(Tail(q), Tail(l))
         /\ Len(q) = Len(l) => Len(Tail(q)) = Len(Tail(l))
<1>1. Len(q) >= 1 /\ Len(l) >= 1 /\ l # <<>>
  BY DEF Match
<1>2. Head(q) = Head(l)
  BY <1>1 DEF Match
<1>3. /\ Len(Tail(q)) = Len(q) - 1 /\ Len(Tail(l)) = Len(l) - 1
      /\ \A i \in 1 .. Len(q) - 1 : Tail(q)[i] = q[i + 1]
      /\ \A i \in 1 .. Len(l) - 1 : Tail(l)[i] = l[i + 1]
  BY <1>1, HeadTailProperties
<1>4. Match(Tail(q), Tail(l))
  BY <1>1, <1>3 DEF Match
<1> QED BY <1>1, <1>2, <1>3, <1>4

(* or the last commands are lost. *)
LEMMA MatchFront ==
  ASSUME NEW p \in Seq(Verdicts), NEW w \in Seq(Verdicts), NEW l \in Seq(Verdicts), Match(p \o w, l)
  PROVE  Match(p, l)
<1>1. Len(p \o w) = Len(p) + Len(w) /\ \A i \in 1 .. Len(p) : (p \o w)[i] = p[i]
  BY ConcatProperties
<1>2. Len(p) <= Len(l)
  BY <1>1 DEF Match
<1> QED BY <1>1, <1>2 DEF Match

-----------------------------------------------------------------------------
(* Every step of the connection, one lemma for each.  First those that move
   nothing between commands, answers and threads. *)
LEMMA Names ==
  /\ Redis!Nobody \notin Threads /\ Redis!Reader \notin Threads /\ Redis!Nobody # Redis!Reader
  /\ File!Nobody \notin Threads
BY ServerAssumption DEF Redis!Nobody, Redis!Reader, File!Nobody

(* Records of the list: their threads, and whether they wait. *)
LEMMA InList ==
  ASSUME ReplyInv, NEW i \in DOMAIN waiters
  PROVE  /\ waiters[i] \in Verdicts /\ waiters[i][1] \in Threads
         /\ \/ /\ rpc[waiters[i][1]] \in {"owner", "asleep"}
               /\ waiters[i][2] = asked[waiters[i][1]]
            \/ waiters[i] \in strayed
BY DEF ReplyInv, RedisTypes, Redis!WaitersWait, Verdicts

(* A record that is gone is one whose thread woke without a signal. *)
LEMMA GoneStrayed ==
  ASSUME ReplyInv, NEW i \in DOMAIN waiters, Redis!Gone(waiters[i])
  PROVE  strayed # {}
BY InList DEF Redis!Gone

LEMMA ReplyCrash ==
  ASSUME ReplyInv, Redis!Crash, strayed # {} \/ ~linked
  PROVE  ReplyInv'
<1> USE DEF Redis!Crash
<1>1. RedisTypes' /\ MutexHeld' /\ WaitOnce' /\ Lost'
  BY DEF ReplyInv, RedisTypes, MutexHeld, WaitOnce, Lost, Redis!Nobody, Redis!Reader, Redis!NoReply
<1>2. Commands' = Commands /\ Line' = Line
  BY DEF Commands, Line
<1>3. InStep'
  BY <1>2 DEF ReplyInv, InStep
<1>4. Redis!OwnReply' /\ Redis!WaitersWait' /\ Redis!CrashExplained'
  BY DEF ReplyInv, Redis!OwnReply, Redis!WaitersWait, Redis!CrashExplained, Redis!NoReply
<1> QED BY <1>1, <1>3, <1>4 DEF ReplyInv

LEMMA ReplyAsk ==
  ASSUME ReplyInv, NEW t \in Threads, Redis!Ask(t)
  PROVE  ReplyInv'
<1> USE DEF Redis!Ask, Redis!Goto
<1>1. RedisTypes'
  BY DEF ReplyInv, RedisTypes, Redis!NoReply, Redis!Nobody, Redis!Reader
<1>2. MutexHeld' /\ WaitOnce' /\ Lost'
  BY DEF ReplyInv, RedisTypes, MutexHeld, WaitOnce, Lost, Redis!Reader
<1>3. Commands' = Commands
  BY DEF Commands
<1>4. Line' = Line
  <2>1. mutex # t
    BY DEF ReplyInv, MutexHeld
  <2> QED BY <2>1 DEF Line, ReplyInv, RedisTypes
<1>8. InStep'
  BY <1>3, <1>4 DEF ReplyInv, InStep
<1>9. Redis!OwnReply' /\ Redis!CrashExplained'
  BY DEF ReplyInv, RedisTypes, Redis!OwnReply, Redis!NoReply, Redis!CrashExplained
<1>10. Redis!WaitersWait'
  <2> SUFFICES ASSUME NEW i \in DOMAIN waiters
               PROVE  \/ /\ rpc'[waiters[i][1]] \in {"owner", "asleep"}
                         /\ waiters[i][2] = asked'[waiters[i][1]]
                      \/ waiters[i] \in strayed
    BY DEF Redis!WaitersWait
  <2>1. CASE waiters[i][1] = t
    BY <2>1, InList
  <2>2. CASE waiters[i][1] # t
    BY <2>2, InList DEF ReplyInv, RedisTypes
  <2> QED BY <2>1, <2>2
<1> QED BY <1>1, <1>2, <1>8, <1>9, <1>10 DEF ReplyInv

LEMMA ReplyLock ==
  ASSUME ReplyInv, NEW t \in Threads,
         Redis!LockRedis(t) \/ Redis!Sleep(t) \/ Redis!Return(t) \/ Redis!Spurious(t)
  PROVE  ReplyInv'
<1> USE DEF Redis!LockRedis, Redis!Sleep, Redis!Return, Redis!Spurious, Redis!Goto
<1>a. strayed' \in {strayed, strayed \cup {<<t, asked[t]>>}} /\ <<t, asked[t]>> \in Verdicts
  BY DEF ReplyInv, RedisTypes, Verdicts
<1>1. RedisTypes'
  BY <1>a DEF ReplyInv, RedisTypes, Redis!Nobody, Redis!Reader
<1>2. MutexHeld'
  BY Names DEF ReplyInv, RedisTypes, MutexHeld
<1>3. WaitOnce' /\ Lost'
  <2>1. rpc \in [Threads -> {"idle", "lock", "write", "enqueue", "owner", "asleep", "awake"}]
    BY DEF ReplyInv, RedisTypes
  <2>2. WaitOnce'
    <3>1. reader = "signal" /\ woken = t => rpc'[t] \in {"owner", "asleep"} \/ strayed' # {}
      BY <2>1 DEF ReplyInv, WaitOnce
    <3>2. strayed # {} => strayed' # {}
      BY <1>a
    <3> QED BY <2>1, <3>1, <3>2 DEF ReplyInv, WaitOnce
  <2> QED BY <2>2 DEF ReplyInv, Lost
<1>4. Commands' = Commands
  BY DEF Commands
<1>5. Line' = Line
  BY Names DEF Line, ReplyInv, RedisTypes
<1>6. InStep'
  BY <1>4, <1>5 DEF ReplyInv, InStep
<1>7. Redis!OwnReply' /\ Redis!CrashExplained'
  <2>1. Redis!OwnReply'
    BY DEF ReplyInv, Redis!OwnReply, Redis!NoReply
  <2>2. strayed # {} => strayed' # {}
    BY <1>a
  <2>3. Redis!CrashExplained'
    BY <2>2 DEF ReplyInv, Redis!CrashExplained
  <2> QED BY <2>1, <2>3
<1>8. Redis!WaitersWait'
  <2> SUFFICES ASSUME NEW i \in DOMAIN waiters
               PROVE  \/ /\ rpc'[waiters[i][1]] \in {"owner", "asleep"}
                         /\ waiters[i][2] = asked[waiters[i][1]]
                      \/ waiters[i] \in strayed'
    BY DEF Redis!WaitersWait
  <2>0. rpc \in [Threads -> {"idle", "lock", "write", "enqueue", "owner", "asleep", "awake"}]
    BY DEF ReplyInv, RedisTypes
  <2>1. CASE Redis!Spurious(t) /\ waiters[i][1] = t /\ waiters[i][2] = asked[t]
    <3>1. waiters[i] = <<t, asked[t]>>
      BY <2>1, InList DEF Verdicts
    <3> QED BY <2>1, <3>1
  <2>2. CASE Redis!Spurious(t) /\ ~(waiters[i][1] = t /\ waiters[i][2] = asked[t])
    BY <2>0, <2>2, <1>a, InList
  <2>3. CASE ~Redis!Spurious(t)
    BY <2>0, <2>3, <1>a, InList
  <2> QED BY <2>1, <2>2, <2>3
<1> QED BY <1>1, <1>2, <1>3, <1>6, <1>7, <1>8 DEF ReplyInv

LEMMA ReplyWrite ==
  ASSUME ReplyInv, NEW t \in Threads, Redis!WriteCommand(t)
  PROVE  ReplyInv'
<1> USE DEF Redis!WriteCommand, Redis!Goto
<1>0. /\ mutex = t /\ Line = waiters /\ reader \notin {"deliver", "signal", "fail"}
      /\ Commands \in Seq(Verdicts) /\ waiters \in Seq(Verdicts)
      /\ <<t, asked[t]>> \in Verdicts
  <2>1. mutex = t /\ reader \notin {"deliver", "signal", "fail"}
    BY Names DEF ReplyInv, MutexHeld
  <2>2. Line = waiters
    BY <2>1 DEF Line
  <2>3. Commands \in Seq(Verdicts)
    BY ConcatProperties DEF ReplyInv, RedisTypes, Commands
  <2>4. <<t, asked[t]>> \in Verdicts /\ waiters \in Seq(Verdicts)
    BY DEF ReplyInv, RedisTypes, Verdicts
  <2> QED BY <2>1, <2>2, <2>3, <2>4
<1>b. \/ rpc' = [rpc EXCEPT ![t] = "enqueue"] /\ mutex' = mutex /\ err' = err
         /\ wire' = IF server THEN Append(wire, <<t, asked[t]>>) ELSE wire
      \/ rpc' = [rpc EXCEPT ![t] = "idle"] /\ mutex' = Redis!Nobody /\ err' = TRUE /\ wire' = wire
         /\ (err \/ ~server)
  OBVIOUS
<1>1. RedisTypes'
  <2>1. wire' \in Seq(Verdicts)
    <3>1. PICK c \in Verdicts : c = <<t, asked[t]>>
      BY <1>0
    <3>2. wire' \in {wire, Append(wire, c)} /\ wire \in Seq(Verdicts)
      BY <1>b, <3>1 DEF ReplyInv, RedisTypes
    <3> QED BY <3>2
  <2>2. /\ rpc' \in [Threads -> {"idle", "lock", "write", "enqueue", "owner", "asleep", "awake"}]
        /\ mutex' \in Threads \cup {Redis!Nobody, Redis!Reader} /\ err' \in BOOLEAN
    BY <1>b DEF ReplyInv, RedisTypes
  <2>3. UNCHANGED <<linked, waiters, reply, asked, reader, parsed, woken, strayed, back, server>>
    OBVIOUS
  <2> HIDE DEF Redis!WriteCommand
  <2> QED BY <2>1, <2>2, <2>3 DEF ReplyInv, RedisTypes, Redis!Nobody, Redis!Reader, Redis!NoReply
<1>2. MutexHeld'
  <2>1. mutex' # Redis!Reader /\ reader' = reader /\ parsed' = parsed
    BY <1>b, <1>0, Names
  <2>2. \A u \in Threads : mutex' = u <=> rpc'[u] \in {"write", "enqueue"}
    <3>1. \A u \in Threads : u # t => rpc'[u] = rpc[u] /\ rpc[u] \notin {"write", "enqueue"}
      BY <1>0, <1>b DEF ReplyInv, RedisTypes, MutexHeld
    <3>2. rpc'[t] \in {"write", "enqueue"} <=> mutex' = t
      BY <1>0, <1>b, Names DEF ReplyInv, RedisTypes
    <3>3. \A u \in Threads : u # t => mutex' # u
      BY <1>0, <1>b, Names
    <3> QED BY <3>1, <3>2, <3>3
  <2> QED BY <1>0, <2>1, <2>2 DEF ReplyInv, MutexHeld
<1>3. WaitOnce' /\ Lost'
  BY <1>0 DEF ReplyInv, RedisTypes, WaitOnce, Lost
<1>4. InStep'
  <2> SUFFICES ASSUME reader = "poll"
               PROVE  Match(Commands', Line') /\ (server => Len(Commands') = Len(Line'))
    BY <1>0 DEF InStep, ReplyInv, RedisTypes
  <2>0. Match(Commands, waiters) /\ (server => Len(Commands) = Len(waiters))
    BY <1>0 DEF ReplyInv, InStep
  <2>a. PICK c \in Verdicts : c = <<t, asked[t]>>
    BY <1>0
  <2>1. CASE rpc' = [rpc EXCEPT ![t] = "enqueue"] /\ mutex' = mutex
             /\ wire' = IF server THEN Append(wire, <<t, asked[t]>>) ELSE wire
    <3>1. Line' = Append(waiters, c)
      BY <2>1, <2>a, <1>0 DEF Line, ReplyInv, RedisTypes
    <3>2. CASE server
      <4>2. Commands' = (parsed \o back) \o Append(wire, c)
        BY <2>1, <2>a, <3>2 DEF Commands
      <4>3. parsed \o back \in Seq(Verdicts) /\ wire \in Seq(Verdicts)
        BY ConcatProperties DEF ReplyInv, RedisTypes
      <4>4. Commands' = Append(Commands, c)
        BY <4>2, <4>3, AppendConcat DEF Commands
      <4> QED BY <1>0, <2>0, <3>1, <3>2, <4>4, MatchAppend
    <3>3. CASE ~server
      <4>1. Commands' = Commands
        BY <2>1, <3>3 DEF Commands
      <4>2. Match(Commands, Append(waiters, c))
        BY <1>0, <2>0, MatchMore
      <4> QED BY <3>1, <3>3, <4>1, <4>2
    <3> QED BY <3>2, <3>3
  <2>2. CASE mutex' = Redis!Nobody /\ wire' = wire /\ rpc' = [rpc EXCEPT ![t] = "idle"]
    <3>1. Commands' = Commands /\ Line' = waiters
      BY <2>2, Names DEF Commands, Line
    <3> QED BY <2>0, <3>1
  <2> QED BY <2>1, <2>2
<1>5. Redis!OwnReply' /\ Redis!CrashExplained'
  BY DEF ReplyInv, Redis!OwnReply, Redis!CrashExplained
<1>6. Redis!WaitersWait'
  <2> SUFFICES ASSUME NEW i \in DOMAIN waiters
               PROVE  \/ /\ rpc'[waiters[i][1]] \in {"owner", "asleep"}
                         /\ waiters[i][2] = asked[waiters[i][1]]
                      \/ waiters[i] \in strayed
    BY DEF Redis!WaitersWait
  <2>1. rpc[t] = "write" /\ rpc \in [Threads -> {"idle", "lock", "write", "enqueue", "owner", "asleep", "awake"}]
    BY DEF ReplyInv, RedisTypes
  <2> QED BY <1>b, <2>1, InList
<1> QED BY <1>1, <1>2, <1>3, <1>4, <1>5, <1>6 DEF ReplyInv

LEMMA ReplyEnqueue ==
  ASSUME ReplyInv, NEW t \in Threads, Redis!Enqueue(t)
  PROVE  ReplyInv'
<1>p. CASE Redis!Crash /\ waiters # <<>> /\ Redis!Gone(Redis!Last(waiters))
  <2>1. waiters \in Seq(Verdicts) /\ waiters # <<>> /\ Redis!Last(waiters) = waiters[Len(waiters)]
    BY <1>p DEF ReplyInv, RedisTypes, Redis!Last
  <2>2. Len(waiters) \in DOMAIN waiters
    BY <2>1
  <2>3. strayed # {}
    BY <1>p, <2>1, <2>2, GoneStrayed
  <2> QED BY <1>p, <2>3, ReplyCrash
<1>q. CASE Redis!Crash /\ \E i \in DOMAIN waiters : waiters[i][1] = t
  <2>1. strayed # {}
    BY <1>q, InList DEF Redis!Enqueue
  <2> QED BY <1>q, <2>1, ReplyCrash
<1>r. CASE ~(\/ waiters # <<>> /\ Redis!Gone(Redis!Last(waiters))
            \/ \E i \in DOMAIN waiters : waiters[i][1] = t)
  <2> DEFINE c == <<t, asked[t]>>
  <2>0. /\ rpc[t] = "enqueue" /\ mutex' = Redis!Nobody
        /\ rpc' = [rpc EXCEPT ![t] = "owner"] /\ waiters' = Append(waiters, c)
        /\ \A i \in DOMAIN waiters : waiters[i][1] # t
        /\ UNCHANGED <<linked, err, reply, asked, reader, parsed, woken, strayed, crashed, wire, back, server>>
    BY <1>r DEF Redis!Enqueue, Redis!Goto
  <2>1. /\ mutex = t /\ reader \notin {"deliver", "signal", "fail"} /\ waiters \in Seq(Verdicts)
        /\ c \in Verdicts /\ c[1] = t /\ c[2] = asked[t]
    BY <2>0, Names DEF ReplyInv, RedisTypes, MutexHeld, Verdicts
  <2>a. Line = Append(waiters, c)
    BY <2>0, <2>1 DEF Line
  <2> HIDE DEF c
  <2>2. /\ Len(Append(waiters, c)) = Len(waiters) + 1
        /\ \A i \in 1 .. Len(waiters) : Append(waiters, c)[i] = waiters[i]
        /\ Append(waiters, c)[Len(waiters) + 1] = c
        /\ Append(waiters, c) \in Seq(Verdicts)
    BY <2>1
  <2>3. RedisTypes'
    BY <2>0, <2>1, <2>2 DEF ReplyInv, RedisTypes, Redis!Nobody, Redis!Reader, Redis!NoReply
  <2>4. MutexHeld'
    BY <2>0, <2>1, Names DEF ReplyInv, RedisTypes, MutexHeld
  <2>5. WaitOnce' /\ Lost'
    BY <2>0, <2>1, <2>2 DEF ReplyInv, WaitOnce, Lost
  <2>6. Commands' = Commands
    BY <2>0 DEF Commands
  <2>7. Line' = Line
    BY <2>0, <2>a, Names DEF Line
  <2>8. InStep'
    BY <2>0, <2>6, <2>7 DEF ReplyInv, InStep
  <2>9. Redis!OwnReply' /\ Redis!CrashExplained'
    BY <2>0 DEF ReplyInv, Redis!OwnReply, Redis!CrashExplained, Redis!NoReply
  <2>10. Redis!WaitersWait'
    <3> SUFFICES ASSUME NEW i \in DOMAIN waiters'
                 PROVE  \/ /\ rpc'[waiters'[i][1]] \in {"owner", "asleep"}
                           /\ waiters'[i][2] = asked'[waiters'[i][1]]
                        \/ waiters'[i] \in strayed'
      BY DEF Redis!WaitersWait
    <3>0. rpc \in [Threads -> {"idle", "lock", "write", "enqueue", "owner", "asleep", "awake"}]
      BY DEF ReplyInv, RedisTypes
    <3>1. CASE i \in 1 .. Len(waiters)
      <4>1. waiters'[i] = waiters[i] /\ i \in DOMAIN waiters
        BY <2>0, <2>1, <2>2, <3>1
      <4> QED BY <2>0, <3>0, <4>1, InList
    <3>2. CASE i = Len(waiters) + 1
      <4>1. waiters'[i] = c
        BY <2>0, <2>2, <3>2
      <4> QED BY <2>0, <2>1, <3>0, <4>1
    <3> QED BY <2>0, <2>1, <2>2, <3>1, <3>2
  <2> QED BY <2>3, <2>4, <2>5, <2>8, <2>9, <2>10 DEF ReplyInv
<1> QED BY <1>p, <1>q, <1>r DEF Redis!Enqueue

(* The reader has answers, in the order they came. *)
LEMMA ReplyRead ==
  ASSUME ReplyInv, Redis!Read
  PROVE  ReplyInv'
<1> USE DEF Redis!Read
<1>0. /\ reader = "poll" /\ parsed = <<>> /\ mutex = Redis!Nobody /\ mutex' = Redis!Reader
      /\ back \in Seq(Verdicts) /\ wire \in Seq(Verdicts) /\ Len(back) \in Nat
      /\ \A u \in Threads : rpc[u] \notin {"write", "enqueue"}
  BY Names DEF ReplyInv, RedisTypes, MutexHeld
<1>1. CASE err \/ back = <<>>
  <2>1. ~server
    BY <1>1, <1>0 DEF ReplyInv, Lost
  <2>2. /\ reader' = "fail"
        /\ UNCHANGED <<linked, err, server, waiters, woken, rpc, reply, asked, strayed, crashed, parsed, back, wire>>
    BY <1>1
  <2>3. RedisTypes'
    BY <1>0, <2>2 DEF ReplyInv, RedisTypes, Redis!Nobody, Redis!Reader, Redis!NoReply
  <2>4. MutexHeld'
    BY <1>0, <2>2, Names DEF MutexHeld
  <2>5. WaitOnce' /\ Lost' /\ InStep'
    BY <2>1, <2>2 DEF ReplyInv, WaitOnce, Lost, InStep
  <2>6. Redis!OwnReply' /\ Redis!WaitersWait' /\ Redis!CrashExplained'
    BY <2>2 DEF ReplyInv, Redis!OwnReply, Redis!WaitersWait, Redis!CrashExplained, Redis!NoReply
  <2> QED BY <2>3, <2>4, <2>5, <2>6 DEF ReplyInv
<1>2. CASE ~(err \/ back = <<>>)
  <2>1. PICK n \in 1 .. Len(back) : parsed' = SubSeq(back, 1, n) /\ back' = SubSeq(back, n + 1, Len(back))
    BY <1>2
  <2>2. /\ reader' = "deliver"
        /\ UNCHANGED <<linked, err, server, waiters, woken, rpc, reply, asked, strayed, crashed, wire>>
    BY <1>2
  <2>3. parsed' \in Seq(Verdicts) /\ back' \in Seq(Verdicts) /\ parsed' # <<>>
    <3>1. parsed' \in Seq(Verdicts) /\ Len(parsed') = n
      BY <1>0, <2>1, SubSeqProperties, ElementOfSeq
    <3>2. back' \in Seq(Verdicts)
      BY SMTT(30), <1>0, <2>1, SubSeqProperties, ElementOfSeq
    <3> QED BY <3>1, <3>2
  <2>4. parsed' \o back' = back
    <3>1. SubSeq(back, 1, n) \o SubSeq(back, n + 1, Len(back)) = SubSeq(back, 1, Len(back))
      BY <1>0, ConcatAdjacentSubSeq
    <3>2. SubSeq(back, 1, Len(back)) = back
      BY <1>0, SubSeqFull
    <3> QED BY <2>1, <3>1, <3>2
  <2>5. parsed \o back = back
    BY <1>0, ConcatEmptySeq
  <2>6. Commands' = Commands
    BY <2>2, <2>4, <2>5 DEF Commands
  <2>7. Line' = Line
    BY <1>0, <2>2, Names DEF Line
  <2>8. RedisTypes'
    BY <1>0, <2>2, <2>3 DEF ReplyInv, RedisTypes, Redis!Nobody, Redis!Reader, Redis!NoReply
  <2>9. MutexHeld'
    BY <1>0, <2>2, <2>3, Names DEF MutexHeld
  <2>10. WaitOnce' /\ Lost' /\ InStep'
    BY <1>0, <2>2, <2>6, <2>7 DEF ReplyInv, WaitOnce, Lost, InStep
  <2>11. Redis!OwnReply' /\ Redis!WaitersWait' /\ Redis!CrashExplained'
    BY <2>2 DEF ReplyInv, Redis!OwnReply, Redis!WaitersWait, Redis!CrashExplained, Redis!NoReply
  <2> QED BY <2>8, <2>9, <2>10, <2>11 DEF ReplyInv
<1> QED BY <1>1, <1>2

LEMMA FirstCommand ==
  ASSUME parsed \in Seq(Verdicts), back \in Seq(Verdicts), wire \in Seq(Verdicts), parsed # <<>>
  PROVE  /\ Commands \in Seq(Verdicts) /\ Commands # <<>> /\ Head(Commands) = Head(parsed)
         /\ (Tail(parsed) \o back) \o wire = Tail(Commands)
<1>1. Commands \in Seq(Verdicts)
  BY JoinTail DEF Commands
<1>2. Commands # <<>>
  BY JoinTail DEF Commands
<1>3. Head(Commands) = Head(parsed)
  BY JoinTail DEF Commands
<1>4. (Tail(parsed) \o back) \o wire = Tail(Commands)
  BY SMTT(30), JoinTail DEF Commands
<1> QED BY <1>1, <1>2, <1>3, <1>4

(* An answer goes to the thread it is for: there is one, and it is the first. *)
LEMMA ReplyDeliver ==
  ASSUME ReplyInv, Redis!Deliver
  PROVE  ReplyInv'
<1>0. /\ reader = "deliver" /\ parsed # <<>> /\ mutex = Redis!Reader
      /\ parsed \in Seq(Verdicts) /\ back \in Seq(Verdicts) /\ wire \in Seq(Verdicts)
      /\ waiters \in Seq(Verdicts) /\ asked \in [Threads -> Nat]
      /\ reply \in [Threads -> {Redis!NoReply} \cup Verdicts]
  BY DEF ReplyInv, RedisTypes, MutexHeld, Redis!Deliver
<1>1. Line = waiters
  BY <1>0, Names DEF Line
<1>2. /\ Commands \in Seq(Verdicts) /\ Commands # <<>> /\ Head(Commands) = Head(parsed)
      /\ (Tail(parsed) \o back) \o wire = Tail(Commands)
  BY <1>0, FirstCommand
<1>3. Match(Commands, waiters) /\ (server => Len(Commands) = Len(waiters))
  BY <1>0, <1>1 DEF ReplyInv, InStep
<1>4. /\ waiters # <<>> /\ Head(parsed) = Head(waiters)
      /\ Match(Tail(Commands), Tail(waiters))
      /\ server => Len(Tail(Commands)) = Len(Tail(waiters))
  BY <1>0, <1>2, <1>3, MatchTail
<1>5. PICK c \in Verdicts : c = Head(waiters) /\ c = waiters[1]
  BY <1>0, <1>4
<1>a. 1 \in DOMAIN waiters
  BY <1>0, <1>4
<1>b. CASE Redis!Gone(c)
  <2>1. strayed # {}
    BY <1>5, <1>a, <1>b, GoneStrayed
  <2>2. Redis!Crash
    BY <1>5, <1>b DEF Redis!Deliver
  <2> QED BY <2>1, <2>2, ReplyCrash
<1>c. CASE ~Redis!Gone(c)
  <2> DEFINE h == c[1]
  <2>1. /\ woken' = h /\ waiters' = Tail(waiters) /\ parsed' = Tail(parsed) /\ reader' = "signal"
        /\ reply' = [reply EXCEPT ![h] = c]
        /\ UNCHANGED <<linked, err, mutex, rpc, asked, strayed, crashed, wire, back, server>>
    BY <1>4, <1>5, <1>c DEF Redis!Deliver
  <2>2. h \in Threads /\ c = <<h, c[2]>> /\ c[2] = asked[h]
        /\ rpc[h] \in {"owner", "asleep", "awake"}
    BY <1>c DEF Redis!Gone, Verdicts
  <2>3. rpc[h] \in {"owner", "asleep"} \/ strayed # {}
    BY <1>5, <1>a, InList
  <2> HIDE DEF h
  <2>4. /\ Tail(parsed) \in Seq(Verdicts) /\ Tail(waiters) \in Seq(Verdicts)
        /\ Len(Tail(waiters)) = Len(waiters) - 1 /\ Len(waiters) \in Nat
        /\ \A i \in 1 .. Len(waiters) - 1 : Tail(waiters)[i] = waiters[i + 1]
    BY <1>0, <1>4, HeadTailProperties
  <2>5. RedisTypes'
    BY <1>0, <2>1, <2>2, <2>4 DEF ReplyInv, RedisTypes, Redis!Nobody, Redis!Reader, Redis!NoReply
  <2>6. MutexHeld'
    BY <1>0, <2>1, Names DEF ReplyInv, MutexHeld
  <2>7. \A i \in DOMAIN waiters' : i \in 1 .. Len(waiters) - 1 /\ i + 1 \in DOMAIN waiters /\ waiters'[i] = waiters[i + 1]
    BY <1>0, <2>1, <2>4
  <2>8. WaitOnce'
    <3>1. ASSUME NEW i \in DOMAIN waiters', NEW j \in DOMAIN waiters', waiters'[i][1] = waiters'[j][1] PROVE i = j
      BY <2>7, <3>1 DEF ReplyInv, WaitOnce
    <3>2. ASSUME NEW i \in DOMAIN waiters' PROVE waiters'[i][1] # h
      <4>1. i + 1 \in DOMAIN waiters /\ waiters'[i] = waiters[i + 1] /\ i + 1 # 1
        BY <2>7
      <4>2. waiters[1][1] # waiters[i + 1][1]
        BY <4>1, <1>a DEF ReplyInv, WaitOnce
      <4> QED BY <4>1, <4>2, <1>5 DEF h
    <3> QED BY <2>1, <2>2, <2>3, <3>1, <3>2 DEF WaitOnce
  <2>9. Lost'
    BY <1>0, <2>1 DEF ReplyInv, Lost
  <2>10. InStep'
    <3>1. Commands' = Tail(Commands)
      BY <1>2, <2>1 DEF Commands
    <3>2. Line' = Tail(waiters)
      BY <1>0, <2>1, Names DEF Line
    <3> QED BY <1>4, <2>1, <3>1, <3>2 DEF InStep
  <2>11. Redis!OwnReply' /\ Redis!CrashExplained'
    BY <1>0, <2>1, <2>2 DEF ReplyInv, Redis!OwnReply, Redis!NoReply, Redis!CrashExplained
  <2>12. Redis!WaitersWait'
    BY <2>1, <2>7 DEF ReplyInv, Redis!WaitersWait
  <2> QED BY <2>5, <2>6, <2>8, <2>9, <2>10, <2>11, <2>12 DEF ReplyInv
<1> QED BY <1>b, <1>c

(* The reader wakes the thread it has answered, or every one when the connection
   is lost: none of them is in the list any more. *)
LEMMA ReplyWake ==
  ASSUME ReplyInv, Redis!Signal \/ Redis!FailOne, ~Redis!Crash
  PROVE  ReplyInv'
<1>0. PICK t \in Threads : /\ rpc' = IF rpc[t] = "asleep" THEN [rpc EXCEPT ![t] = "awake"] ELSE rpc
                           /\ \A i \in DOMAIN waiters' : waiters'[i][1] # t
  <2>1. CASE Redis!Signal
    <3>1. woken \in Threads /\ \A i \in DOMAIN waiters : waiters[i][1] # woken
      BY <2>1 DEF ReplyInv, WaitOnce, Redis!Signal
    <3> QED BY <2>1, <3>1 DEF Redis!Signal, Redis!Wake
  <2>2. CASE Redis!FailOne
    <3>1. waiters \in Seq(Verdicts) /\ waiters # <<>>
      BY <2>2 DEF ReplyInv, RedisTypes, Redis!FailOne
    <3>2. Head(waiters) = waiters[1] /\ 1 \in DOMAIN waiters
      BY <3>1
    <3>3. PICK h \in Threads : h = Head(waiters)[1] /\ h = waiters[1][1]
      BY <3>2, InList
    <3>4. \A i \in DOMAIN Tail(waiters) : i + 1 \in DOMAIN waiters /\ i + 1 # 1 /\ Tail(waiters)[i] = waiters[i + 1]
      BY <3>1, HeadTailProperties
    <3>5. \A i \in DOMAIN Tail(waiters) : Tail(waiters)[i][1] # h
      BY <3>2, <3>3, <3>4 DEF ReplyInv, WaitOnce
    <3> QED BY <2>2, <3>3, <3>5 DEF Redis!FailOne, Redis!Wake
  <2> QED BY <2>1, <2>2
<1>1. rpc \in [Threads -> {"idle", "lock", "write", "enqueue", "owner", "asleep", "awake"}]
  BY DEF ReplyInv, RedisTypes
<1>a. rpc' \in [Threads -> {"idle", "lock", "write", "enqueue", "owner", "asleep", "awake"}]
      /\ \A u \in Threads : u # t => rpc'[u] = rpc[u]
  BY <1>0, <1>1
<1>2. \A u \in Threads : rpc'[u] \in {"write", "enqueue"} <=> rpc[u] \in {"write", "enqueue"}
  BY <1>0, <1>1
<1>3. UNCHANGED <<linked, err, reply, asked, parsed, strayed, crashed, wire, back, server>>
  BY DEF Redis!Signal, Redis!FailOne
<1>4. mutex = Redis!Reader /\ \A u \in Threads : rpc[u] \notin {"write", "enqueue"}
  BY Names DEF ReplyInv, MutexHeld, Redis!Signal, Redis!FailOne
<1>5. /\ mutex' \in {Redis!Reader, Redis!Nobody}
      /\ mutex' = Redis!Reader <=> reader' \in {"deliver", "signal", "fail"}
      /\ reader' = "deliver" => parsed # <<>>
      /\ reader' \in {"poll", "fail", "ended"} => parsed = <<>>
      /\ reader' \in {"poll", "deliver", "fail"}
      /\ reader' = "fail" => reader = "fail"
      /\ reader' # "fail" => reader = "signal" /\ UNCHANGED waiters
      /\ woken' \in Threads \cup {Redis!Nobody}
  BY <1>4, Names DEF ReplyInv, RedisTypes, MutexHeld, Redis!Signal, Redis!FailOne
<1>6. waiters' \in Seq(Verdicts)
  BY HeadTailProperties DEF ReplyInv, RedisTypes, Redis!Signal, Redis!FailOne
<1>7. \E k \in {0, 1} : \A j \in DOMAIN waiters' : j + k \in DOMAIN waiters /\ waiters'[j] = waiters[j + k]
  <2>1. CASE Redis!Signal
    <3>1. waiters' = waiters /\ waiters \in Seq(Verdicts)
      BY <2>1 DEF Redis!Signal, ReplyInv, RedisTypes
    <3> QED BY <3>1
  <2>2. CASE Redis!FailOne
    <3>1. waiters' = Tail(waiters) /\ waiters \in Seq(Verdicts) /\ waiters # <<>>
      BY <2>2 DEF Redis!FailOne, ReplyInv, RedisTypes
    <3> QED BY <3>1, HeadTailProperties
  <2> QED BY <2>1, <2>2
<1>8. RedisTypes'
  BY <1>a, <1>3, <1>5, <1>6 DEF ReplyInv, RedisTypes, Redis!Nobody, Redis!Reader, Redis!NoReply
<1>9. MutexHeld'
  BY <1>2, <1>3, <1>4, <1>5, Names DEF MutexHeld
<1>k. PICK k \in {0, 1} : \A m \in DOMAIN waiters' : m + k \in DOMAIN waiters /\ waiters'[m] = waiters[m + k]
  BY <1>7
<1>10. WaitOnce'
  <2>1. ASSUME NEW i \in DOMAIN waiters', NEW j \in DOMAIN waiters', waiters'[i][1] = waiters'[j][1] PROVE i = j
    <3>2. i + k = j + k
      BY <2>1, <1>k DEF ReplyInv, WaitOnce
    <3>3. i \in Nat /\ j \in Nat
      BY <1>6
    <3> QED BY <3>2, <3>3
  <2> QED BY <1>5, <2>1 DEF WaitOnce
<1>11. Lost'
  BY <1>3, <1>5 DEF ReplyInv, Lost
<1>12. InStep'
  <2> SUFFICES ASSUME reader' # "fail" PROVE Commands' = Commands /\ Line' = Line
    BY <1>3, <1>5 DEF ReplyInv, InStep
  <2>1. Commands' = Commands
    BY <1>3 DEF Commands
  <2>2. Line' = Line
    BY <1>4, <1>5, Names DEF Line
  <2> QED BY <2>1, <2>2
<1>13. Redis!OwnReply' /\ Redis!CrashExplained'
  BY <1>3 DEF ReplyInv, Redis!OwnReply, Redis!NoReply, Redis!CrashExplained
<1>14. Redis!WaitersWait'
  <2> SUFFICES ASSUME NEW i \in DOMAIN waiters'
               PROVE  \/ /\ rpc'[waiters'[i][1]] \in {"owner", "asleep"}
                         /\ waiters'[i][2] = asked'[waiters'[i][1]]
                      \/ waiters'[i] \in strayed'
    BY DEF Redis!WaitersWait
  <2>1. i + k \in DOMAIN waiters /\ waiters'[i] = waiters[i + k]
    BY <1>k
  <2> QED BY <1>0, <1>a, <1>3, <2>1, InList
<1> QED BY <1>8, <1>9, <1>10, <1>11, <1>12, <1>13, <1>14 DEF ReplyInv

(* Or the thread has returned since: it had woken by itself. *)
LEMMA ReplyWakeGone ==
  ASSUME ReplyInv, Redis!Signal \/ Redis!FailOne, Redis!Crash
  PROVE  ReplyInv'
<1>1. crashed' = TRUE
  BY DEF Redis!Crash
<1>2. strayed # {} \/ crashed
  <2>1. CASE Redis!Signal /\ rpc[woken] \notin {"owner", "asleep", "awake"}
    BY <2>1 DEF ReplyInv, WaitOnce, Redis!Signal
  <2>2. CASE Redis!FailOne /\ Redis!Gone(Head(waiters))
    <3>1. waiters \in Seq(Verdicts) /\ waiters # <<>>
      BY <2>2 DEF ReplyInv, RedisTypes, Redis!FailOne
    <3>2. Head(waiters) = waiters[1] /\ 1 \in DOMAIN waiters
      BY <3>1
    <3> QED BY <2>2, <3>2, GoneStrayed
  <2>3. CASE UNCHANGED crashed
    BY <1>1, <2>3
  <2> QED BY <2>1, <2>2, <2>3 DEF Redis!Signal, Redis!FailOne
<1>3. strayed # {} \/ ~linked
  BY <1>2 DEF ReplyInv, Redis!CrashExplained
<1> QED BY <1>3, ReplyCrash

(* The reader ends, the server answers, or it goes away. *)
LEMMA ReplyUnlink ==
  ASSUME ReplyInv, Redis!Unlink
  PROVE  ReplyInv'
<1> USE DEF Redis!Unlink
<1>1. RedisTypes' /\ WaitOnce' /\ Lost' /\ InStep'
  BY DEF ReplyInv, RedisTypes, WaitOnce, Lost, InStep, Redis!Nobody, Redis!Reader, Redis!NoReply
<1>2. MutexHeld'
  BY Names DEF ReplyInv, MutexHeld
<1>3. Redis!OwnReply' /\ Redis!WaitersWait' /\ Redis!CrashExplained'
  BY DEF ReplyInv, Redis!OwnReply, Redis!WaitersWait, Redis!CrashExplained, Redis!NoReply
<1> QED BY <1>1, <1>2, <1>3 DEF ReplyInv

LEMMA ReplyServer ==
  ASSUME ReplyInv, Redis!Answer \/ Redis!Disconnect
  PROVE  ReplyInv'
<1>0. /\ UNCHANGED <<linked, err, mutex, waiters, rpc, reply, asked, reader, parsed, woken, strayed, crashed>>
      /\ parsed \in Seq(Verdicts) /\ back \in Seq(Verdicts) /\ wire \in Seq(Verdicts)
      /\ waiters \in Seq(Verdicts)
  BY DEF Redis!Answer, Redis!Disconnect, Redis!local, ReplyInv, RedisTypes
<1>1. back' \in Seq(Verdicts) /\ wire' \in Seq(Verdicts) /\ server' \in BOOLEAN
  <2>1. CASE Redis!Answer
    <3>1. PICK h \in Verdicts : h = Head(wire)
      BY <2>1, <1>0 DEF Redis!Answer
    <3>2. back' = Append(back, h) /\ wire' = Tail(wire) /\ wire # <<>> /\ server' = TRUE
      BY <2>1, <3>1 DEF Redis!Answer, ReplyInv, RedisTypes
    <3> QED BY <1>0, <3>2
  <2>2. CASE Redis!Disconnect
    <3>1. back' = back /\ wire' = <<>> /\ server' = FALSE
      BY <2>2 DEF Redis!Disconnect, Redis!local
    <3>2. <<>> \in Seq(Verdicts)
      BY EmptySeq
    <3> QED BY <1>0, <3>1, <3>2
  <2> QED BY <2>1, <2>2
<1>2. RedisTypes'
  BY <1>0, <1>1 DEF ReplyInv, RedisTypes, Redis!Nobody, Redis!Reader, Redis!NoReply
<1>3. MutexHeld' /\ WaitOnce'
  BY <1>0 DEF ReplyInv, MutexHeld, WaitOnce, Redis!Reader
<1>4. Lost'
  BY <1>0 DEF ReplyInv, Lost, Redis!Answer, Redis!Disconnect
<1>5. Line' = Line /\ Line \in Seq(Verdicts)
  <2>1. Line \in Seq(Verdicts)
    <3>1. mutex \in Threads => <<mutex, asked[mutex]>> \in Verdicts
      BY DEF ReplyInv, RedisTypes, Verdicts
    <3> QED BY <1>0, <3>1 DEF Line
  <2> QED BY <1>0, <2>1 DEF Line
<1>6. InStep'
  <2> SUFFICES ASSUME reader \notin {"fail", "ended"}
               PROVE  Match(Commands', Line) /\ (server' => Len(Commands') = Len(Line))
    BY <1>0, <1>5 DEF InStep
  <2>0. Match(Commands, Line) /\ (server => Len(Commands) = Len(Line))
    BY DEF ReplyInv, InStep
  <2>1. CASE Redis!Answer
    <3>1. Commands' = (parsed \o Append(back, Head(wire))) \o Tail(wire) /\ wire # <<>> /\ server
      BY <2>1, <1>0 DEF Redis!Answer, Commands
    <3>a. (parsed \o Append(back, Head(wire))) \o Tail(wire) = (parsed \o back) \o wire
      <4>1. PICK p \in Seq(Verdicts), b \in Seq(Verdicts), w \in Seq(Verdicts) : p = parsed /\ b = back /\ w = wire
        BY <1>0
      <4>2. w # <<>>
        BY <3>1, <4>1
      <4>3. (p \o Append(b, Head(w))) \o Tail(w) = (p \o b) \o w
        BY <4>1, <4>2, JoinAnswered
      <4> QED BY <4>1, <4>3
    <3>2. Commands' = Commands
      BY <3>1, <3>a DEF Commands
    <3> QED BY <2>0, <3>1, <3>2
  <2>2. CASE Redis!Disconnect
    <3>1. parsed \o back \in Seq(Verdicts)
      BY <1>0, ConcatProperties
    <3>2. PICK p \in Seq(Verdicts) : p = parsed \o back
      BY <3>1
    <3>3. Commands = p \o wire
      BY <3>2 DEF Commands
    <3>4. Commands' = p \o <<>>
      BY <2>2, <1>0, <3>2 DEF Redis!Disconnect, Redis!local, Commands
    <3>5. Commands' = p
      BY <3>2, <3>4, ConcatEmptySeq
    <3>6. Match(p, Line)
      BY <1>0, <1>5, <2>0, <3>3, MatchFront
    <3> QED BY <2>2, <3>5, <3>6 DEF Redis!Disconnect
  <2> QED BY <2>1, <2>2
<1>7. Redis!OwnReply' /\ Redis!WaitersWait' /\ Redis!CrashExplained'
  BY <1>0 DEF ReplyInv, Redis!OwnReply, Redis!WaitersWait, Redis!CrashExplained, Redis!NoReply
<1> QED BY <1>2, <1>3, <1>4, <1>6, <1>7 DEF ReplyInv

LEMMA ReplySame ==
  ASSUME ReplyInv, UNCHANGED redisVars
  PROVE  ReplyInv'
<1>1. UNCHANGED <<linked, err, mutex, waiters, rpc, reply, asked, reader, parsed, woken, strayed, crashed, wire, back, server>>
  BY DEF redisVars
<1>2. RedisTypes' /\ WaitOnce' /\ Lost' /\ MutexHeld'
  BY <1>1 DEF ReplyInv, RedisTypes, WaitOnce, Lost, MutexHeld, Redis!Nobody, Redis!Reader, Redis!NoReply
<1>3. Commands' = Commands /\ Line' = Line
  BY <1>1 DEF Commands, Line
<1>4. InStep'
  BY <1>1, <1>3 DEF ReplyInv, InStep
<1>5. Redis!OwnReply' /\ Redis!WaitersWait' /\ Redis!CrashExplained'
  BY <1>1 DEF ReplyInv, Redis!OwnReply, Redis!WaitersWait, Redis!CrashExplained, Redis!NoReply
<1> QED BY <1>2, <1>4, <1>5 DEF ReplyInv

LEMMA ReplyNext ==
  ASSUME ReplyInv, Next
  PROVE  ReplyInv'
<1>1. CASE UNCHANGED redisVars
  BY <1>1, ReplySame
<1>2. ASSUME NEW t \in Threads, Redis!Ask(t) \/ Redis!CommandStep(t) PROVE ReplyInv'
  BY <1>2, ReplyAsk, ReplyLock, ReplyWrite, ReplyEnqueue DEF Redis!CommandStep
<1>s. ASSUME NEW t \in Threads, Redis!Spurious(t) PROVE ReplyInv'
  BY <1>s, ReplyLock
<1>3. CASE Redis!ReaderStep \/ Redis!Answer \/ Redis!Disconnect
  BY <1>3, ReplyRead, ReplyDeliver, ReplyWake, ReplyWakeGone, ReplyUnlink, ReplyServer DEF Redis!ReaderStep
<1>4. CASE Peer \/ MainStep \/ Interrupt \/ Clock
  <2>1. UNCHANGED redisVars
    BY <1>4 DEF Peer, MainStep, Interrupt, Clock, Receive, ReadPacket, ReceiveShort, Halt, EndOfStream,
                Unregister, Free, CloseLast, Exit
  <2> QED BY <1>1, <2>1
<1>5. ASSUME NEW t \in Threads, Worker(t) PROVE ReplyInv'
  <2>1. UNCHANGED redisVars \/ Redis!Ask(t) \/ Redis!CommandStep(t)
    BY <1>5 DEF Worker, Verify, Verdict, PrintFile, HaltedBy, PrintRedis
  <2> QED BY <1>1, <1>2, <2>1
<1>6. CASE RedisReader \/ RedisServer \/ SpuriousWakeup
  BY <1>3, <1>s, <1>6 DEF RedisReader, RedisServer, SpuriousWakeup
<1> QED BY <1>4, <1>5, <1>6 DEF Next

-----------------------------------------------------------------------------
(* Reports: the peer sends one more or ends, *)
LEMMA StreamGrows ==
  ASSUME StreamEnds, ReportsRead, Peer
  PROVE  StreamEnds' /\ ReportsRead'
<1>0. /\ peer = "open" /\ reports \in Nat /\ reports' = reports /\ Len(stream) \in Nat
      /\ stream \in Seq({"report", "closed"} \cup Cuts)
      /\ \A i \in 1 .. Len(stream) : stream[i] = "report"
      /\ reports + Len(stream) <= sent /\ sent \in 0 .. MaxReports
  BY DEF Peer, StreamEnds, ReportsRead
<1>1. ASSUME NEW e \in {"report", "closed"} \cup Cuts, stream' = Append(stream, e)
      PROVE  /\ stream' \in Seq({"report", "closed"} \cup Cuts) /\ stream' # <<>>
             /\ Len(stream') = Len(stream) + 1 /\ stream'[Len(stream')] = e
             /\ DOMAIN stream' = 1 .. Len(stream) + 1
             /\ \A i \in 1 .. Len(stream) : stream'[i] = "report"
  BY <1>0, <1>1
<1>2. CASE sent < MaxReports /\ sent' = sent + 1 /\ stream' = Append(stream, "report") /\ UNCHANGED peer
  <2>1. /\ stream' \in Seq({"report", "closed"} \cup Cuts) /\ Len(stream') = Len(stream) + 1
        /\ \A i \in DOMAIN stream' : stream'[i] = "report"
    BY <1>0, <1>1, <1>2
  <2>2. StreamEnds'
    BY <1>0, <1>2, <2>1 DEF StreamEnds
  <2>3. ReportsRead'
    BY <1>0, <1>2, <2>1, ServerAssumption DEF ReportsRead
  <2> QED BY <2>2, <2>3
<1>3. CASE peer' \in {"closed"} \cup Cuts /\ stream' = Append(stream, peer') /\ UNCHANGED sent
  <2>1. /\ stream' \in Seq({"report", "closed"} \cup Cuts) /\ stream' # <<>>
        /\ Len(stream') = Len(stream) + 1 /\ stream'[Len(stream')] = peer'
        /\ DOMAIN stream' = 1 .. Len(stream) + 1
        /\ \A i \in 1 .. Len(stream) : stream'[i] = "report"
    BY <1>1, <1>3
  <2>2. peer' # "open"
    BY <1>3 DEF Cuts
  <2>3. StreamEnds'
    BY <1>0, <1>3, <2>1, <2>2 DEF StreamEnds
  <2>4. ReportsRead'
    BY <1>0, <1>3, <2>1, <2>2 DEF ReportsRead
  <2> QED BY <2>3, <2>4
<1> QED BY <1>2, <1>3 DEF Peer, Cuts

(* a whole report is read, *)
LEMMA StreamRead ==
  ASSUME StreamEnds, ReportsRead, stream # <<>>, Head(stream) = "report", stream' = Tail(stream),
         reports' \in {reports, reports + 1}, UNCHANGED <<peer, sent>>
  PROVE  StreamEnds' /\ ReportsRead'
<1> DEFINE L == Len(stream)
<1>0. /\ L \in Nat /\ L >= 1 /\ stream[1] = "report" /\ stream \in Seq({"report", "closed"} \cup Cuts)
      /\ sent \in Nat /\ reports \in Nat
  BY DEF StreamEnds, ReportsRead
<1>1. peer # "open" => L >= 2 /\ stream[L] \in {peer, "closed"}
  <2>1. peer # "open" => peer # "report" /\ stream[L] \in {peer, "closed"}
    BY DEF StreamEnds, Cuts
  <2> QED BY <1>0, <2>1
<1>2. /\ stream' \in Seq({"report", "closed"} \cup Cuts) /\ Len(stream') = L - 1
      /\ DOMAIN stream' = 1 .. L - 1
      /\ \A i \in 1 .. L - 1 : stream'[i] = stream[i + 1]
  BY <1>0, HeadTailProperties
<1> HIDE DEF L
<1>3. \A i \in DOMAIN stream' : i < Len(stream') \/ peer' = "open" => stream'[i] = "report"
  <2>1. \A i \in 1 .. L : i < L \/ peer = "open" => stream[i] = "report"
    BY DEF StreamEnds, L
  <2> QED BY <1>0, <1>2, <2>1
<1>4. peer' # "open" => stream' # <<>> /\ stream'[Len(stream')] = stream[L]
  <2> SUFFICES ASSUME peer # "open" PROVE stream' # <<>> /\ stream'[Len(stream')] = stream[L]
    OBVIOUS
  <2>1. L - 1 \in 1 .. L - 1 /\ (L - 1) + 1 = L
    BY <1>0, <1>1
  <2>2. stream'[L - 1] = stream[L]
    BY <1>2, <2>1
  <2>3. stream' # <<>>
    BY <1>2, <2>1
  <2> QED BY <1>2, <2>2, <2>3
<1>5. StreamEnds'
  BY <1>1, <1>2, <1>3, <1>4 DEF StreamEnds
<1>6. ReportsRead'
  BY <1>0, <1>2, <1>4 DEF ReportsRead, L
<1> QED BY <1>5, <1>6

LEMMA NoLonger == ASSUME NEW n \in Nat, n >= 1, ~(1 < n) PROVE n = 1
OBVIOUS

(* or the one that is cut, after which the connection ends. *)
LEMMA StreamShort ==
  ASSUME StreamEnds, ReportsRead, stream # <<>>, Head(stream) = "cutBody", stream' = <<"closed">>,
         reports' = reports + 1, UNCHANGED <<peer, sent>>
  PROVE  StreamEnds' /\ ReportsRead'
<1>0. /\ Len(stream) \in Nat /\ Len(stream) >= 1 /\ stream[1] = "cutBody" /\ reports \in Nat /\ sent \in Nat
      /\ 1 \in DOMAIN stream
  BY DEF StreamEnds, ReportsRead
<1>1. Len(stream) = 1 /\ peer = "cutBody"
  <2>1. peer # "open" /\ ~(1 < Len(stream))
    BY <1>0 DEF StreamEnds
  <2>2. Len(stream) = 1
    BY <1>0, <2>1, NoLonger
  <2> QED BY <1>0, <2>1, <2>2 DEF StreamEnds
<1>2. reports + 1 <= sent + 1
  BY <1>0, <1>1 DEF ReportsRead
<1>3. stream' \in Seq({"report", "closed"} \cup Cuts) /\ Len(stream') = 1 /\ stream'[1] = "closed" /\ stream' # <<>>
      /\ DOMAIN stream' = 1 .. 1
  OBVIOUS
<1>4. StreamEnds'
  BY <1>1, <1>3 DEF StreamEnds, Cuts
<1>5. ReportsRead'
  BY <1>0, <1>1, <1>2, <1>3 DEF ReportsRead
<1> QED BY <1>4, <1>5

LEMMA StreamSame ==
  ASSUME StreamEnds, ReportsRead, UNCHANGED <<stream, peer, sent, reports>>
  PROVE  StreamEnds' /\ ReportsRead'
<1>1. StreamEnds'
  BY DEF StreamEnds, Cuts
<1>2. ReportsRead'
  BY DEF ReportsRead
<1> QED BY <1>1, <1>2

LEMMA StreamNext ==
  ASSUME StreamEnds, ReportsRead, Next
  PROVE  StreamEnds' /\ ReportsRead'
<1>0. reports \in Nat
  BY DEF ReportsRead
<1>1. CASE Peer
  BY <1>1, StreamGrows
<1>2. CASE Receive \/ ReadPacket
  <2>1. stream # <<>> /\ Head(stream) = "report" /\ stream' = Tail(stream)
        /\ reports' \in {reports, reports + 1} /\ UNCHANGED <<peer, sent>>
    BY <1>2 DEF Receive, ReadPacket, Process
  <2> QED BY <2>1, StreamRead
<1>3. CASE ReceiveShort
  BY <1>3, StreamShort DEF ReceiveShort, Process
<1>4. CASE Halt \/ EndOfStream \/ Unregister \/ Free \/ CloseLast \/ Exit \/ Interrupt \/ Clock
           \/ RedisReader \/ RedisServer \/ SpuriousWakeup \/ \E t \in Threads : Worker(t)
  <2>1. UNCHANGED <<stream, peer, sent, reports>>
    BY <1>4 DEF Halt, EndOfStream, Unregister, Free, CloseLast, Exit, Interrupt, Clock, RedisReader,
                RedisServer, SpuriousWakeup, Worker, Verify, Verdict, PrintFile, HaltedBy, PrintRedis, mainVars
  <2> QED BY <2>1, StreamSame
<1> QED BY <1>1, <1>2, <1>3, <1>4 DEF Next, MainStep

(* Messages of the threads come from reports. *)
LEMMA CountsNext ==
  ASSUME Counts, reports \in Nat, Next
  PROVE  Counts'
<1>1. CASE Receive \/ ReceiveShort \/ ReadPacket
  <2>1. UNCHANGED <<main, given, out>>
    BY <1>1 DEF Receive, ReceiveShort, ReadPacket
  <2>2. CASE UNCHANGED <<inbox, reports>>
    BY <2>1, <2>2 DEF Counts
  <2>3. CASE ~UNCHANGED <<inbox, reports>>
    <3>1. reports' = reports + 1
          /\ \E c \in SUBSET Threads : inbox' = [t \in Threads |-> inbox[t] + (IF t \in c THEN 1 ELSE 0)]
      BY <1>1, <2>3 DEF Receive, ReceiveShort, ReadPacket, Process
    <3>2. PICK c \in SUBSET Threads : inbox' = [t \in Threads |-> inbox[t] + (IF t \in c THEN 1 ELSE 0)]
      BY <3>1
    <3>3. \A t \in Threads : inbox'[t] \in {inbox[t], inbox[t] + 1}
      BY <3>2 DEF Counts
    <3>4. \A t \in Threads : inbox'[t] \in Nat /\ inbox'[t] <= reports'
      BY <3>1, <3>3 DEF Counts
    <3>5. inbox' \in [Threads -> Nat]
      BY <3>2, <3>4
    <3> QED BY <2>1, <3>4, <3>5 DEF Counts
  <2> QED BY <2>2, <2>3
<1>2. CASE Peer \/ Halt \/ EndOfStream \/ Unregister \/ Free \/ CloseLast \/ Exit \/ Interrupt \/ Clock
           \/ RedisReader \/ RedisServer \/ SpuriousWakeup
  <2>1. UNCHANGED <<inbox, out, given, reports>>
    BY <1>2 DEF Peer, Halt, EndOfStream, Unregister, Free, CloseLast, Exit, Interrupt, Clock, RedisReader,
                RedisServer, SpuriousWakeup, mainVars
  <2>2. main' \in {"receive", "unregister", "free", "exit", "exited", "halted"}
    BY <1>2 DEF Counts, Peer, Halt, EndOfStream, Unregister, Free, CloseLast, Exit, Interrupt, Clock,
                RedisReader, RedisServer, SpuriousWakeup, mainVars, Stop
  <2> QED BY <2>1, <2>2 DEF Counts
<1>3. ASSUME NEW t \in Threads, Verify(t) \/ Verdict(t) PROVE Counts'
  <2>1. /\ inbox[t] > 0 /\ inbox' = [inbox EXCEPT ![t] = @ - 1] /\ UNCHANGED <<main, reports>>
        /\ given' \in {given, [given EXCEPT ![t] = @ + 1]}
        /\ out' \in {out, [out EXCEPT ![t] = "file"], [out EXCEPT ![t] = "redis"]}
    BY <1>3 DEF Verify, Verdict, mainVars
  <2>2. inbox' \in [Threads -> Nat] /\ \A u \in Threads : inbox'[u] <= reports'
    BY <2>1 DEF Counts
  <2>3. given' \in [Threads -> Nat]
    BY <2>1 DEF Counts
  <2>4. out' \in [Threads -> {"none", "file", "redis"}]
    BY <2>1 DEF Counts
  <2> QED BY <2>1, <2>2, <2>3, <2>4 DEF Counts
<1>4. ASSUME NEW t \in Threads, PrintFile(t) \/ PrintRedis(t) PROVE Counts'
  <2>1. /\ UNCHANGED <<main, reports, inbox, given>>
        /\ out' \in {out, [out EXCEPT ![t] = "none"], [out EXCEPT ![t] = "redis"]}
    BY <1>4 DEF PrintFile, PrintRedis, mainVars
  <2>2. out' \in [Threads -> {"none", "file", "redis"}]
    BY <2>1 DEF Counts
  <2> QED BY <2>1, <2>2 DEF Counts
<1>5. ASSUME NEW t \in Threads, HaltedBy(t) PROVE Counts'
  BY <1>5 DEF HaltedBy, Stop, Counts
<1> QED BY <1>1, <1>2, <1>3, <1>4, <1>5 DEF Next, MainStep, Worker

(* Every verdict is written before its thread turns to another. *)
LEMMA PrintedNext ==
  ASSUME FileInv, Counts, Printed, Next
  PROVE  Printed'
<1> SUFFICES ASSUME "file" \in mode'
             PROVE  \A u \in Threads : \A n \in 1 .. given'[u] :
                      (\E w \in written' : w.verdict = <<u, n>>) \/ (n = given'[u] /\ out'[u] = "file")
  BY DEF Printed
<1>0. mode' = mode
  BY DEF Next, MainStep, Worker, Peer, Receive, ReadPacket, ReceiveShort, Halt, EndOfStream, Interrupt,
         Unregister, Free, CloseLast, Exit, Verify, Verdict, PrintFile, HaltedBy, PrintRedis,
         RedisReader, RedisServer, SpuriousWakeup, Clock, mainVars
<1>a. \A u \in Threads : \A n \in 1 .. given[u] :
        (\E w \in written : w.verdict = <<u, n>>) \/ (n = given[u] /\ out[u] = "file")
  BY <1>0 DEF Printed
<1>1. CASE UNCHANGED <<written, given>> /\ \A u \in Threads : out[u] = "file" => out'[u] = "file"
  BY <1>a, <1>1
<1>2. CASE \/ MainStep \/ Peer \/ Interrupt \/ RedisReader \/ RedisServer \/ SpuriousWakeup \/ Clock
           \/ \E t \in Threads : HaltedBy(t)
  <2>1. UNCHANGED <<written, given, out>>
    BY <1>2 DEF MainStep, Peer, Receive, ReadPacket, ReceiveShort, Halt, EndOfStream, Interrupt,
         Unregister, Free, CloseLast, Exit, HaltedBy, Stop, RedisReader, RedisServer, SpuriousWakeup,
         Clock, fileVars, File!Flush, File!CloseFile, File!CloseOld, File!Seal, File!Tick
  <2> QED BY <1>1, <2>1
<1>3. ASSUME NEW t \in Threads, Verify(t) \/ PrintRedis(t) PROVE Printed'
  <2>1. UNCHANGED <<written, given>> /\ out' \in {out, [out EXCEPT ![t] = "none"]} /\ out[t] # "file"
    BY <1>3 DEF Verify, PrintRedis, fileVars
  <2>2. \A u \in Threads : out[u] = "file" => out'[u] = "file"
    BY <2>1 DEF Counts
  <2>3. \A u \in Threads : \A n \in 1 .. given'[u] :
          (\E w \in written' : w.verdict = <<u, n>>) \/ (n = given'[u] /\ out'[u] = "file")
    BY <1>1, <2>1, <2>2
  <2> QED BY <2>3 DEF Printed
<1>4. ASSUME NEW t \in Threads, Verdict(t),
             NEW u \in Threads, NEW n \in 1 .. given'[u]
      PROVE  (\E w \in written' : w.verdict = <<u, n>>) \/ (n = given'[u] /\ out'[u] = "file")
  <2>1. /\ given' = [given EXCEPT ![t] = @ + 1] /\ out' = [out EXCEPT ![t] = "file"] /\ out[t] = "none"
        /\ UNCHANGED written
    BY <1>0, <1>4 DEF Verdict, File!Start
  <2>2. given \in [Threads -> Nat] /\ out \in [Threads -> {"none", "file", "redis"}]
    BY DEF Counts
  <2>3. CASE n \in 1 .. given[u]
    <3>1. CASE u = t
      BY <1>a, <2>1, <2>3, <3>1
    <3>2. CASE u # t
      BY <1>a, <2>1, <2>2, <2>3, <3>2
    <3> QED BY <3>1, <3>2
  <2>4. CASE n \notin 1 .. given[u]
    <3>1. u = t /\ n = given'[u]
      BY <2>1, <2>2, <2>4
    <3> QED BY <2>1, <2>2, <3>1
  <2> QED BY <2>3, <2>4
<1>5. ASSUME NEW t \in Threads, PrintFile(t),
             NEW u \in Threads, NEW n \in 1 .. given'[u]
      PROVE  (\E w \in written' : w.verdict = <<u, n>>) \/ (n = given'[u] /\ out'[u] = "file")
  <2>0. given' = given
    BY <1>5 DEF PrintFile
  <2>1. CASE UNCHANGED <<written, out>>
    BY <1>a, <2>0, <2>1
  <2>2. CASE File!Write(t, <<t, given[t]>>) /\ out' \in {[out EXCEPT ![t] = "redis"], [out EXCEPT ![t] = "none"]}
    <3>1. written' = written \cup {[verdict |-> <<t, given[t]>>, at |-> now[t], name |-> file]}
      BY <2>2 DEF File!Write
    <3>2. CASE u = t /\ n = given[t]
      <4> DEFINE w == [verdict |-> <<t, given[t]>>, at |-> now[t], name |-> file]
      <4>1. w \in written' /\ w.verdict = <<u, n>>
        BY <3>1, <3>2
      <4> QED BY <4>1
    <3>3. CASE ~(u = t /\ n = given[t])
      <4>1. CASE \E w \in written : w.verdict = <<u, n>>
        BY <3>1, <4>1
      <4>2. CASE n = given[u] /\ out[u] = "file"
        <5>1. u # t
          BY <3>3, <4>2
        <5> QED BY <2>0, <2>2, <4>2, <5>1 DEF Counts
      <4> QED BY <1>a, <2>0, <4>1, <4>2
    <3> QED BY <3>2, <3>3
  <2>3. UNCHANGED <<written, out>> \/ (File!Write(t, <<t, given[t]>>) /\ out' \in {[out EXCEPT ![t] = "redis"], [out EXCEPT ![t] = "none"]})
    BY <1>5 DEF PrintFile, File!FileStep, File!LockFile, File!CloseOld, File!Seal, File!OpenNew, File!OpenFails
  <2> QED BY <2>1, <2>2, <2>3
<1> QED BY <1>2, <1>3, <1>4, <1>5 DEF Next, Worker, Printed

(* The main thread stops when all has been printed, and closes the last file. *)
LEMMA EndNext ==
  ASSUME FileInv, EndInv, Next
  PROVE  ClosedLast' /\ EndComplete'
<1> USE DEF mainVars
<1>0. main # "exited" /\ main # "halted"
  BY DEF Next, MainStep, Worker, Peer, Receive, ReadPacket, ReceiveShort, Halt, EndOfStream, Interrupt,
         Unregister, Free, CloseLast, Exit, Verify, Verdict, PrintFile, HaltedBy, PrintRedis, RedisReader,
         RedisServer, SpuriousWakeup, Clock, Alive, Ended
<1>1. CASE main' = "exited"
  <2>1. ClosedLast'
    BY <1>1 DEF ClosedLast
  <2>2. Exit
    BY <1>0, <1>1 DEF Next, MainStep, Worker, Peer, Receive, ReadPacket, ReceiveShort, Halt, EndOfStream,
         Interrupt, Unregister, Free, CloseLast, Verify, Verdict, PrintFile, HaltedBy, PrintRedis,
         RedisReader, RedisServer, SpuriousWakeup, Clock, Stop
  <2>3. /\ main = "exit" /\ fpc[Main] = "idle" /\ File!Flush
        /\ UNCHANGED <<mode, program, signalled, file, given, written, inbox, out>>
    BY <2>2 DEF Exit, File!Flush
  <2>4. \A t \in Threads : inbox[t] = 0 /\ out[t] = "none"
    BY <2>3 DEF FileInv, Printing
  <2>5. \A w \in written : w.verdict \in disk'[w.name] \/ w.name \in failed'
    BY <2>3, FilesFlush
  <2>6. ASSUME "file" \in mode, NEW t \in Threads, NEW n \in 1 .. given[t]
        PROVE  \E w \in written : w.verdict = <<t, n>> /\ (w.verdict \in disk'[w.name] \/ w.name \in failed')
    <3>1. PICK w \in written : w.verdict = <<t, n>>
      BY <2>4, <2>6 DEF EndInv, Printed
    <3> QED BY <2>5, <3>1
  <2>7. FreesPrinter' = FreesPrinter
    BY <2>3 DEF FreesPrinter
  <2>8. FreesPrinter => file = File!None
    BY <2>3 DEF EndInv, ClosedLast
  <2>9. EndComplete'
    BY <2>3, <2>4, <2>6, <2>7, <2>8 DEF EndComplete, File!None
  <2> QED BY <2>1, <2>9
<1>2. CASE main' # "exited" /\ main' # "exit"
  BY <1>2 DEF ClosedLast, EndComplete
<1>3. CASE main' = "exit" /\ main # "exit"
  <2>1. Unregister \/ Free
    BY <1>3 DEF Next, MainStep, Worker, Peer, Receive, ReadPacket, ReceiveShort, Halt, EndOfStream, Interrupt,
         CloseLast, Exit, Verify, Verdict, PrintFile, HaltedBy, PrintRedis, RedisReader, RedisServer,
         SpuriousWakeup, Clock, Stop
  <2>2. CASE Unregister
    <3>1. ~FreesPrinter /\ UNCHANGED <<mode, program, signalled>>
      BY <1>3, <2>2 DEF Unregister
    <3> QED BY <1>3, <3>1 DEF ClosedLast, EndComplete, FreesPrinter
  <2>3. CASE Free
    <3>1. file' = File!None \/ fpc'[Main] = "close"
      BY <2>3 DEF Free, File!CloseFile, File!Goto, File!None, FileInv, FileTypes
    <3> QED BY <1>3, <3>1 DEF ClosedLast, EndComplete, File!None
  <2> QED BY <2>1, <2>2, <2>3
<1>4. CASE main' = "exit" /\ main = "exit"
  <2>1. EndComplete'
    BY <1>4 DEF EndComplete
  <2>2. UNCHANGED <<mode, program, signalled>>
    BY <1>4 DEF Next, MainStep, Worker, Peer, Receive, ReadPacket, ReceiveShort, Halt, EndOfStream, Interrupt,
         Unregister, Free, CloseLast, Exit, Verify, Verdict, PrintFile, HaltedBy, PrintRedis, RedisReader,
         RedisServer, SpuriousWakeup, Clock, Process
  <2>3. FreesPrinter' = FreesPrinter
    BY <2>2 DEF FreesPrinter
  <2>4. CASE CloseLast
    <3>1. CASE File!Seal(Main)
      BY <2>1, <3>1 DEF ClosedLast, File!Seal, File!None
    <3>2. CASE File!CloseOld(Main)
      BY <2>1, <3>2 DEF ClosedLast, File!CloseOld, File!Goto, FileInv, FileTypes
    <3> QED BY <2>4, <3>1, <3>2 DEF CloseLast
  <2>5. CASE ~CloseLast
    <3>1. UNCHANGED <<file, fpc>>
      <4>1. \A t \in Threads : inbox[t] = 0 /\ out[t] = "none"
        BY <1>4 DEF FileInv, Printing
      <4>2. ASSUME NEW t \in Threads PROVE ~(Verify(t) \/ Verdict(t) \/ PrintFile(t) \/ HaltedBy(t))
        <5>1. out[t] = "none" /\ ~(inbox[t] > 0)
          BY <4>1
        <5>2. Verify(t) \/ Verdict(t) => inbox[t] > 0
          BY DEF Verify, Verdict
        <5>3. PrintFile(t) => out[t] = "file"
          BY DEF PrintFile
        <5>4. HaltedBy(t) => main' = "halted"
          BY DEF HaltedBy, Stop
        <5> QED BY <1>4, <5>1, <5>2, <5>3, <5>4
      <4> QED BY <1>4, <2>5, <4>2 DEF Next, MainStep, Worker, Peer, Receive, ReadPacket, ReceiveShort, Halt,
             EndOfStream, Interrupt, Unregister, Free, Exit, PrintRedis, RedisReader, RedisServer,
             SpuriousWakeup, Clock, Stop, File!Tick, Process, fileVars
    <3>2. ClosedLast'
      BY <1>4, <2>3, <3>1 DEF EndInv, ClosedLast, File!None
    <3> QED BY <2>1, <3>2
  <2> QED BY <2>4, <2>5
<1> QED BY <1>1, <1>2, <1>3, <1>4

-----------------------------------------------------------------------------
LEMMA InitInv == Init => IInv
<1> SUFFICES ASSUME Init PROVE IInv
  OBVIOUS
<1> USE DEF Init
<1>1. FileInv
  <2> USE DEF File!FileInit, File!None, File!Names, File!Nobody
  <2>1. FileTypes
    <3>1. 0 \in File!Names
      BY ServerAssumption
    <3>2. timestamp \in Int /\ period \in Periods
      BY ServerAssumption
    <3> HIDE DEF File!Names
    <3> QED BY <3>1, <3>2 DEF FileTypes
  <2>2. LockHeld
    BY Names DEF LockHeld
  <2>3. FileStands /\ FilesInOrder /\ FileThere /\ Printing
    BY DEF FileStands, FilesInOrder, FileThere, Printing
  <2>4. File!PeriodKept /\ File!NothingErased
    BY DEF File!PeriodKept, File!NothingErased
  <2> QED BY <2>1, <2>2, <2>3, <2>4 DEF FileInv
<1>2. ReplyInv
  <2> USE DEF Redis!RedisInit
  <2>1. <<>> \in Seq(Verdicts)
    BY EmptySeq
  <2>2. RedisTypes
    BY <2>1 DEF RedisTypes
  <2>3. MutexHeld /\ WaitOnce /\ Lost
    BY Names DEF MutexHeld, WaitOnce, Lost
  <2>4. InStep
    <3>1. Line = <<>>
      BY Names DEF Line
    <3>2. Commands = <<>>
      BY <2>1, ConcatEmptySeq DEF Commands
    <3> QED BY <3>1, <3>2 DEF InStep, Match
  <2>5. Redis!OwnReply /\ Redis!WaitersWait /\ Redis!CrashExplained
    BY DEF Redis!OwnReply, Redis!WaitersWait, Redis!CrashExplained
  <2> QED BY <2>2, <2>3, <2>4, <2>5 DEF ReplyInv
<1>3. EndInv
  <2>1. StreamEnds
    BY EmptySeq DEF StreamEnds
  <2>2. ReportsRead
    BY ServerAssumption DEF ReportsRead
  <2>3. Counts /\ Printed /\ ClosedLast /\ EndComplete
    BY DEF Counts, Printed, ClosedLast, EndComplete
  <2> QED BY <2>1, <2>2, <2>3 DEF EndInv
<1> QED BY <1>1, <1>2, <1>3 DEF IInv

LEMMA NextInv == IInv /\ [Next]_vars => IInv'
<1> SUFFICES ASSUME IInv, [Next]_vars PROVE IInv'
  OBVIOUS
<1>1. CASE Next
  <2>1. FileInv'
    BY <1>1, FilesNext DEF IInv, EndInv
  <2>2. ReplyInv'
    BY <1>1, ReplyNext DEF IInv
  <2>3. StreamEnds' /\ ReportsRead'
    BY <1>1, StreamNext DEF IInv, EndInv
  <2>4. Counts'
    BY <1>1, CountsNext DEF IInv, EndInv, ReportsRead
  <2>5. Printed'
    BY <1>1, PrintedNext DEF IInv, EndInv
  <2>6. ClosedLast' /\ EndComplete'
    BY <1>1, EndNext DEF IInv
  <2> QED BY <2>1, <2>2, <2>3, <2>4, <2>5, <2>6 DEF IInv, EndInv
<1>2. CASE UNCHANGED vars
  <2>1. UNCHANGED fileVars /\ UNCHANGED redisVars /\ UNCHANGED <<mainVars, inbox, out, given>>
    BY <1>2 DEF vars
  <2>2. UNCHANGED <<mode, program, stream, peer, sent, reports, main, signalled, inbox, out, given>>
    BY <2>1 DEF mainVars
  <2>3. FileInv'
    BY <2>1, <2>2, FilesLeft DEF IInv, FileInv, Printing
  <2>4. ReplyInv'
    BY <2>1, ReplySame DEF IInv
  <2>5. StreamEnds' /\ ReportsRead'
    BY <2>2, StreamSame DEF IInv, EndInv
  <2>6. Counts'
    BY <2>2 DEF IInv, EndInv, Counts
  <2>7. UNCHANGED <<file, disk, written, failed, fpc>>
    BY <2>1 DEF fileVars
  <2>8. FreesPrinter' = FreesPrinter
    BY <2>2 DEF FreesPrinter
  <2>9. Printed' /\ ClosedLast' /\ EndComplete'
    BY <2>2, <2>7, <2>8 DEF IInv, EndInv, Printed, ClosedLast, EndComplete, File!None
  <2> QED BY <2>3, <2>4, <2>5, <2>6, <2>9 DEF IInv, EndInv
<1> QED BY <1>1, <1>2

LEMMA Invariance == Spec => []IInv
BY InitInv, NextInv, PTL DEF Spec

(* No verdict goes missing between the buffer of stdio and a file that the disk
   accepts, none is in the file of another period, and a semaphore means complete
   unless the disk refused some of its file: whatever threads print, whatever
   write, close or open fails, and whenever the program is told to end
   (send_msg_to_file.c). *)
THEOREM FilesAreKept == Spec => []FilesKept
<1>1. IInv => FilesKept
  <2> SUFFICES ASSUME IInv PROVE FilesKept
    OBVIOUS
  <2>1. File!FileTypeOK
    BY ServerAssumption DEF IInv, FileInv, FileTypes, Printing, File!FileTypeOK
  <2>2. File!SealedComplete
    <3> SUFFICES ASSUME NEW w \in written, w.name \in sealed
                 PROVE  w.verdict \in disk[w.name] \/ w.name \in failed
      BY DEF File!SealedComplete
    <3>1. w.name # file
      BY DEF IInv, FileInv, FileTypes, FilesInOrder, File!None, File!Names
    <3> QED BY <3>1 DEF IInv, FileInv, File!NothingErased
  <2>3. File!PeriodKept /\ File!NothingErased
    BY DEF IInv, FileInv
  <2> QED BY <2>1, <2>2, <2>3 DEF FilesKept, File!FilesKept
<1> QED BY <1>1, Invariance, PTL

(* Each thread gets the answer to its own last command or none, there is a waiter
   for every answer, and no pointer goes astray unless pthread_cond_wait returned
   without a signal or the connection was lost, however commands, answers, such
   wake-ups and the loss of the connection interleave (thredis.c). *)
THEOREM RepliesDoMatch == Spec => []RepliesMatch
<1>1. IInv => RepliesMatch
  <2> SUFFICES ASSUME IInv PROVE RepliesMatch
    OBVIOUS
  <2>1. Redis!RedisTypeOK
    BY DEF IInv, ReplyInv, RedisTypes, Verdicts, Redis!RedisTypeOK
  <2>2. Redis!OwnReply /\ Redis!WaitersWait /\ Redis!CrashExplained
    BY DEF IInv, ReplyInv
  <2>3. Redis!AnswerExpected
    <3> SUFFICES ASSUME reader = "deliver" PROVE Len(parsed) <= Len(waiters)
      BY DEF Redis!AnswerExpected
    <3>1. Line = waiters
      BY Names DEF IInv, ReplyInv, MutexHeld, Line
    <3>2. Len(Commands) <= Len(waiters)
      BY <3>1 DEF IInv, ReplyInv, InStep, Match
    <3>3. /\ parsed \in Seq(Verdicts) /\ back \in Seq(Verdicts) /\ wire \in Seq(Verdicts)
          /\ waiters \in Seq(Verdicts)
      BY DEF IInv, ReplyInv, RedisTypes
    <3>4. Len(Commands) = Len(parsed) + Len(back) + Len(wire)
      BY <3>3, ConcatProperties DEF Commands
    <3> QED BY <3>2, <3>3, <3>4
  <2> QED BY <2>1, <2>2, <2>3 DEF RepliesMatch, Redis!RepliesMatch
<1> QED BY <1>1, Invariance, PTL

(* A process that ends as it should, at the end of its reports or by a signal,
   has verified every message it handed out, and leaves every verdict on the disk
   or in a file that the disk refused; the one that frees its printer has also
   closed its last file (main_sec_server.c, main_sec_standalone.c). *)
THEOREM EndsAsItShould == Spec => []EndsWell
<1>1. IInv => EndsWell
  <2> SUFFICES ASSUME IInv PROVE EndsWell
    OBVIOUS
  <2>1. reports \in 0 .. MaxReports + 1
    <3>1. CASE peer = "open"
      BY <3>1, ServerAssumption DEF IInv, EndInv, ReportsRead, StreamEnds
    <3>2. CASE peer # "open"
      <4>1. Len(stream) \in Nat /\ Len(stream) >= 1
        BY <3>2 DEF IInv, EndInv, StreamEnds
      <4>2. reports + Len(stream) <= sent + 2 /\ sent \in 0 .. MaxReports /\ reports \in Nat
        BY DEF IInv, EndInv, ReportsRead
      <4> QED BY <4>1, <4>2, ServerAssumption
    <3> QED BY <3>1, <3>2
  <2>2. TypeOK
    BY <2>1, ServerAssumption DEF IInv, EndInv, Counts, TypeOK
  <2> QED BY <2>2 DEF IInv, EndInv, EndsWell
<1> QED BY <1>1, Invariance, PTL

-----------------------------------------------------------------------------
(* The first process. *)
Accepted == ~RefusedOptions(options)

(* The cores of each client, by its number, once the options are accepted. *)
ServedInTurn ==
  /\ options \in Options /\ clients \in Nat /\ children \subseteq 0 .. clients - 1
  /\ \A n \in 0 .. clients - 1 : served[n] = CoresOf(n)
  /\ parent = "start" => clients = 0
  /\ clients # 0 => Accepted
  /\ parent \in {"accept", "fork"} => Accepted

(* The parent has the socket of the client it makes a process for, and no other. *)
HeldNow ==
  /\ parent \in {"start", "accept"} => held = {}
  /\ parent = "fork" => held = {clients - 1} /\ clients # 0

(* Its first signal makes the parent wait, another one end. *)
SignalsCounted ==
  /\ signals \in Nat
  /\ signals = 0 => parent \notin {"wait", "exited"}
  /\ signals > 0 => parent \in {"wait", "exited"}
  /\ signals = 1 /\ parent = "exited" => children = {}

ParentIInv == ServedInTurn /\ HeldNow /\ SignalsCounted

-----------------------------------------------------------------------------
(* The place of a client in the mask: remainders of multiples. *)
LEMMA TimesGrows ==
  ASSUME NEW x \in Int, NEW y \in Int, NEW b \in Nat, x <= y
  PROVE  b * x <= b * y
<1>1. (y - x) * b >= 0
  OBVIOUS
<1>2. (y - x) * b = b * y - b * x
  OBVIOUS
<1>3. b * x \in Int /\ b * y \in Int
  OBVIOUS
<1> QED BY <1>1, <1>2, <1>3

LEMMA RemainderUnique ==
  ASSUME NEW a \in Nat, NEW b \in Nat \ {0}, NEW d \in Nat, NEW s \in 0 .. b - 1, a = b * d + s
  PROVE  a % b = s
<1> DEFINE e == a \div b
           r == a % b
<1>1. e \in Int /\ r \in 0 .. b - 1 /\ a = b * e + r
  OBVIOUS
<1> HIDE DEF e, r
<1>2. CASE d < e
  <2>1. b * (d + 1) <= b * e
    BY <1>1, <1>2, TimesGrows
  <2>2. b * (d + 1) = b * d + b /\ b * d \in Int /\ b * e \in Int
    BY <1>1
  <2> QED BY <1>1, <2>1, <2>2
<1>3. CASE d > e
  <2>1. b * (e + 1) <= b * d
    BY <1>1, <1>3, TimesGrows
  <2>2. b * (e + 1) = b * e + b /\ b * d \in Int /\ b * e \in Int
    BY <1>1
  <2> QED BY <1>1, <2>1, <2>2
<1>4. CASE d = e
  <2>1. b * d \in Int
    OBVIOUS
  <2> QED BY <1>1, <1>4, <2>1 DEF r
<1> QED BY <1>1, <1>2, <1>3, <1>4

LEMMA Division ==
  ASSUME NEW n \in Nat, NEW q \in Nat \ {0}
  PROVE  \E d \in Nat, r \in Nat : n = q * d + r /\ r < q /\ r = n % q
<1> DEFINE e == n \div q
           r == n % q
<1>1. e \in Int /\ r \in 0 .. q - 1 /\ n = q * e + r
  OBVIOUS
<1>2. r = n % q
  OBVIOUS
<1> HIDE DEF e, r
<1>3. CASE e <= -1
  <2>1. q * e <= q * (-1) /\ q * e \in Int
    BY <1>1, <1>3, TimesGrows
  <2>2. q * (-1) = -q
    OBVIOUS
  <2> QED BY <1>1, <2>1, <2>2
<1>4. e \in Nat /\ r \in Nat /\ r < q /\ n = q * e + r
  BY <1>1, <1>3
<1> QED BY <1>2, <1>4



LEMMA RemainderScaled ==
  ASSUME NEW n \in Nat, NEW q \in Nat \ {0}, NEW t \in Nat \ {0}
  PROVE  (n * t) % (q * t) = t * (n % q)
<1>1. PICK d \in Nat, r \in Nat : n = q * d + r /\ r < q /\ r = n % q
  BY Division
<1>2. n * t = (q * t) * d + t * r
  <2>1. n * t = (q * d + r) * t
    BY <1>1
  <2>2. q \in Nat /\ d \in Nat /\ r \in Nat /\ t \in Nat
    BY <1>1
  <2>3. (q * d + r) * t = (q * t) * d + t * r
    BY <2>2
  <2> QED BY <2>1, <2>3
<1>3. t * r \in Nat /\ q * t \in Nat \ {0} /\ n * t \in Nat
  <2>1. q * t >= 1
    <3>1. t * 1 <= t * q
      BY TimesGrows
    <3> QED BY <3>1
  <2>2. t * 0 <= t * r
    BY <1>1, TimesGrows
  <2> QED BY <1>1, <2>1, <2>2
<1>4. t * r <= q * t - 1
  <2>1. t * (r + 1) <= t * q
    BY <1>1, TimesGrows
  <2>2. t * (r + 1) = t * r + t
    BY <1>1
  <2> QED BY <1>1, <1>3, <2>1, <2>2
<1>5. (n * t) % (q * t) = t * r
  <2>1. PICK a \in Nat, b \in Nat \ {0}, s \in Nat : a = n * t /\ b = q * t /\ s = t * r
    BY <1>3
  <2>2. a = b * d + s /\ s \in 0 .. b - 1
    BY <1>2, <1>4, <2>1
  <2>3. a % b = s
    BY <1>1, <2>2, RemainderUnique
  <2> QED BY <2>1, <2>3
<1> QED BY <1>1, <1>5

(* Fewer than q clients in a row have different remainders by q. *)
LEMMA RemaindersDiffer ==
  ASSUME NEW n \in Nat, NEW k \in Nat, NEW q \in Nat \ {0}, n < k, k - n < q
  PROVE  n % q # k % q
<1> SUFFICES ASSUME n % q = k % q PROVE FALSE
  OBVIOUS
<1>1. PICK d \in Nat, r \in Nat : n = q * d + r /\ r < q /\ r = n % q
  BY Division
<1>2. PICK e \in Nat, s \in Nat : k = q * e + s /\ s < q /\ s = k % q
  BY Division
<1>3. q * d \in Int /\ q * e \in Int /\ q * d < q * e /\ q * e - q * d < q
  BY <1>1, <1>2
<1>4. CASE e <= d
  <2>1. q * e <= q * d
    BY <1>4, TimesGrows
  <2> QED BY <1>3, <2>1
<1>5. CASE d + 1 <= e
  <2>1. q * (d + 1) <= q * e
    BY <1>5, TimesGrows
  <2>2. q * (d + 1) = q * d + q
    OBVIOUS
  <2> QED BY <1>3, <2>1, <2>2
<1> QED BY <1>4, <1>5

(* Cores a mask has, and cores that as many clients as it has room for share. *)
LEMMA CoresInMask ==
  ASSUME NEW n \in Nat, options \in [threads : Nat, cores : Nat], ~RefusedOptions(options)
  PROVE  /\ CoresOf(n) \subseteq 0 .. options.cores - 1
         /\ \A k \in Nat : n < k /\ (k - n) * options.threads < options.cores =>
                             CoresOf(n) \cap CoresOf(k) = {}
<1> DEFINE t == options.threads
           c == options.cores
<1>1. t \in Nat \ {0} /\ c \in Nat /\ c % t = 0
  BY DEF RefusedOptions
<1> HIDE DEF t, c
<1>2. CASE c = 0
  BY <1>2 DEF CoresOf, c
<1>3. CASE c # 0
  <2>1. PICK q \in Nat \ {0} : c = q * t
    <3>1. PICK q \in Nat, r \in Nat : c = t * q + r /\ r < t /\ r = c % t
      BY <1>1, Division
    <3>2. c = t * q
      BY <1>1, <3>1
    <3>3. t * q \in Nat /\ t * q = q * t
      BY <1>1
    <3>4. q # 0
      BY <1>1, <1>3, <3>2
    <3> QED BY <3>2, <3>3, <3>4
  <2>2. ASSUME NEW m \in Nat
        PROVE  CoresOf(m) = t * (m % q) .. t * (m % q) + t - 1
    <3>1. (m * t) % (q * t) = t * (m % q)
      BY <1>1, RemainderScaled
    <3> QED BY <1>3, <2>1, <3>1, Zenon DEF CoresOf, t, c
  <2>3. ASSUME NEW m \in Nat PROVE m % q \in 0 .. q - 1
    OBVIOUS
  <2>4. CoresOf(n) \subseteq 0 .. c - 1
    <3>1. PICK r \in 0 .. q - 1 : r = n % q
      BY <2>3
    <3>2. t * 0 <= t * r /\ t * (r + 1) <= t * q /\ t * r \in Int /\ t * q \in Int
      BY <1>1, TimesGrows
    <3>3. t * (r + 1) = t * r + t /\ t * q = c /\ t * 0 = 0
      BY <1>1, <2>1
    <3>4. CoresOf(n) = t * r .. t * r + t - 1
      BY <2>2, <3>1
    <3> QED BY <1>1, <3>2, <3>3, <3>4
  <2>5. ASSUME NEW k \in Nat, n < k, (k - n) * t < c
        PROVE  CoresOf(n) \cap CoresOf(k) = {}
    <3>1. k - n < q
      <4> SUFFICES ASSUME q <= k - n PROVE FALSE
        OBVIOUS
      <4>1. t * q <= t * (k - n)
        BY <1>1, TimesGrows
      <4>2. t * (k - n) = (k - n) * t /\ t * q = c /\ (k - n) * t \in Int
        BY <1>1, <2>1
      <4> QED BY <1>1, <2>5, <4>1, <4>2
    <3>2. PICK r \in 0 .. q - 1, s \in 0 .. q - 1 : r = n % q /\ s = k % q
      BY <2>3
    <3>3. r # s
      BY <2>5, <3>1, <3>2, RemaindersDiffer
    <3>4. CoresOf(n) = t * r .. t * r + t - 1 /\ CoresOf(k) = t * s .. t * s + t - 1
      BY <2>2, <3>2
    <3>5. t * r \in Int /\ t * s \in Int /\ t * (r + 1) = t * r + t /\ t * (s + 1) = t * s + t
      BY <1>1
    <3>6. t * r + t <= t * s \/ t * s + t <= t * r
      <4>1. CASE r + 1 <= s
        BY <1>1, <3>5, <4>1, TimesGrows
      <4>2. CASE s + 1 <= r
        BY <1>1, <3>5, <4>2, TimesGrows
      <4> QED BY <3>3, <4>1, <4>2
    <3> QED BY <1>1, <3>4, <3>5, <3>6
  <2> QED BY <2>4, <2>5 DEF t, c
<1> QED BY <1>2, <1>3

-----------------------------------------------------------------------------
LEMMA ParentInitInv == ParentInit => ParentIInv
BY DEF ParentInit, ParentIInv, ServedInTurn, HeldNow, SignalsCounted

LEMMA ParentNextInv == ParentIInv /\ [ParentNext]_parentVars => ParentIInv'
<1> SUFFICES ASSUME ParentIInv, [ParentNext]_parentVars PROVE ParentIInv'
  OBVIOUS
<1> USE DEF ParentIInv
<1>o. UNCHANGED options /\ (Accepted => Accepted') /\ \A n : CoresOf(n)' = CoresOf(n)
  <2>1. UNCHANGED options
    BY DEF ParentNext, Listen, Accept, Fork, ChildEnds, ParentInterrupt, Wait, parentVars
  <2> QED BY <2>1 DEF Accepted, RefusedOptions, CoresOf
<1>a. /\ options \in Options /\ clients \in Nat /\ children \subseteq 0 .. clients - 1
      /\ \A n \in 0 .. clients - 1 : served[n] = CoresOf(n)
  BY DEF ServedInTurn
<1>1. CASE Listen
  <2>1. ServedInTurn'
    BY <1>1, <1>a, <1>o DEF Listen, ServedInTurn, Accepted
  <2>2. HeldNow' /\ SignalsCounted'
    BY <1>1 DEF Listen, HeldNow, SignalsCounted
  <2> QED BY <2>1, <2>2
<1>2. CASE Accept
  <2>1. HeldNow' /\ SignalsCounted'
    BY <1>2, <1>a, <1>o DEF Accept, HeldNow, SignalsCounted
  <2>2. Accepted' /\ parent' \notin {"start"} /\ UNCHANGED <<options, children>>
    BY <1>2, <1>o DEF Accept, ServedInTurn
  <2>3. CASE UNCHANGED <<clients, served>>
    BY <1>o, <1>a, <2>1, <2>2, <2>3 DEF ServedInTurn
  <2>4. CASE clients' = clients + 1
             /\ served' = [n \in 0 .. clients |-> IF n = clients THEN CoresOf(n) ELSE served[n]]
    <3>1. \A n \in 0 .. clients : served'[n] = CoresOf(n)
      BY <1>o, <1>a, <2>4
    <3>2. clients' \in Nat /\ clients' - 1 = clients /\ children' \subseteq 0 .. clients' - 1
      BY <1>o, <1>a, <2>2, <2>4
    <3> QED BY <1>o, <1>a, <2>1, <2>2, <3>1, <3>2 DEF ServedInTurn
  <2> QED BY <1>2, <2>1, <2>3, <2>4 DEF Accept
<1>3. CASE Fork
  <2>1. clients # 0 /\ held = {clients - 1} /\ signals = 0
    BY <1>3 DEF Fork, HeldNow, SignalsCounted
  <2>2. ServedInTurn'
    BY <1>3, <1>a, <1>o, <2>1 DEF Fork, ServedInTurn
  <2>3. HeldNow' /\ SignalsCounted'
    BY <1>3, <2>1 DEF Fork, HeldNow, SignalsCounted
  <2> QED BY <2>2, <2>3
<1>4. ASSUME NEW n \in children, ChildEnds(n) PROVE ParentIInv'
  <2>1. ServedInTurn'
    BY <1>4, <1>a, <1>o DEF ChildEnds, ServedInTurn
  <2>2. HeldNow' /\ SignalsCounted'
    BY <1>4 DEF ChildEnds, HeldNow, SignalsCounted
  <2> QED BY <2>1, <2>2
<1>5. CASE ParentInterrupt \/ Wait
  <2>1. ServedInTurn'
    BY <1>5, <1>a, <1>o DEF ParentInterrupt, Wait, ServedInTurn
  <2>2. HeldNow' /\ SignalsCounted'
    BY <1>5 DEF ParentInterrupt, Wait, HeldNow, SignalsCounted
  <2> QED BY <2>1, <2>2
<1>6. CASE UNCHANGED parentVars
  BY <1>6, <1>a, <1>o DEF parentVars, ServedInTurn, HeldNow, SignalsCounted
<1> QED BY <1>1, <1>2, <1>3, <1>4, <1>5, <1>6 DEF ParentNext

(* The processes of different clients, as many in a row as the mask has room for,
   get cores of the mask and share none, whichever forks failed; told once to end
   the server ends after them; and it waits for a client with no socket of another
   open (main of main_sec_server.c). *)
THEOREM ParentIsSound == ParentSpec => []ParentSound
<1>1. ParentIInv => ParentSound
  <2> SUFFICES ASSUME ParentIInv PROVE ParentSound
    OBVIOUS
  <2>1. CoresApart
    <3> SUFFICES ASSUME NEW n \in children
                 PROVE  /\ served[n] \subseteq 0 .. options.cores - 1
                        /\ \A k \in children : n < k /\ (k - n) * options.threads < options.cores =>
                                                 served[n] \cap served[k] = {}
      BY DEF CoresApart
    <3>1. /\ children \subseteq 0 .. clients - 1 /\ clients \in Nat
          /\ \A k \in 0 .. clients - 1 : served[k] = CoresOf(k)
          /\ options \in [threads : Nat, cores : Nat] /\ ~RefusedOptions(options)
      BY ParentAssumption DEF ParentIInv, ServedInTurn, Accepted
    <3>2. \A k \in children : k \in Nat /\ served[k] = CoresOf(k)
      BY <3>1
    <3> QED BY <3>1, <3>2, CoresInMask
  <2>2. ChildrenFirst /\ SocketsClosed
    BY DEF ParentIInv, HeldNow, SignalsCounted, ChildrenFirst, SocketsClosed
  <2> QED BY <2>1, <2>2 DEF ParentSound
<1> QED BY <1>1, ParentInitInv, ParentNextInv, PTL DEF ParentSpec
=============================================================================
