---------------------------- MODULE ServerProcess ----------------------------
(***************************************************************************)
(* The process that serves one connection, from the reports it receives to *)
(* the files and the channel its verdicts go to, and its end               *)
(* (src/src/main_sec_server.c, verdict_printer.c), with the same end in    *)
(* the standalone program (main_sec_standalone.c).                         *)
(*                                                                         *)
(* The main thread reads reports and hands messages to the threads, whose  *)
(* verification is here no more than whether there is a verdict; each      *)
(* thread prints its verdict to a file, then to Redis.  Signals come to    *)
(* the main thread, and not while it ends.  Any thread may end the process *)
(* with mmt_halt, when others still run.                                   *)
(***************************************************************************)
EXTENDS Integers, Sequences, FiniteSets

CONSTANTS
  Threads, Main,
  Periods, MaxTime,    (* as in FileOutput                                  *)
  Starts,              (* how it may be started: an output mode (a set of   *)
                       (* "file" and "redis"), a period, a program          *)
  MaxReports           (* bound on the reports of the peer                  *)

ASSUME ServerAssumption ==
  /\ Main \notin Threads /\ {"nobody", "reader"} \cap Threads = {}
  /\ Periods \subseteq Nat /\ MaxTime \in Nat /\ MaxReports \in Nat

VARIABLES
  clock, period, file, timestamp, fileLock, buffer, disk, sealed, written, failed,
  fpc, now,
  linked, err, mutex, waiters, rpc, reply, asked, reader, parsed, woken, wire, back, server,
  strayed, crashed,
  mode,        (* output_mode                                               *)
  program,     (* "server" or "standalone"                                  *)
  stream,      (* what the peer has sent and the process has not read       *)
  peer,        (* how the peer has ended, or "open"                         *)
  sent,        (* bound: reports sent                                       *)
  reports,     (* reports_count                                             *)
  main,        (* where the main thread is                                  *)
  signalled,   (* a signal has come                                         *)
  inbox,       (* inbox[t]: messages thread t has not verified              *)
  out,         (* out[t]: where the verdict of thread t is                  *)
  given        (* given[t]: verdicts of thread t                            *)

File  == INSTANCE FileOutput
Redis == INSTANCE Thredis

fileVars  == <<clock, period, file, timestamp, fileLock, buffer, disk, sealed, written, failed, fpc,
              now>>
redisVars == <<linked, err, mutex, waiters, rpc, reply, asked, reader, parsed, woken, wire, back,
               server, strayed, crashed>>
mainVars  == <<mode, program, stream, peer, sent, reports, main, signalled>>
vars == <<fileVars, redisVars, mainVars, inbox, out, given>>

(* verdict_printer_init, with what follows the name of the file after a colon as
   the period. *)
PrinterInit == \E s \in Starts : mode = s.mode /\ period = s.period /\ program = s.program

Init ==
  /\ File!FileInit /\ Redis!RedisInit
  /\ PrinterInit
  /\ stream = <<>> /\ peer = "open" /\ sent = 0 /\ reports = 0
  /\ main = "receive" /\ signalled = FALSE
  /\ inbox = [t \in Threads |-> 0] /\ out = [t \in Threads |-> "none"]
  /\ given = [t \in Threads |-> 0]

Ended == main \in {"exited", "halted"}
Alive == ~Ended /\ ~crashed

(* mmt_halt, by any thread, while the others run.  exit closes the plugins first
   and then writes what stdio holds: a thread that is in a plugin may crash, and
   the process with it, before anything is written. *)
Stop == main' = "halted" /\ (File!Flush \/ UNCHANGED fileVars)

-----------------------------------------------------------------------------
(* The peer, or the trace, ends between two reports, inside one, or with an error
   of the socket. *)
Peer ==
  /\ peer = "open" /\ Alive
  /\ \/ sent < MaxReports /\ sent' = sent + 1 /\ stream' = Append(stream, "report") /\ UNCHANGED peer
     \/ /\ peer' \in (IF program = "server" THEN {"closed", "cutHeader", "cutBody", "reset"}
                      ELSE {"closed"})
        /\ stream' = Append(stream, peer') /\ UNCHANGED sent
  /\ UNCHANGED <<fileVars, redisVars, mode, program, reports, main, signalled, inbox, out, given>>

(* mmt_smp_sec_process: threads with a rule concerned get the message. *)
Process(r) ==
  /\ main = "receive" /\ stream # <<>> /\ Head(stream) = r
  /\ \E concerned \in SUBSET Threads :
       inbox' = [t \in Threads |-> inbox[t] + (IF t \in concerned THEN 1 ELSE 0)]
  /\ reports' = reports + 1

Receive ==
  /\ Alive /\ program = "server" /\ Process("report") /\ stream' = Tail(stream)
  /\ UNCHANGED <<fileVars, redisVars, mode, program, peer, sent, main, signalled, out, given>>

(* packet_handler of the standalone program: a packet without any attribute of a
   rule gives no message. *)
ReadPacket ==
  /\ Alive /\ program = "standalone"
  /\ \/ Process("report")
     \/ main = "receive" /\ stream # <<>> /\ Head(stream) = "report" /\ UNCHANGED <<inbox, reports>>
  /\ stream' = Tail(stream)
  /\ UNCHANGED <<fileVars, redisVars, mode, program, peer, sent, main, signalled, out, given>>

(* The body of the last report is short: what the buffer held before is read as
   its end and verified, unless the lengths do not fit; the next read is the end
   of the connection. *)
ReceiveShort ==
  /\ Alive /\ Process("cutBody") /\ stream' = <<"closed">>
  /\ UNCHANGED <<fileVars, redisVars, mode, program, peer, sent, main, signalled, out, given>>

(* A header that is cut or an error is not told from a header, and no body follows
   it: the program ends, and nobody is waited for. *)
Halt ==
  /\ Alive /\ main = "receive" /\ stream # <<>>
  /\ Head(stream) \in {"cutHeader", "cutBody", "reset"}
  /\ Stop
  /\ UNCHANGED <<redisVars, mode, program, stream, peer, sent, reports, signalled, inbox, out, given>>

EndOfStream ==
  /\ Alive /\ main = "receive" /\ stream # <<>> /\ Head(stream) = "closed"
  /\ main' = "unregister"
  /\ UNCHANGED <<fileVars, redisVars, mode, program, stream, peer, sent, reports, signalled, inbox,
                 out, given>>

(* SIGINT or SIGTERM: the handler does the work of termination in the place of
   what it interrupts. *)
Interrupt ==
  /\ Alive /\ main = "receive"
  /\ signalled' = TRUE /\ main' = "unregister"
  /\ UNCHANGED <<fileVars, redisVars, mode, program, stream, peer, sent, reports, inbox, out, given>>

(* The server does not free the printer after a signal, the standalone program
   always does. *)
FreesPrinter == "file" \in mode /\ (program = "standalone" \/ ~signalled)

(* Slip: the threads are not waited for. *)
Unregister_NoJoin ==
  /\ Alive /\ main = "unregister"
  /\ main' = (IF FreesPrinter THEN "free" ELSE "exit")
  /\ UNCHANGED <<fileVars, redisVars, mode, program, stream, peer, sent, reports, signalled, inbox,
                 out, given>>

(* mmt_sec_unregister has every thread verify what it was given, and waits for
   them. *)
Unregister ==
  /\ Alive /\ main = "unregister"
  /\ \A t \in Threads : inbox[t] = 0 /\ out[t] = "none"
  /\ main' = (IF FreesPrinter THEN "free" ELSE "exit")
  /\ UNCHANGED <<fileVars, redisVars, mode, program, stream, peer, sent, reports, signalled, inbox,
                 out, given>>

(* verdict_printer_free *)
Free ==
  /\ Alive /\ main = "free" /\ File!CloseFile
  /\ main' = "exit"
  /\ UNCHANGED <<redisVars, mode, program, stream, peer, sent, reports, signalled, inbox, out, given>>

CloseLast ==
  /\ Alive /\ (File!CloseOld(Main) \/ File!Seal(Main))
  /\ UNCHANGED <<redisVars, mainVars, inbox, out, given>>

Exit ==
  /\ Alive /\ main = "exit" /\ fpc[Main] = "idle"
  /\ File!Flush /\ main' = "exited"
  /\ UNCHANGED <<redisVars, mode, program, stream, peer, sent, reports, signalled, inbox, out, given>>

-----------------------------------------------------------------------------
(* A thread verifies a message, without a verdict, *)
Verify(t) ==
  /\ Alive /\ inbox[t] > 0 /\ out[t] = "none"
  /\ inbox' = [inbox EXCEPT ![t] = @ - 1]
  /\ UNCHANGED <<fileVars, redisVars, mainVars, out, given>>

(* or with one: verdict_printer_send. *)
Verdict(t) ==
  /\ Alive /\ inbox[t] > 0 /\ out[t] = "none"
  /\ inbox' = [inbox EXCEPT ![t] = @ - 1]
  /\ given' = [given EXCEPT ![t] = @ + 1]
  /\ IF "file" \in mode
     THEN out' = [out EXCEPT ![t] = "file"] /\ File!Start(t) /\ UNCHANGED redisVars
     ELSE out' = [out EXCEPT ![t] = "redis"] /\ Redis!Ask(t) /\ UNCHANGED fileVars
  /\ UNCHANGED mainVars

PrintFile(t) ==
  /\ Alive /\ out[t] = "file"
  /\ \/ File!FileStep(t) /\ UNCHANGED <<redisVars, out>>
     \/ /\ File!Write(t, <<t, given[t]>>)
        /\ IF "redis" \in mode THEN out' = [out EXCEPT ![t] = "redis"] /\ Redis!Ask(t)
           ELSE out' = [out EXCEPT ![t] = "none"] /\ UNCHANGED redisVars
  /\ UNCHANGED <<mainVars, inbox, given>>

(* Its new file could not be opened. *)
HaltedBy(t) ==
  /\ Alive /\ fpc[t] = "halt" /\ Stop
  /\ UNCHANGED <<redisVars, mode, program, stream, peer, sent, reports, signalled, inbox, out, given>>

PrintRedis(t) ==
  /\ Alive /\ out[t] = "redis"
  /\ Redis!CommandStep(t)
  /\ out' = (IF rpc'[t] = "idle" THEN [out EXCEPT ![t] = "none"] ELSE out)
  /\ UNCHANGED <<fileVars, mainVars, inbox, given>>

RedisReader ==
  /\ Alive /\ "redis" \in mode /\ Redis!ReaderStep
  /\ UNCHANGED <<fileVars, mainVars, inbox, out, given>>

SpuriousWakeup ==
  /\ Alive /\ "redis" \in mode /\ \E t \in Threads : Redis!Spurious(t)
  /\ UNCHANGED <<fileVars, mainVars, inbox, out, given>>

RedisServer ==
  /\ Alive /\ "redis" \in mode /\ (Redis!Answer \/ Redis!Disconnect)
  /\ UNCHANGED <<fileVars, mainVars, inbox, out, given>>

Clock ==
  /\ Alive /\ "file" \in mode /\ File!Tick
  /\ UNCHANGED <<redisVars, mainVars, inbox, out, given>>

MainStep ==
  Receive \/ ReadPacket \/ ReceiveShort \/ Halt \/ EndOfStream \/ Unregister \/ Free \/ CloseLast \/ Exit
Worker(t) == Verify(t) \/ Verdict(t) \/ PrintFile(t) \/ HaltedBy(t) \/ PrintRedis(t)

Next ==
  \/ Peer \/ MainStep \/ Interrupt
  \/ \E t \in Threads : Worker(t)
  \/ RedisReader \/ RedisServer \/ SpuriousWakeup \/ Clock

(* Threads and the reader are scheduled.  The Redis server answers a command that
   it has, or goes away, after some time: an assumption, for the code sets no
   limit to the wait.  Nothing is assumed of the peer, of signals, of the disk, or
   of wake-ups without a signal. *)
Fairness ==
  /\ WF_vars(MainStep) /\ \A t \in Threads : WF_vars(Worker(t))
  /\ WF_vars(RedisReader)
  /\ WF_vars(Alive /\ "redis" \in mode /\ Redis!Answer
             /\ UNCHANGED <<fileVars, mainVars, inbox, out, given>>)

Spec == Init /\ [][Next]_vars /\ Fairness

-----------------------------------------------------------------------------
TypeOK ==
  /\ main \in {"receive", "unregister", "free", "exit", "exited", "halted"}
  /\ \A t \in Threads : inbox[t] \in 0 .. MaxReports + 1 /\ out[t] \in {"none", "file", "redis"}
  /\ reports \in 0 .. MaxReports + 1

(* The files are right (FileOutput) while the main thread closes the last one
   without the lock, and exit may come between any two steps. *)
FilesKept == File!FilesKept

(* The connection is right (Thredis) under threads that print to a file first. *)
RepliesMatch == Redis!RepliesMatch

(* A program that ends as it should, at the end of its reports or by a signal that
   leaves some unread, has verified every message it handed out; every verdict is
   on the disk, or in a file that the disk refused; and it closes its last file
   itself. *)
EndComplete ==
  main = "exited" =>
    /\ \A t \in Threads : inbox[t] = 0 /\ out[t] = "none"
    /\ "file" \in mode =>
         \A t \in Threads : \A n \in 1 .. given[t] :
           \E w \in written :
             w.verdict = <<t, n>> /\ (w.verdict \in disk[w.name] \/ w.name \in failed)
    /\ FreesPrinter => file = File!None

(* Whatever the threads, the disk and the reader do, and as long as the Redis server
   answers or goes away, a process whose peer has gone or that is told to end does
   end, unless a pointer goes astray first (CrashExplained says when): nobody waits
   for a verdict for ever. *)
Ends == (peer # "open" \/ signalled) ~> (Ended \/ crashed)

(* The end of the process, from states of the right type: no message or verdict is
   lost by a proper end, and the last file is closed. *)
EndsWell == TypeOK /\ EndComplete
=============================================================================
