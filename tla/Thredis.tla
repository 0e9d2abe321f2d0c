------------------------------- MODULE Thredis -------------------------------
(***************************************************************************)
(* Verdicts published to Redis by several threads over one connection      *)
(* (src/src/lib/thredis.c and send_msg_to_redis.c).  A thread writes its   *)
(* command and waits; one reader thread takes the answers from the socket  *)
(* and gives each to the thread that has waited longest.                   *)
(*                                                                         *)
(* What happens under thredis->mutex and only touches what it protects is  *)
(* one step.  The server, and the socket, are external.                    *)
(*                                                                         *)
(* A thread waits with a record in its own frame, and does not look again  *)
(* when pthread_cond_wait returns without a signal: its record then stays  *)
(* in the list of waiters, in a frame that is gone.                        *)
(***************************************************************************)
EXTENDS Integers, Sequences, SequencesExt

CONSTANT Threads

VARIABLES
  linked,     (* thredis->redis # NULL                                      *)
  err,        (* thredis->redis->err                                        *)
  mutex,      (* holder of thredis->mutex                                   *)
  waiters,    (* from wait_head to wait_tail: records, as the thread and    *)
              (* the number of the command it waits with                    *)
  rpc,        (* rpc[t]: where thread t is in send_message_to_redis         *)
  reply,      (* reply[t]: the reply in the record it waits with            *)
  asked,      (* asked[t]: number of its last command                       *)
  reader,     (* where the reader thread is                                 *)
  parsed,     (* answers read from the socket                               *)
  woken,      (* the thread whose record the reader has filled              *)
  wire,       (* commands the server has not answered                       *)
  back,       (* answers in the socket                                      *)
  server,     (* whether the connection is there                            *)
  strayed,    (* records whose thread woke without a signal                 *)
  crashed     (* a NULL pointer, or one to a record that is gone, was       *)
              (* followed: nothing is known of what comes after             *)

local == <<linked, err, mutex, waiters, rpc, reply, asked, reader, parsed, woken, strayed, crashed>>
redisVars == <<local, wire, back, server>>

Nobody == "nobody"
Reader == "reader"
NoReply == <<>>

(* init_redis and thredis_new: a program that cannot connect exits. *)
RedisInit ==
  /\ linked = TRUE /\ err = FALSE /\ mutex = Nobody /\ waiters = <<>>
  /\ rpc = [t \in Threads |-> "idle"] /\ reply = [t \in Threads |-> NoReply]
  /\ asked = [t \in Threads |-> 0]
  /\ reader = "poll" /\ parsed = <<>> /\ woken = Nobody
  /\ wire = <<>> /\ back = <<>> /\ server = TRUE /\ strayed = {} /\ crashed = FALSE

-----------------------------------------------------------------------------
Goto(t, pc) == rpc' = [rpc EXCEPT ![t] = pc]

Ask(t) ==
  /\ rpc[t] = "idle" /\ Goto(t, "lock")
  /\ asked' = [asked EXCEPT ![t] = @ + 1]
  /\ reply' = [reply EXCEPT ![t] = NoReply]
  /\ UNCHANGED <<linked, err, mutex, waiters, reader, parsed, woken, strayed, crashed, wire, back, server>>

(* thredis_command: without a connection it returns NULL. *)
LockRedis(t) ==
  /\ rpc[t] = "lock" /\ mutex = Nobody
  /\ IF linked THEN mutex' = t /\ Goto(t, "write") ELSE Goto(t, "idle") /\ UNCHANGED mutex
  /\ UNCHANGED <<linked, err, waiters, reply, asked, reader, parsed, woken, strayed, crashed, wire, back, server>>

(* redisvAppendCommand and flush_writes.  A write fails when the connection is
   gone, or is lost in the socket; then, and after an error, NULL is returned. *)
WriteCommand(t) ==
  /\ rpc[t] = "write"
  /\ \/ /\ ~err /\ Goto(t, "enqueue") /\ UNCHANGED <<err, mutex>>
        /\ wire' = (IF server THEN Append(wire, <<t, asked[t]>>) ELSE wire)
     \/ /\ err \/ ~server
        /\ err' = TRUE /\ mutex' = Nobody /\ Goto(t, "idle") /\ UNCHANGED wire
  /\ UNCHANGED <<linked, waiters, reply, asked, reader, parsed, woken, strayed, crashed, back, server>>

(* A record in a frame that is gone, or used by another call since. *)
Gone(w) == rpc[w[1]] \notin {"owner", "asleep", "awake"} \/ w[2] # asked[w[1]]

Crash ==
  /\ crashed' = TRUE
  /\ UNCHANGED <<linked, err, mutex, waiters, rpc, reply, asked, reader, parsed, woken, strayed,
                 wire, back, server>>

(* push_waiter writes to the last record; its own is in the same place of the
   stack as that of the call before.  wait.mutex is taken before thredis->mutex is
   given back. *)
Enqueue(t) ==
  /\ rpc[t] = "enqueue"
  /\ IF \/ waiters # <<>> /\ Gone(Last(waiters))
        \/ \E i \in DOMAIN waiters : waiters[i][1] = t
     THEN Crash
     ELSE /\ waiters' = Append(waiters, <<t, asked[t]>>) /\ mutex' = Nobody /\ Goto(t, "owner")
          /\ UNCHANGED <<linked, err, reply, asked, reader, parsed, woken, strayed, crashed, wire,
                         back, server>>

(* pthread_cond_wait gives wait.mutex back. *)
Sleep(t) ==
  /\ rpc[t] = "owner" /\ Goto(t, "asleep")
  /\ UNCHANGED <<linked, err, mutex, waiters, reply, asked, reader, parsed, woken, strayed, crashed, wire, back, server>>

(* Back in send_message_to_redis, after a reply, the error of the context is read
   through thredis->redis, which the reader may have set to NULL since. *)
Return(t) ==
  /\ rpc[t] = "awake" /\ Goto(t, "idle")
  /\ crashed' = (reply[t] # NoReply /\ ~linked)
  /\ UNCHANGED <<linked, err, mutex, waiters, reply, asked, reader, parsed, woken, strayed, wire,
                 back, server>>

(* pthread_cond_wait may return without a signal, and is not in a loop. *)
Spurious(t) ==
  /\ rpc[t] = "asleep" /\ Goto(t, "awake")
  /\ strayed' = strayed \cup {<<t, asked[t]>>}
  /\ UNCHANGED <<linked, err, mutex, waiters, reply, asked, reader, parsed, woken, crashed, wire,
                 back, server>>

-----------------------------------------------------------------------------
(* poll, and redisBufferRead: answers that are there, or the end. *)
Read ==
  /\ reader = "poll" /\ mutex = Nobody
  /\ back # <<>> \/ ~server
  /\ mutex' = Reader
  /\ IF err \/ back = <<>>
     THEN reader' = "fail" /\ UNCHANGED <<parsed, back>>
     ELSE /\ \E n \in 1 .. Len(back) :
               parsed' = SubSeq(back, 1, n) /\ back' = SubSeq(back, n + 1, Len(back))
          /\ reader' = "deliver"
  /\ UNCHANGED <<linked, err, waiters, rpc, reply, asked, woken, strayed, crashed, wire, server>>

(* Slip: the thread that came last is served. *)
Deliver_Last ==
  /\ reader = "deliver" /\ parsed # <<>>
  /\ IF waiters = <<>> \/ Gone(Last(waiters)) THEN Crash
     ELSE /\ woken' = Last(waiters)[1] /\ waiters' = Front(waiters)
          /\ reply' = [reply EXCEPT ![Last(waiters)[1]] = Head(parsed)]
          /\ parsed' = Tail(parsed) /\ reader' = "signal"
          /\ UNCHANGED <<linked, err, mutex, rpc, asked, strayed, crashed, wire, back, server>>

(* deliver_reply: the first waiter is taken out, without a look whether there is
   one or whether it still waits, and the reply stored in its record. *)
Deliver ==
  /\ reader = "deliver" /\ parsed # <<>>
  /\ IF waiters = <<>> \/ Gone(Head(waiters)) THEN Crash
     ELSE /\ woken' = Head(waiters)[1] /\ waiters' = Tail(waiters)
          /\ reply' = [reply EXCEPT ![Head(waiters)[1]] = Head(parsed)]
          /\ parsed' = Tail(parsed) /\ reader' = "signal"
          /\ UNCHANGED <<linked, err, mutex, rpc, asked, strayed, crashed, wire, back, server>>

(* Slip: the signal is sent without the mutex of the record. *)
Wake_Unlocked(t) == rpc' = IF rpc[t] = "asleep" THEN [rpc EXCEPT ![t] = "awake"] ELSE rpc

(* A signal is lost if its thread does not sleep; its mutex must be free. *)
Wake(t) == /\ rpc[t] # "owner"
           /\ rpc' = IF rpc[t] = "asleep" THEN [rpc EXCEPT ![t] = "awake"] ELSE rpc

(* The thread may have woken by itself and returned since it got its reply. *)
Signal ==
  /\ reader = "signal"
  /\ IF rpc[woken] \notin {"owner", "asleep", "awake"} THEN Crash
     ELSE /\ Wake(woken)
          /\ woken' = Nobody
          /\ reader' = (IF parsed # <<>> THEN "deliver" ELSE "poll")
          /\ mutex' = (IF parsed # <<>> THEN mutex ELSE Nobody)
          /\ UNCHANGED <<linked, err, waiters, reply, asked, parsed, strayed, crashed, wire, back,
                         server>>

(* The connection is lost: every waiter is woken with NULL, *)
FailOne ==
  /\ reader = "fail" /\ waiters # <<>>
  /\ IF Gone(Head(waiters)) THEN Crash
     ELSE /\ Wake(Head(waiters)[1])
          /\ waiters' = Tail(waiters)
          /\ UNCHANGED <<linked, err, mutex, reply, asked, reader, parsed, woken, strayed, crashed,
                         wire, back, server>>

(* and the reader ends. *)
Unlink ==
  /\ reader = "fail" /\ waiters = <<>>
  /\ linked' = FALSE /\ mutex' = Nobody /\ reader' = "ended"
  /\ UNCHANGED <<err, waiters, rpc, reply, asked, parsed, woken, strayed, crashed, wire, back, server>>

(* The server. *)
Answer ==
  /\ server /\ wire # <<>>
  /\ back' = Append(back, Head(wire)) /\ wire' = Tail(wire)
  /\ UNCHANGED <<local, server>>

Disconnect == server /\ server' = FALSE /\ wire' = <<>> /\ UNCHANGED <<local, back>>

CommandStep(t) ==
  LockRedis(t) \/ WriteCommand(t) \/ Enqueue(t) \/ Sleep(t) \/ Return(t)

ReaderStep == Read \/ Deliver \/ Signal \/ FailOne \/ Unlink

-----------------------------------------------------------------------------
RedisTypeOK ==
  /\ mutex \in Threads \cup {Nobody, Reader}
  /\ waiters \in Seq(Threads \X Nat) /\ woken \in Threads \cup {Nobody}
  /\ strayed \subseteq Threads \X Nat
  /\ \A t \in Threads :
       rpc[t] \in {"idle", "lock", "write", "enqueue", "owner", "asleep", "awake"}
  /\ reader \in {"poll", "deliver", "signal", "fail", "ended"}

(* Whoever gets an answer gets that to its own last command, although commands,
   answers and waiters of several threads share one connection. *)
OwnReply == \A t \in Threads : reply[t] \in {NoReply, <<t, asked[t]>>}

(* A record in the list is that of a call which still waits, or whose thread woke
   without a signal: nothing else takes a thread out of its wait, or into the list
   twice. *)
WaitersWait ==
  \A i \in DOMAIN waiters :
    LET w == waiters[i]
    IN  (rpc[w[1]] \in {"owner", "asleep"} /\ w[2] = asked[w[1]]) \/ w \in strayed

(* The reader never takes a waiter out of an empty list. *)
AnswerExpected == reader = "deliver" => Len(parsed) <= Len(waiters)

(* No pointer goes astray by itself: it takes a wake-up without a signal, or the
   loss of the connection. *)
CrashExplained == crashed => strayed # {} \/ ~linked

(* Commands, waiters and answers stay in step on the one connection: each thread
   gets the answer to its own command or none, there is a waiter for every answer,
   and only a wake-up without a signal, for which the code has no loop, or a lost
   connection can make it follow a pointer to nothing. *)
RepliesMatch == RedisTypeOK /\ OwnReply /\ WaitersWait /\ AnswerExpected /\ CrashExplained
=============================================================================
