------------------------------- MODULE Messages -------------------------------
(***************************************************************************)
(* How a message is made (src/src/lib/message_t.c, dpi_message_t.h): from  *)
(* the fields of a report, in its order, by the server, or from what the   *)
(* DPI extracted of a packet, attribute after attribute, by the standalone *)
(* program.  The data lie one behind the other in a buffer whose length    *)
(* the configuration gives; attributes are known by their index.           *)
(*                                                                         *)
(* The configuration (config.c) is options with default values, and a file *)
(* of lines "name value" that is read when the library is loaded and once  *)
(* more by mmt_sec_init.  A line is [name, sep, value]: its first word, or *)
(* "" or "#", what stands between name and value, and the number.          *)
(***************************************************************************)
EXTENDS Integers, Sequences, FiniteSets, FiniteSetsExt, SequencesExt

CONSTANTS
  Defaults,  (* the options and their values before a file is read          *)
  ConfigFiles, (* the files to read; <<>> when there is none                *)
  UINT16,    (* how many values the length of a payload can have, 2^16 in
                the code                                                    *)
  UINT32,    (* those an option can have, 2^32                              *)
  SIZE_T,    (* those a length can have, 2^64                               *)
  Types,     (* Types[i]: DPI type of attribute i                           *)
  Pointee,   (* Pointee[i]: what a pointer leads to: payload, data, command,
                options, other, or "" for an attribute that is none         *)
  Owner,     (* Owner[i]: the protocol of attribute i                       *)
  Flags,     (* the attributes that are flags of TCP                        *)
  Sizes,     (* Sizes[t]: bytes of a type that has a fixed size             *)
  Header,    (* SIZE_OF_MMT_MEMORY_T                                        *)
  Inputs,    (* reports and packets                                         *)
  Events     (* the events of a rule, numbers; 0 is the timeout             *)

(* What a line of a file, a field and an input can be.  Nothing bounds what is
   captured of a packet, nor where its headers are said to be; the length of its IP
   header is a byte, -1 when it is not known. *)
ALine   == [name : STRING, sep : STRING, value : Int]
AField  == [att : Nat, len : 0 .. UINT32 - 1, zero : BOOLEAN, null : BOOLEAN]
AReport == [by : {"probe"}, fields : Seq(AField)]
APacket == [by : {"dpi"}, path : Seq([proto : STRING, offset : Nat]), caplen : 0 .. UINT32 - 1,
            ipHeader : -1 .. 255, data : Seq(AField)]

ASSUME WidthAssumption ==
  /\ UINT16 \in Nat \ {0} /\ UINT32 \in Nat \ {0} /\ SIZE_T \in Nat
  /\ UINT16 <= UINT32 /\ Header \in Nat /\ 2 * UINT32 + Header + 256 <= SIZE_T
ASSUME ConfigAssumption ==
  /\ Defaults \in [DOMAIN Defaults -> 0 .. UINT32 - 1]
  /\ "input.max_message_size" \in DOMAIN Defaults
  /\ ConfigFiles \subseteq Seq(ALine)
ASSUME InputAssumption ==
  \A x \in Inputs : x \in AReport \/ (x \in APacket /\ Len(x.data) = Len(Types))

VARIABLES
  config,    (* the value of each option                                    *)
  text,      (* the file                                                    *)
  lines,     (* the lines of it that have not been read                     *)
  loads,     (* how often the file is still to be read again                *)
  input,     (* what the message is made from                               *)
  next,      (* the field, or the attribute, that comes next                *)
  msg,       (* the message under construction                              *)
  trace      (* the bytes of each attribute in the messages that a rule
                remembers, by event                                         *)

configVars == <<config, text, lines, loads>>
messageVars == <<input, next, msg, trace>>

(* Blanks are jumped over; at any other separator atol finds no number. *)
Value(l) == IF l.sep = " " THEN l.value % UINT32 ELSE 0

(* _check_then_set_value, for every option in turn: a blank line, a comment and
   a name that is not an option leave everything as it is. *)
CheckThenSet(c, l) ==
  IF l.name \in DOMAIN c /\ l.sep # "" THEN [c EXCEPT ![l.name] = Value(l)] ELSE c

ConfigInit ==
  /\ config = Defaults /\ text \in ConfigFiles /\ lines = text /\ loads = 1

ReadLine ==
  /\ lines # <<>>
  /\ config' = CheckThenSet(config, Head(lines))
  /\ lines' = Tail(lines)
  /\ UNCHANGED <<text, loads>>

(* mmt_sec_init reads the file again, from its beginning. *)
ReadAgain ==
  /\ lines = <<>> /\ loads > 0
  /\ lines' = text /\ loads' = loads - 1
  /\ UNCHANGED <<config, text>>

Configured == lines = <<>> /\ loads = 0

-----------------------------------------------------------------------------
Attributes == DOMAIN Types
Absent == [at |-> -1, len |-> 0, field |-> 0]
NoInput == [by |-> "none"]
NoMessage == <<>>

(* Types a pointer to text is found in, and those that carry their length. *)
Pointers == {"header_line", "generic_line", "string_pointer"}
Texts    == {"string", "string_long"} \cup Pointers
Numbers  == {"u8", "u16", "u32", "u64", "port", "char", "float"}

ASSUME TypesAssumption ==
  /\ Types \in Seq(STRING)
  /\ \A type \in DOMAIN Sizes : Sizes[type] \in 0 .. UINT32 - 1
  /\ \A i \in Flags \cap Attributes : Types[i] \in Numbers

(* create_message_t; _data_length has 32 bits.  overrun: more than the buffer has
   is written into it. *)
Create ==
  [elements |-> [i \in Attributes |-> Absent], hash |-> {}, index |-> 0, overrun |-> FALSE,
   length |-> (config["input.max_message_size"] + Len(Types) * Header) % UINT32]

(* Slip: the byte that ends the data is not counted. *)
TooBig_End(m, len) == (m.index + len + Header) % SIZE_T > m.length

(* A header, the data, and a zero; the sum of sizes can wrap. *)
TooBig(m, len) == (m.index + len + Header + 1) % SIZE_T >= m.length

(* set_element_data_message_t: what does not fit is left out, whatever its
   callers do next; a flag that is zero is no data.  A length whose sum wraps is
   not found too big, and copied. *)
SetElement(m, i, f, len, zero) ==
  IF \/ TooBig(m, len)
     \/ len = 0
     \/ zero /\ i \in Flags /\ Types[i] \in Numbers
  THEN m
  ELSE IF m.index + len + Header + 1 >= m.length THEN [m EXCEPT !.overrun = TRUE]
  ELSE [m EXCEPT !.hash = @ \cup {i}, !.index = @ + len + Header + 1,
                 !.elements[i] = [at |-> m.index + Header, len |-> len, field |-> f]]

(* dpi_message_set_dpi_data: the bytes a value has by its type; none for a type
   that is not supported. *)
SizeOf(i, f) == CASE Types[i] \in DOMAIN Sizes -> Sizes[Types[i]]
                  [] Types[i] \in Texts -> f.len
                  [] OTHER -> 0

-----------------------------------------------------------------------------
(* The sum of the first n numbers. *)
Total(f, n) == LET sum[k \in 0 .. n] == IF k = 0 THEN 0 ELSE sum[k - 1] + f[k] IN sum[n]

(* The headers of a packet below and including the first of a protocol; the
   first entry of the path is not counted. *)
Places(p, proto) == {k \in 2 .. Len(p.path) : p.path[k].proto = proto}
Place(p, proto)  == CHOOSE k \in Places(p, proto) : \A l \in Places(p, proto) : k <= l
Offset(p, k)     == Total([l \in 1 .. k |-> IF l = 1 THEN 0 ELSE p.path[l].offset], k)
Behind(p, k)     == (p.caplen - Offset(p, k)) % UINT16

(* Slip: the payload begins where the protocol itself does. *)
PayloadLen_Own(p, proto) ==
  IF Places(p, proto) = {} \/ Place(p, proto) = Len(p.path) THEN 0
  ELSE Behind(p, Place(p, proto))

(* dpi_get_payload_len and dpi_get_data_len *)
PayloadLen(p, proto) ==
  IF Places(p, proto) = {} \/ Place(p, proto) = Len(p.path) THEN 0
  ELSE Behind(p, Place(p, proto) + 1)

DataLen(p, proto) == IF Places(p, proto) = {} THEN 0 ELSE Behind(p, Place(p, proto))

(* dpi_get_ip_option_len: the header less the 20 bytes that every one has. *)
OptionLen(p) == IF p.ipHeader = -1 THEN 0 ELSE (p.ipHeader - 20) % SIZE_T

(* dpi_message_set_void_data: what a pointer leads to has the length that its
   attribute says. *)
PointeeLen(p, i, f) ==
  CASE Pointee[i] = "payload" -> PayloadLen(p, Owner[i])
    [] Pointee[i] = "data"    -> DataLen(p, Owner[i])
    [] Pointee[i] = "command" -> f.len
    [] Pointee[i] = "options" -> OptionLen(p)
    [] OTHER -> 0

-----------------------------------------------------------------------------
Ready == Configured /\ input = NoInput

Init ==
  /\ ConfigInit
  /\ input = NoInput /\ next = 0 /\ msg = Create
  /\ trace = [e \in Events \cup {0} |-> NoMessage]

Begin(x) ==
  /\ Ready /\ trace[0] = NoMessage
  /\ input' = x /\ next' = 1 /\ msg' = Create
  /\ UNCHANGED <<configVars, trace>>

(* The bytes of the field, or attribute, k of an input.  receiving_reports:
   pointers to text, and pointers, have the length the report gives; an attribute
   that no rule uses has no type.  _get_packet_info: by type, or by what a
   pointer leads to. *)
AttOf(x, k) == IF x.by = "probe" THEN x.fields[k].att ELSE k
FieldOf(x, k) == IF x.by = "probe" THEN x.fields[k] ELSE x.data[k]
LengthOf(x, k) ==
  LET i == AttOf(x, k)
      f == FieldOf(x, k)
  IN  IF i \notin Attributes \/ f.null THEN 0
      ELSE CASE x.by = "probe" /\ Types[i] \in Pointers \cup {"pointer"} -> f.len
             [] x.by = "dpi" /\ Types[i] = "pointer" -> PointeeLen(x, i, f)
             [] OTHER -> SizeOf(i, f)

Put ==
  /\ msg' = IF LengthOf(input, next) = 0 THEN msg
            ELSE SetElement(msg, AttOf(input, next), next, LengthOf(input, next), FieldOf(input, next).zero)
  /\ next' = next + 1
  /\ UNCHANGED <<configVars, input, trace>>

(* One field of a report; one attribute of a packet, by its index.  Nothing is
   known of what a program does that has written behind its buffer. *)
Receive == input.by = "probe" /\ next <= Len(input.fields) /\ ~msg.overrun /\ Put
Extract == input.by = "dpi" /\ next \in Attributes /\ ~msg.overrun /\ Put

Complete == /\ ~msg.overrun
            /\ \/ input.by = "probe" /\ next > Len(input.fields)
               \/ input.by = "dpi" /\ next \notin Attributes

(* The message is verified, and an instance of a rule that meets it by one of its
   events remembers it; a timeout, event 0, is the last. *)
Remember(e) ==
  /\ Complete /\ trace[e] = NoMessage
  /\ e = 0 => \E d \in Events : trace[d] # NoMessage
  /\ trace' = [trace EXCEPT ![e] = [i \in Attributes |-> msg.elements[i].len]]
  /\ input' = NoInput /\ next' = 0 /\ msg' = Create
  /\ UNCHANGED configVars

(* It is verified, and is no event of the rule. *)
Forget ==
  /\ Complete
  /\ input' = NoInput /\ next' = 0 /\ msg' = Create
  /\ UNCHANGED <<configVars, trace>>

Next ==
  \/ ReadLine /\ UNCHANGED messageVars
  \/ ReadAgain /\ UNCHANGED messageVars
  \/ \E x \in Inputs : Begin(x)
  \/ Receive
  \/ Extract
  \/ \E e \in DOMAIN trace : Remember(e)
  \/ Forget

Spec == Init /\ [][Next]_<<configVars, messageVars>>

-----------------------------------------------------------------------------
Present(m) == {i \in Attributes : m.elements[i] # Absent}

TypeOK ==
  /\ config \in [DOMAIN Defaults -> 0 .. UINT32 - 1] /\ loads \in 0 .. 1
  /\ next \in 0 .. 1 + Len(Types) + (IF input.by = "probe" THEN Len(input.fields) ELSE 0)
  /\ msg.hash \subseteq Attributes /\ msg.index \in Nat /\ msg.overrun \in BOOLEAN
  /\ \A i \in Attributes : msg.elements[i].at >= -1 /\ msg.elements[i].len \in Nat

(* The data of a message, each with its header and the zero behind it, lie in the
   buffer and apart from each other, whatever fields come in whatever order. *)
SegmentsApart ==
  /\ \A i \in Present(msg) :
       msg.elements[i].at >= Header /\ msg.elements[i].at + msg.elements[i].len < msg.length
  /\ \A i, j \in Present(msg) :
       i = j \/ msg.elements[i].at + msg.elements[i].len < msg.elements[j].at - Header
             \/ msg.elements[j].at + msg.elements[j].len < msg.elements[i].at - Header

(* The bits of a message say which data it has: messages are given to threads,
   and rules, by these bits ("a hash number represents the present of its
   elements", message_t.h:46). *)
HashPresent == msg.hash = Present(msg)

(* Which of the first n fields say something of attribute i, and the bytes that all
   of them would take. *)
Said(x, n, i) == {k \in 1 .. n : /\ AttOf(x, k) = i /\ LengthOf(x, k) > 0
                                 /\ ~(FieldOf(x, k).zero /\ i \in Flags)}
Needed(x, n)  == Total([k \in 1 .. n |-> LengthOf(x, k) + Header + 1], n)

(* A message says what its input says: every element is what a field of that
   attribute gave, with all its bytes, and, as long as all of them fit, the last that
   did, in whatever order and how often they come. *)
MessageSays ==
  input # NoInput =>
    \A i \in Attributes :
      LET f    == msg.elements[i].field
          said == Said(input, next - 1, i)
      IN  /\ f # 0 => f \in said /\ msg.elements[i].len = LengthOf(input, f)
          /\ Needed(input, next - 1) < msg.length /\ said # {} => f = Max(said)

(* Only a packet whose IP header is said to be shorter than an IP header can be
   overruns the buffer, and with nothing but its options. *)
OverrunExplained ==
  msg.overrun => input.by = "dpi" /\ input.ipHeader \in 0 .. 19 /\ Pointee[next - 1] = "options"

(* Where the payload, or the data, that attribute i leads to begin in a packet:
   at a header of its path. *)
Begins(p, i) == Place(p, Owner[i]) + (IF Pointee[i] = "payload" THEN 1 ELSE 0)
Copied(i)    == Types[i] = "pointer" /\ Pointee[i] \in {"payload", "data"}

(* What is copied of a packet as a payload, or as data, begins at a header and was
   captured, up to the end of the packet as long as that is less than 2^16 bytes
   away; only what a header said to be behind the capture begins was not.  The
   payload of a protocol and the data of the one above it are the same. *)
CapturedOnly ==
  input.by = "dpi" =>
    \A i \in Present(msg) :
      Copied(i) =>
        LET len == msg.elements[i].len
            at  == Offset(input, Begins(input, i))
        IN  /\ Begins(input, i) \in 2 .. Len(input.path)
            /\ at <= input.caplen => at + len <= input.caplen
            /\ at <= input.caplen /\ input.caplen - at < UINT16 => at + len = input.caplen
            /\ \A j \in Present(msg) :
                 Copied(j) /\ Begins(input, j) = Begins(input, i) => msg.elements[j].len = len

(* A message is what a rule may rely on: its data are in the buffer, its bits say
   which, and they are what the report or packet said; the buffer is overrun only
   by options of a header that is too short to have any. *)
MessageKept == TypeOK /\ SegmentsApart /\ HashPresent /\ MessageSays /\ OverrunExplained
=============================================================================
