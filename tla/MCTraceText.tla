------------------------------ MODULE MCTraceText ------------------------------
(* Six attributes: a flag of TCP, a text, the payload of TCP, an address, the
   options of IP, the data of HTTP.  The flag and the text are shown of event 1,
   text, payload and address of event 2. *)
EXTENDS TraceText

MCTypes   == <<"u8", "string_pointer", "pointer", "ip", "pointer", "pointer">>
MCPointee == <<"", "", "payload", "", "options", "data">>
MCOwner   == <<"tcp", "http", "tcp", "ip", "ip", "http">>
MCSizes   == [u8 |-> 8, ip |-> 4]
MCShown   == [e \in 0 .. 2 |-> CASE e = 0 -> {} [] e = 1 -> {1, 2} [] OTHER -> {2, 3, 4}]

Line(name, sep, value) == [name |-> name, sep |-> sep, value |-> value]
MCDefaults == [o \in {"input.max_message_size"} |-> 30]
Size(sep, n) == Line("input.max_message_size", sep, n)
MCFiles == { <<>>, <<Line("#", "", 0), Line("other", " ", 1), Size(" ", 280)>>,
             <<Size(" ", 405), Size("=", 80)>>, <<Size(" ", 150)>> }

(* Fields of one byte, of none, of more than there is room for; attribute 9 is
   not known. *)
Field(att, len, zero) == [att |-> att, len |-> len, zero |-> zero, null |-> FALSE]
Fields == {Field(1, 1, FALSE), Field(1, 1, TRUE), Field(2, 1, FALSE), Field(2, 90, FALSE),
           Field(3, 0, FALSE), Field(4, 4, TRUE), Field(9, 1, FALSE)}
Reports == {[by |-> "probe", fields |-> s] : s \in UNION {[1 .. n -> Fields] : n \in 0 .. 2}}
             \cup {[by |-> "probe", fields |-> <<a, b, a>>] : a, b \in Fields}

(* Packets cut in front of a header, behind it, and 15 and 24 bytes behind it, where
   a length can say 15 at most; one has a protocol twice. *)
Header_(proto, offset) == [proto |-> proto, offset |-> offset]
Paths == { << Header_("eth", 0), Header_("ip", 2) >>,
           << Header_("eth", 0), Header_("ip", 2), Header_("tcp", 3), Header_("http", 4) >>,
           << Header_("eth", 0), Header_("ip", 2), Header_("tcp", 3), Header_("tcp", 1), Header_("http", 1) >> }
Packet(p, c, h, z, n) ==
  [by |-> "dpi", path |-> p, caplen |-> c, ipHeader |-> h,
   data |-> << Field(1, 1, z), [Field(2, 3, FALSE) EXCEPT !.null = n],
               Field(3, 0, FALSE), Field(4, 4, FALSE), Field(5, 0, FALSE), Field(6, 0, FALSE) >>]
Packets == {Packet(p, 15, 20, z, ~z) : p \in Paths, z \in BOOLEAN}
             \cup {Packet(p, c, 20, TRUE, TRUE) : p \in Paths, c \in {7, 24, 33}}
             \cup {Packet(p, 15, h, FALSE, TRUE) : p \in Paths, h \in {-1, 19, 24}}
MCInputs == Reports \cup Packets
=============================================================================
