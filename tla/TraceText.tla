------------------------------ MODULE TraceText -------------------------------
(***************************************************************************)
(* The text of an alert: the messages that a rule remembers, written into  *)
(* a buffer piece after piece                                              *)
(* (_convert_execution_trace_to_json_string, src/src/lib/mmt_security.c).  *)
(*                                                                         *)
(* The code keeps the place to write at, the room it believes is left, and *)
(* the size of what it wrote last, which it steps over only with the next  *)
(* piece: what is not stepped over is written over.  The room counts what  *)
(* introduces events and attributes, not values, commas between events and *)
(* closing brackets: it is more than the buffer has.                       *)
(***************************************************************************)
EXTENDS Messages

CONSTANTS
  Shown,      (* Shown[e]: the attributes of event e, proto_atts_events     *)
  MaxText,    (* MAX_STR_SIZE                                               *)
  HeadText,   (* the length of what introduces an event                     *)
  NameText,   (* the length of what introduces an attribute                 *)
  NumberText, (* the length of a number, or address, as it is printed       *)
  Zeros       (* how many zeros are taken off the end of a number again     *)

ASSUME TextAssumption ==
  /\ MaxText \in Nat \ {0} /\ HeadText \in Nat \ {0} /\ NameText \in Nat
  /\ NumberText \in Nat /\ Zeros \in 0 .. NumberText
  /\ Events = 1 .. Cardinality(Events) /\ IsFiniteSet(Events)

(* out is what has been stepped over, last what has not; whole: no piece was cut;
   over: something was written behind the buffer, which has MaxText + 1 bytes. *)
Start == [out |-> <<"{">>, last |-> <<>>, pos |-> 1, room |-> MaxText, size |-> 0,
          first |-> TRUE, cut |-> FALSE, done |-> FALSE, whole |-> TRUE, over |-> FALSE]

StepOver(t) ==
  [t EXCEPT !.out = @ \o t.last, !.last = <<>>, !.pos = @ + t.size, !.size = 0]

(* What snprintf writes at pos, with the zero behind it, passes the end of the
   buffer: size bytes at most, and no more than the room; of no room nothing, and
   a room that is less is no limit. *)
Passes(pos, size, room) ==
  \/ room > 0 /\ pos + Min({size, room - 1}) > MaxText
  \/ room < 0 /\ pos + size > MaxText

(* A value of text (its zero is the one behind it): at most 255 bytes, and 20 less
   than the room; a room that is used up is no limit. *)
TextLen(len, room) == IF room < 20 THEN len ELSE Min({len, 255, room - 20})

Fixed == Numbers \cup {"ip", "net", "ip6", "mac"}
ValueLen(m, i, room) ==
  IF Types[i] \in Fixed THEN NumberText - (IF Types[i] \in Numbers THEN Zeros ELSE 0)
  ELSE TextLen(m[i], room) + 2

(* The name, or the number or address behind it, is cut that the room has no place
   for; an address of IPv6 is printed without a limit. *)
IsCut(i, room) == room <= 0 \/ (Types[i] \in Fixed \ {"ip6"} /\ NumberText >= room)

ValuePasses(i, pos, room) ==
  IF Types[i] = "ip6" THEN pos + NumberText > MaxText
  ELSE Types[i] \in Fixed /\ Passes(pos, NumberText, room)

(* One element: its name, its value, and a bracket with a zero behind it. *)
Attribute(m, t, i) ==
  IF t.cut THEN t
  ELSE IF t.room - t.size <= 0 THEN [t EXCEPT !.room = @ - t.size, !.cut = TRUE]
  ELSE LET u     == StepOver([t EXCEPT !.room = @ - t.size])
           intro == NameText + (IF t.first THEN 0 ELSE 1)
           room  == u.room - intro
           value == u.pos + intro
           end   == value + ValueLen(m, i, room)
       IN  [u EXCEPT !.room = room, !.pos = end,
                     !.out = @ \o (IF t.first THEN <<>> ELSE <<",">>) \o << "[", IF IsCut(i, room) THEN 0 ELSE i >>,
                     !.last = << "]" >>, !.size = 1, !.first = FALSE, !.whole = @ /\ ~IsCut(i, room),
                     !.over = \/ @
                              \/ Passes(u.pos, intro, u.room)
                              \/ ValuePasses(i, value, room)
                              \/ end + 1 > MaxText]

(* Slip: the elements of the event before are shown, too. *)
IsShown_All(m, e, i) == m[i] > 0

(* What a message has is shown when the event uses it. *)
IsShown(m, e, i) == m[i] > 0 /\ i \in Shown[e]

(* The first n elements of a message. *)
Elements(m, t, e, n) ==
  LET after[k \in 0 .. n] ==
        IF k = 0 THEN t
        ELSE IF IsShown(m, e, k) THEN Attribute(m, after[k - 1], k) ELSE after[k - 1]
  IN  after[n]

(* One event; the text is closed at once when there is no room left. *)
Begun(t, e) ==
  LET comma == IF t.room # MaxText THEN 1 ELSE 0
  IN  [t EXCEPT !.out = @ \o (IF comma = 1 THEN <<",">> ELSE <<>>), !.pos = @ + comma,
                !.last = << "event", e, "[" >>, !.size = HeadText, !.first = TRUE, !.cut = FALSE,
                !.whole = @ /\ HeadText < t.room,
                !.over = \/ @
                         \/ comma = 1 /\ t.pos > MaxText
                         \/ Passes(t.pos + comma, HeadText, t.room)]

Ended(u) ==
  LET v == [u EXCEPT !.room = @ - u.size]
  IN  IF v.room <= 0
      THEN [v EXCEPT !.out = @ \o (IF v.room < 0 THEN <<"]}">> ELSE <<>>), !.last = <<>>,
                     !.pos = @ + 2, !.done = TRUE, !.over = @ \/ Passes(v.pos, 2, v.room)]
      ELSE LET w == StepOver(v)
           IN  [w EXCEPT !.out = Append(@, "]}"), !.pos = @ + 2, !.over = @ \/ w.pos + 1 > MaxText]

Event(t, e) ==
  IF t.done \/ trace[e] = NoMessage THEN t
  ELSE Ended(Elements(trace[e], Begun(t, e), e, Len(Types)))

(* Events 0 .. n - 1, and the text. *)
EventsOf(n) ==
  LET after[k \in 0 .. n] == IF k = 0 THEN Start ELSE Event(after[k - 1], k - 1)
  IN  after[n]

Text(n) ==
  LET t == EventsOf(n + 1)
  IN  [t EXCEPT !.out = Append(@, "}"), !.pos = @ + 2, !.over = @ \/ t.pos + 1 > MaxText]

-----------------------------------------------------------------------------
(* The parts that there are, with commas between them. *)
Joined(part, n) ==
  LET joined[k \in 0 .. n] ==
        IF k = 0 THEN <<>>
        ELSE IF part[k] = <<>> THEN joined[k - 1]
        ELSE IF joined[k - 1] = <<>> THEN part[k]
        ELSE joined[k - 1] \o <<",">> \o part[k]
  IN  joined[n]

(* What the text of an alert should be: of each event in order the attributes its
   message has, each with a name and brackets of its own. *)
AttPart(e) == [i \in Attributes |-> IF i \in Shown[e] /\ trace[e][i] > 0 THEN << "[", i, "]" >> ELSE <<>>]
EventPart(e) ==
  IF trace[e] = NoMessage THEN <<>>
  ELSE << "event", e, "[" >> \o Joined(AttPart(e), Len(Types)) \o << "]}" >>
Written(n) == <<"{">> \o Joined([k \in 1 .. n + 1 |-> EventPart(k - 1)], n + 1) \o <<"}">>

(* How long it is, at most, with each name, value, comma and bracket, and the zero
   at its end. *)
ValueFull(e, i) == IF Types[i] \in Fixed THEN NumberText ELSE Min({trace[e][i], 255}) + 2
AttFull(e)      == [i \in Attributes |-> IF AttPart(e)[i] = <<>> THEN 0 ELSE NameText + ValueFull(e, i) + 2]
EventFull(e)    == IF trace[e] = NoMessage THEN 0 ELSE HeadText + Total(AttFull(e), Len(Types)) + 3
Full(n)         == 1 + Total([k \in 1 .. n + 1 |-> EventFull(k - 1)], n + 1) + 2

(* An alert that is not longer, with everything in it counted, than the buffer is
   written within it and shows every attribute of its events, once, in brackets that
   match, whichever events have messages.  A longer one may pass the end of the
   buffer; it shows the same as long as it does not, no name or number is cut, and
   it has not been closed before its end. *)
AlertShows ==
  LET n == Cardinality(Events)
      t == Text(n)
  IN  /\ Full(n) <= MaxText + 1 => ~t.over /\ ~t.done /\ t.whole
      /\ ~t.over /\ ~t.done /\ t.whole => t.out = Written(n)
=============================================================================
