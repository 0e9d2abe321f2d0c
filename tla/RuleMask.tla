------------------------------- MODULE RuleMask -------------------------------
(***************************************************************************)
(* The text of masks: numbers and ranges for rules to exclude or remove    *)
(* and for cores, and for each thread the rules it verifies                *)
(* (expand_number_range, get_special_rules_for_thread and                  *)
(* get_rules_id_list_in_mask, mmt_utils.h).                                *)
(*                                                                         *)
(* The text is read one entry at a time: a number, with `to` the end of a  *)
(* range, or -1; `sep` is what follows, "" at the end of the text.  An     *)
(* entry that begins with something else is no number (first = -1).        *)
(***************************************************************************)
EXTENDS Integers, Sequences, FiniteSets, SequencesExt

CONSTANTS
  RangeTexts,    (* texts of numbers and ranges                             *)
  MaskTexts      (* texts of masks: sequences of [thread, text]             *)

MaskEntries == [first : Int, to : Int, sep : STRING]

ASSUME MaskAssumption ==
  /\ RangeTexts \subseteq Seq(MaskEntries)
  /\ MaskTexts \subseteq Seq([thread : Nat, text : Seq(MaskEntries)]) \ {<<>>}

VARIABLES
  mask,          (* the mask that is read                                   *)
  part,          (* the place in it of the text that is expanded            *)
  rest,          (* the entries of this text that are left                  *)
  array,         (* the numbers so far                                      *)
  ids,           (* the rules of the mask so far, get_rules_id_list_in_mask *)
  special,       (* the rules of each thread, get_special_rules_for_thread  *)
  reading        (* expand, done, refused, or halted by an assertion        *)

maskVars == <<mask, part, rest, array, ids, special, reading>>

(* A number is added if it is not there. *)
AddNumber(s, n) == IF n \in ToSet(s) THEN s ELSE Append(s, n)
AddNumbers(s, from, to) == FoldLeft(AddNumber, s, [i \in 1 .. to - from + 1 |-> from + i - 1])

(* Slip: the end of a range is left out. *)
AddRange_Open(s, e) == AddNumbers(AddNumber(s, e.first), Last(AddNumber(s, e.first)) + 1, e.to - 1)

(* The second number of a range is the one after the last of the array, which is
   the first number only if that was not there before. *)
AddRange(s, e) == AddNumbers(AddNumber(s, e.first), Last(AddNumber(s, e.first)) + 1, e.to)

(* What is refused: no number, a range that does not go up, a separator that is
   none, or one with nothing behind it. *)
Refused(s, e, left) ==
  \/ e.first = -1
  \/ e.to # -1 /\ Last(AddNumber(s, e.first)) + 1 > e.to
  \/ e.sep \notin {"", ","}
  \/ e.sep = "," /\ left = <<>>

Expanded(s, e) == IF e.to = -1 THEN AddNumber(s, e.first) ELSE AddRange(s, e)

-----------------------------------------------------------------------------
MaskInit ==
  /\ mask \in MaskTexts \cup {<<[thread |-> 0, text |-> t]>> : t \in RangeTexts}
  /\ part = 1 /\ rest = mask[1].text
  /\ array = <<>> /\ ids = <<>> /\ special = <<>> /\ reading = "expand"

(* One turn of the loop of expand_number_range. *)
Entry ==
  /\ reading = "expand" /\ rest # <<>> /\ ~Refused(array, Head(rest), Tail(rest))
  /\ array' = Expanded(array, Head(rest))
  /\ rest' = Tail(rest)
  /\ UNCHANGED <<mask, part, ids, special, reading>>

(* What is not correct gives no numbers. *)
Refuse ==
  /\ reading = "expand" /\ rest # <<>> /\ Refused(array, Head(rest), Tail(rest))
  /\ array' = <<>> /\ rest' = <<>>
  /\ UNCHANGED <<mask, part, ids, special, reading>>

(* The rules of one thread: each is listed once for all threads; a thread that is
   named twice fails an assertion, if it was given rules the first time. *)
Thread ==
  /\ reading = "expand" /\ rest = <<>>
  /\ ids' = FoldLeft(AddNumber, ids, array)
  /\ special' = Append(special, [thread |-> mask[part].thread, ids |-> array])
  /\ reading' = IF \E i \in DOMAIN special : /\ special[i].thread = mask[part].thread
                                             /\ special[i].ids # <<>>
                THEN "halted" ELSE IF part = Len(mask) THEN "done" ELSE "expand"
  /\ part' = part + 1 /\ array' = <<>>
  /\ rest' = IF part = Len(mask) THEN <<>> ELSE mask[part + 1].text
  /\ UNCHANGED mask

MaskNext == Entry \/ Refuse \/ Thread

MaskSpec == MaskInit /\ [][MaskNext]_maskVars

-----------------------------------------------------------------------------
(* The numbers an entry, or a text, stands for. *)
Meant(e) == IF e.to = -1 THEN {e.first} ELSE e.first .. e.to
MeantBy(text) == UNION {Meant(text[i]) : i \in DOMAIN text}

(* A text as the comment describes it: ranges that go up, separators between
   entries and none at the end; and no range begins with a number that stands
   before it, for which see the README. *)
WellFormed(text) ==
  \A i \in DOMAIN text :
    /\ text[i].first >= 0 /\ (text[i].to = -1 \/ text[i].to > text[i].first)
    /\ text[i].sep = IF i = Len(text) THEN "" ELSE ","
    /\ text[i].to # -1 => \A j \in 1 .. i - 1 : text[i].first \notin Meant(text[j])

(* A text gives the numbers it stands for, each once, in whatever order its
   ranges overlap ("rangelist := (range | number) [',' rangelist]",
   mmt_utils.h:170). *)
MaskMeans ==
  \A i \in DOMAIN special :
    /\ IsInjective(special[i].ids)
    /\ WellFormed(mask[i].text) => ToSet(special[i].ids) = MeantBy(mask[i].text)

(* Whether a rule is added is decided from one list, which thread gets it from
   the other: they name the same rules, also when texts are refused. *)
ListsAgree ==
  /\ IsInjective(ids)
  /\ ToSet(ids) = UNION {ToSet(special[i].ids) : i \in DOMAIN special}

(* A mask gives each thread the rules its text stands for, and the list of all of
   them agrees. *)
MaskRead == MaskMeans /\ ListsAgree
=============================================================================
