------------------------------ MODULE RuleUpdate ------------------------------
(***************************************************************************)
(* The rules that are verified, and how they change while messages are     *)
(* (src/src/lib/mmt_security.c, mmt_single_security.c and                  *)
(* mmt_smp_security.c, built with MODULE_ADD_OR_RM_RULES_RUNTIME).  The    *)
(* rules, and the attributes they use, are global under one lock; each     *)
(* thread has its own handler, whose arrays change under a lock the worker *)
(* holds while it verifies a message.  A step is what happens under one    *)
(* lock, or between two.  The standalone program (main_sec_standalone.c)   *)
(* has the DPI extract the attributes, and lets its user give commands.    *)
(***************************************************************************)
EXTENDS Plugins

CONSTANTS
  Threads,     (* 1 .. n                                                    *)
  Updaters,    (* callers of mmt_sec_add_rules and mmt_sec_remove_rules     *)
  RuleAtts,    (* RuleAtts[id]: the protocol attributes of a rule, numbers  *)
  MaxRules,    (* MAX_RULES_COUNT of mmt_security.c                         *)
  MaxAtts,     (* MAX_PROTO_ATTS_COUNT                                      *)
  Companion,   (* attributes whose data is extracted with another attribute:
                  tcp.p_payload with tcp.payload_len, ip.opts with
                  ip.header_len                                             *)
  Excluded,    (* sequences of rules to exclude at the start                *)
  Masks,       (* rule masks: Masks[m][t], the ids given for thread t       *)
  Removals,    (* sequences of rules to remove                              *)
  MaxUpdates,  (* bound: how often rules are added or removed               *)
  MaxAlerts    (* bound on the verdicts of one rule                         *)

ASSUME UpdateAssumption ==
  /\ IsFiniteSet(Threads) /\ Threads # {} /\ Threads = 1 .. Cardinality(Threads)
  /\ 0 \notin Updaters
  /\ DOMAIN RuleAtts \subseteq Nat
  /\ \A id \in DOMAIN RuleAtts : RuleAtts[id] \subseteq Nat /\ IsFiniteSet(RuleAtts[id])
  /\ \A f \in Files : ToSet(FileRules[f]) \subseteq DOMAIN RuleAtts
  /\ \A out \in Excluded \cup Removals : out \in Seq(Nat)
  /\ \A m \in Masks : m \in [Threads -> Seq(Nat)]
  /\ MaxRules \in Nat /\ MaxAtts \in Nat /\ MaxUpdates \in Nat /\ MaxAlerts \in Nat

VARIABLES
  rules,    (* rules of mmt_security.c: ids of the rules to verify          *)
  atts,     (* proto_atts: the index of an attribute is its place, from 1   *)
  told,     (* told[id]: the indices the functions of a rule were told      *)
  engines,  (* engines[t]: rule, hash, alerts and attributes, in an array   *)
  hash,     (* hash[t]: what the handler of thread t says it needs          *)
  msg,      (* msg[t]: the message in the ring of thread t                  *)
  known,    (* proto_atts_count of the program: attributes it looks for     *)
  extracted, (* the attributes registered to the DPI                        *)
  lock,     (* holder of the global lock, or 0                              *)
  job,      (* job[u]: what updater u is doing                              *)
  updates,  (* bound: updates begun                                         *)
  end       (* how far the end of the program is, or "no"                   *)

handlers == <<engines, hash>>
global == <<rules, atts, told>>
dpi == <<known, extracted>>
vars == <<pluginVars, global, handlers, msg, dpi, lock, job, updates, end>>

NoMsg == [has |-> {}, count |-> 0]
Idle  == [pc |-> "idle", ids |-> <<>>, mask |-> <<>>, new |-> <<>>, turn |-> 1]

(* What a mask names, each id once. *)
Ids(mask) ==
  FoldLeft(LAMBDA r, id : IF id \in ToSet(r) THEN r ELSE Append(r, id), <<>>, FlattenSeq(mask))

(* rules[k] = rules[-- rules_count] for the first k that has the id. *)
RemoveRule(s, id) ==
  IF id \notin ToSet(s) THEN s
  ELSE Front([s EXCEPT ![CHOOSE k \in DOMAIN s : s[k] = id /\ \A j \in 1 .. k - 1 : s[j] # id]
                = Last(s)])

(* _mmt_sec_hash_proto_attribute_without_lock *)
Index(as, a) == CHOOSE i \in DOMAIN as : as[i] = a

(* _engine_update_hash: the bits of the attributes of a rule. *)
HashOf(as, id) == {Index(as, a) : a \in RuleAtts[id]}

NewEngine(as, id) == [rule |-> id, hash |-> HashOf(as, id), alerts |-> 0]
HandlerHash(es) == UNION {es[i].hash : i \in DOMAIN es}

-----------------------------------------------------------------------------
Swapped(s, i, j) == [s EXCEPT ![i] = s[j], ![j] = s[i]]

(* The rules a mask gives to a thread are moved to the front, in its order; an
   id that is not there is passed over, and another rule takes its place. *)
BringOne(ids, s, j) ==
  LET at == {k \in j .. Len(s) : s[k] = ids[j]}
  IN  IF at = {} THEN s ELSE Swapped(s, j, CHOOSE k \in at : \A l \in at : k <= l)
Bring(s, ids) == FoldLeft(LAMBDA r, j : BringOne(ids, r, j), s, [j \in DOMAIN ids |-> j])

Take(s, n) == SubSeq(s, 1, n)
Drop(s, n) == SubSeq(s, n + 1, Len(s))

(* Thread t gets the first n of the rules that are left. *)
Give(s, t, n) ==
  [s EXCEPT !.of[t] = Take(s.left, n), !.left = Drop(s.left, n), !.threads = @ - 1]

(* mmt_smp_sec_register: first the threads the mask names, each as many rules
   as it has ids there; then the rules that are left in equal parts, what
   remains of the division to the last. *)
GiveNamed(mask, s, t) ==
  IF mask[t] = <<>> THEN s
  ELSE Give([s EXCEPT !.left = Bring(s.left, mask[t])], t, Len(mask[t]))
GiveEqual(mask, s, t) ==
  IF mask[t] # <<>> THEN s ELSE Give(s, t, Len(s.left) \div s.threads)

Undistributed(all) ==
  [of |-> [t \in Threads |-> <<>>], left |-> all, threads |-> Cardinality(Threads)]

Distribute(all, mask) ==
  LET order == [t \in Threads |-> t]
      named == FoldLeft(LAMBDA s, t : GiveNamed(mask, s, t), Undistributed(all), order)
  IN  FoldLeft(LAMBDA s, t : GiveEqual(mask, s, t), named, order).of

(* _filter_rules: from the last rule named to the first. *)
FilterRules(out, all) == FoldLeft(RemoveRule, all, Reverse(out))

(* _get_unique_proto_attts: by number, the order in which the map is iterated. *)
UniqueAtts(rs) == Ascending(UNION {RuleAtts[id] : id \in ToSet(rs)})

(* _update_rules_hash, and the same for a rule that is added. *)
Tell(old, as, rs) ==
  [id \in DOMAIN old |->
     IF id \in ToSet(rs) THEN [a \in RuleAtts[id] |-> Index(as, a)] ELSE old[id]]

(* Slip: the attribute alone is registered. *)
Registered_Alone(as) == ToSet(as)

(* _update_and_register_protocols_attributes_to_extract *)
Registered(as) == ToSet(as) \cup {Companion[a] : a \in ToSet(as) \cap DOMAIN Companion}

(* mmt_sec_init.  There are never more threads than rules. *)
InitRules ==
  LET s == LoadRules([plugins |-> <<>>, loaded |-> <<>>], folder) IN
  /\ folder \in SUBSET Files /\ plugins = s.plugins /\ loaded = s.loaded
  /\ \E out \in Excluded : rules = FilterRules(out, loaded)
  /\ Len(rules) \in Cardinality(Threads) .. MaxRules
  /\ atts = UniqueAtts(rules) /\ Len(atts) <= MaxAtts
  /\ told = Tell([id \in DOMAIN RuleAtts |-> <<>>], atts, rules)

(* mmt_sec_register.  The mask at the start names rules that are there, and
   leaves a thread for those it does not name. *)
InitThreads ==
  /\ \E mask \in Masks :
       /\ \E t \in Threads : mask[t] = <<>>
       /\ \A t \in Threads : IsInjective(mask[t]) /\ ToSet(mask[t]) \subseteq ToSet(rules)
       /\ \A t, v \in Threads : t # v => ToSet(mask[t]) \cap ToSet(mask[v]) = {}
       /\ engines = [t \in Threads |->
            LET mine == Distribute(rules, mask)[t] IN [i \in DOMAIN mine |-> NewEngine(atts, mine[i])]]
  /\ hash = [t \in Threads |-> HandlerHash(engines[t])]
  /\ lock = 0 /\ end = "no"

(* main: the attributes of the rules are registered to the DPI before the first
   packet is read. *)
Init ==
  /\ InitRules /\ InitThreads
  /\ known = Len(atts) /\ extracted = Registered(atts)
  /\ msg = [t \in Threads |-> NoMsg]
  /\ job = [u \in Updaters |-> Idle] /\ updates = 0

-----------------------------------------------------------------------------
Running == end = "no"

Begin(u, j) ==
  /\ Running /\ job[u].pc = "idle" /\ updates < MaxUpdates
  /\ updates' = updates + 1
  /\ job' = [job EXCEPT ![u] = j]
  /\ UNCHANGED <<global, handlers, msg, dpi, lock, end>>

RoomFor(new) == IF Len(rules) + Len(new) > MaxRules THEN "exit" ELSE "add"

(* The pc "exit" is that of an updater whose assertion failed: it is in exit, and
   does not come back.  The other threads go on until exit calls the destructor.

   mmt_sec_add_rules before it takes the lock: the folder is read again, and what
   is new is decided, if there is room for it. *)
AskAdd(u, mask) ==
  \E s \in {LoadRules([plugins |-> plugins, loaded |-> loaded], folder)} :
    /\ plugins' = s.plugins /\ loaded' = s.loaded /\ UNCHANGED folder
    /\ LET new == Only(s.loaded, ToSet(Ids(mask)) \ ToSet(rules))
       IN  Begin(u, IF new = <<>> THEN Idle
                    ELSE [Idle EXCEPT !.pc = RoomFor(new), !.mask = mask, !.new = new])

(* A file that is no plugin: the assertions of _load_plugin_by_path fail when the
   files before it have been loaded. *)
LoadFails(u) ==
  \E f \in folder : \E s \in {LoadRules([plugins |-> plugins, loaded |-> loaded], {g \in folder : g < f})} :
    /\ \A i \in DOMAIN plugins : plugins[i].path # f
    /\ plugins' = s.plugins /\ loaded' = s.loaded /\ UNCHANGED folder
    /\ Begin(u, [Idle EXCEPT !.pc = "exit"])

(* _remove_rules of the program.  It compares the array of attributes before and
   after, which is the same array, and so unregisters none. *)
AskRemove(u, ids) ==
  /\ Begin(u, [Idle EXCEPT !.pc = "rm", !.ids = ids])
  /\ UNCHANGED pluginVars

Locked(u, pc) == Running /\ lock = 0 /\ job[u].pc = pc
Unlock(u, pc) == lock' = 0 /\ job' = [job EXCEPT ![u] = [Idle EXCEPT !.pc = pc]]
Goto(u, pc) == lock' = u /\ job' = [job EXCEPT ![u].pc = pc]

(* The new rules and the attributes only they use are appended; an attribute
   too many is stored before the assertion fails, with the lock held.  What the
   loop would have stored after it is read by nobody. *)
AddGlobal(u) ==
  /\ Locked(u, "add")
  /\ rules' = rules \o job[u].new
  /\ atts' = FoldLeft(LAMBDA as, id : as \o Ascending(RuleAtts[id] \ ToSet(as)),
                      atts, job[u].new)
  /\ told' = Tell(told, atts', job[u].new)
  /\ Goto(u, IF Len(atts') > MaxAtts THEN "exit" ELSE "toThreads")
  /\ UNCHANGED <<pluginVars, handlers, msg, dpi, updates, end>>

(* Slip: a rule the handler has is added again. *)
ToAdd_Again(t, ids) == Only(rules, ToSet(ids))

(* What mmt_single_sec_add_rules adds: rules of the global array, in its order,
   that the mask names for this thread and its handler does not have. *)
ToAdd(t, ids) == Only(rules, ToSet(ids) \ {engines[t][i].rule : i \in DOMAIN engines[t]})

(* Slip: the hash of the handler is not widened. *)
AddRules_Hash(t, new) ==
  /\ engines' = [engines EXCEPT ![t] = @ \o [i \in DOMAIN new |-> NewEngine(atts, new[i])]]
  /\ UNCHANGED hash

(* mmt_single_sec_add_rules, under the lock of the handler. *)
AddRules(t, new) ==
  /\ engines' = [engines EXCEPT ![t] = @ \o [i \in DOMAIN new |-> NewEngine(atts, new[i])]]
  /\ hash' = [hash EXCEPT ![t] = HandlerHash(engines'[t])]

(* mmt_smp_sec_add_rules: the handler of one thread after the other. *)
AddToThread(u) ==
  /\ Running /\ lock = u /\ job[u].pc = "toThreads"
  /\ LET t == job[u].turn
     IN  /\ AddRules(t, ToAdd(t, job[u].mask[t]))
         /\ IF t = Cardinality(Threads) THEN Unlock(u, "register")
            ELSE job' = [job EXCEPT ![u].turn = t + 1] /\ UNCHANGED lock
  /\ UNCHANGED <<pluginVars, global, msg, dpi, updates, end>>

(* _add_rules: the program takes the attributes again, and registers what the
   DPI does not extract yet. *)
Register(u) ==
  /\ Running /\ lock = 0 /\ job[u].pc = "register"
  /\ known' = Len(atts)
  /\ extracted' = extracted \cup Registered(atts)
  /\ job' = [job EXCEPT ![u] = Idle]
  /\ UNCHANGED <<pluginVars, global, handlers, msg, lock, updates, end>>

(* mmt_sec_remove_rules: attributes stay, so that indices do not change. *)
RemoveGlobal(u) ==
  /\ Locked(u, "rm")
  /\ rules' = FoldLeft(RemoveRule, rules, job[u].ids)
  /\ IF rules' = rules THEN Unlock(u, "idle") ELSE Goto(u, "fromThreads")
  /\ UNCHANGED <<pluginVars, atts, told, handlers, msg, dpi, updates, end>>

(* Slip: the last engine takes the place of the one removed, but not its count
   of verdicts. *)
Keep_Count(es) ==
  FoldLeft(LAMBDA r, id : LET k == CHOOSE i \in DOMAIN r : r[i].rule = id
                          IN  Front([r EXCEPT ![k] = [Last(r) EXCEPT !.alerts = r[k].alerts]]),
           es, SelectSeq([i \in DOMAIN es |-> es[i].rule], LAMBDA id : id \notin ToSet(rules)))

(* Slip: the engine that was swapped in is not looked at. *)
Keep_Skip(es) ==
  FoldLeft(LAMBDA s, e : IF s.i > Len(s.es) \/ s.es[s.i].rule \in ToSet(rules)
                         THEN [s EXCEPT !.i = @ + 1]
                         ELSE [i |-> s.i + 1, es |-> Front(Swapped(s.es, s.i, Len(s.es)))],
           [i |-> 1, es |-> es], es).es

(* mmt_single_sec_remove_rules: each engine whose rule is gone is swapped with
   the last one and freed, and its place is looked at again. *)
Keep(es) ==
  FoldLeft(LAMBDA s, e : IF s.i > Len(s.es) \/ s.es[s.i].rule \in ToSet(rules)
                         THEN [s EXCEPT !.i = @ + 1]
                         ELSE [s EXCEPT !.es = Front(Swapped(@, s.i, Len(@)))],
           [i |-> 1, es |-> es], es).es

RemoveFromThread(u) ==
  /\ Running /\ lock = u /\ job[u].pc = "fromThreads"
  /\ LET t == job[u].turn
     IN  /\ engines' = [engines EXCEPT ![t] = Keep(@)]
         /\ hash' = [hash EXCEPT ![t] = HandlerHash(engines'[t])]
         /\ IF t = Cardinality(Threads) THEN Unlock(u, "idle")
            ELSE job' = [job EXCEPT ![u].turn = t + 1] /\ UNCHANGED lock
  /\ UNCHANGED <<pluginVars, global, msg, dpi, updates, end>>

(* The attributes the program finds in a packet: those it knows of, extracted
   with what their data needs. *)
Found ==
  {i \in 1 .. known : /\ atts[i] \in extracted
                      /\ atts[i] \in DOMAIN Companion => Companion[atts[i]] \in extracted}

(* packet_handler: a message with data of some attributes is made, and pushed to
   the threads that may need it. *)
Send(has) ==
  /\ Running /\ lock = 0
  /\ \A t \in Threads : msg[t] = NoMsg
  /\ msg' = [t \in Threads |-> IF has \cap hash[t] = {} THEN NoMsg
                               ELSE [has |-> has, count |-> Len(atts)]]
  /\ UNCHANGED <<pluginVars, global, handlers, dpi, lock, job, updates, end>>

(* The engines a message is verified by. *)
Concerned(t) == {i \in DOMAIN engines[t] : engines[t][i].hash \cap msg[t].has # {}}

Counted(es, found) ==
  [i \in DOMAIN es |-> IF i \in found THEN [es[i] EXCEPT !.alerts = @ + 1] ELSE es[i]]

(* mmt_single_sec_process: the rules concerned are tried, and some of them give
   a verdict. *)
Work(t) ==
  /\ end \in {"no", "stopping"} /\ msg[t] # NoMsg
  /\ \E found \in SUBSET Concerned(t) :
       /\ \A i \in found : engines[t][i].alerts < MaxAlerts
       /\ engines' = [engines EXCEPT ![t] = Counted(@, found)]
  /\ msg' = [msg EXCEPT ![t] = NoMsg]
  /\ UNCHANGED <<pluginVars, global, hash, dpi, lock, job, updates, end>>

InstallFile(f) ==
  /\ Running /\ Install(f)
  /\ UNCHANGED <<global, handlers, msg, dpi, lock, job, updates, end>>

(* The trace has ended, or the program is interrupted: by a signal at any moment,
   for the handler does not return to the update it interrupted. *)
Interrupt ==
  /\ Running
  /\ end' = "stopping"
  /\ UNCHANGED <<pluginVars, global, handlers, msg, dpi, lock, job, updates>>

(* mmt_single_sec_unregister: the engines of a handler are freed, with its counts
   of verdicts. *)
FreeHandlers ==
  /\ engines' = [t \in Threads |-> <<>>]
  /\ hash' = [t \in Threads |-> {}]

(* mmt_sec_unregister, when every thread has verified what it was given. *)
Unregister ==
  /\ end = "stopping"
  /\ \A t \in Threads : msg[t] = NoMsg
  /\ FreeHandlers
  /\ end' = "released"
  /\ UNCHANGED <<pluginVars, global, msg, dpi, lock, job, updates>>

(* mmt_sec_close forgets rules and attributes; then exit calls the destructor
   unload_mmt_sec_all_rules. *)
Close ==
  /\ end = "released"
  /\ rules' = <<>> /\ atts' = <<>> /\ CloseAll
  /\ end' = "closed"
  /\ UNCHANGED <<told, handlers, msg, dpi, lock, job, updates>>

(* A second signal: exit at once, with the same destructor. *)
ExitAtOnce ==
  /\ end \in {"stopping", "released"}
  /\ CloseAll
  /\ end' = "forced"
  /\ UNCHANGED <<global, handlers, msg, dpi, lock, job, updates>>

(* The exit of an updater whose assertion failed calls the destructor while the
   other threads run: a thread that still verifies runs code that is not mapped
   any more.  That is the end of the program, if not earlier. *)
ExitFailed(u) ==
  /\ job[u].pc = "exit" /\ end \in {"no", "stopping", "released"}
  /\ CloseAll
  /\ end' = "failed"
  /\ UNCHANGED <<global, handlers, msg, dpi, lock, job, updates>>

(* The commands "add" and "rm", and the steps of mmt_sec_add_rules and
   mmt_sec_remove_rules. *)
Update(u) ==
  \/ \E mask \in Masks : AskAdd(u, mask)
  \/ \E ids \in Removals : AskRemove(u, ids)
  \/ LoadFails(u) \/ ExitFailed(u)
  \/ AddGlobal(u) \/ AddToThread(u) \/ Register(u) \/ RemoveGlobal(u) \/ RemoveFromThread(u)

Next ==
  \/ \E u \in Updaters : Update(u)
  \/ Running /\ \E i \in Found : Send({i})
  \/ \E t \in Threads : Work(t)
  \/ \E f \in Files : InstallFile(f)
  \/ Interrupt \/ Unregister \/ Close \/ ExitAtOnce

Spec == Init /\ [][Next]_vars

-----------------------------------------------------------------------------
RuleIds == DOMAIN RuleAtts
RulesOf(t) == {engines[t][i].rule : i \in DOMAIN engines[t]}

TypeOK ==
  /\ folder \subseteq Files /\ rules \in Seq(RuleIds) /\ loaded \in Seq(RuleIds)
  /\ \A t \in Threads : \A i \in DOMAIN engines[t] :
       /\ engines[t][i].rule \in RuleIds /\ engines[t][i].hash \subseteq DOMAIN atts
       /\ engines[t][i].alerts \in 0 .. MaxAlerts
  /\ \A t \in Threads : hash[t] \subseteq DOMAIN atts /\ msg[t].count <= Len(atts)
  /\ lock \in Updaters \cup {0} /\ updates \in 0 .. MaxUpdates
  /\ end \in {"no", "stopping", "released", "closed", "forced", "failed"}
  /\ \A u \in Updaters :
       job[u].pc \in {"idle", "add", "rm", "toThreads", "fromThreads", "register", "exit"}
       /\ job[u].turn \in Threads

(* Between two changes, no thread verifies a rule that was removed: whichever
   thread had it, and whatever messages were verified between one handler and
   the next. *)
RemovedGone == lock = 0 => \A t \in Threads : RulesOf(t) \subseteq ToSet(rules)

(* What a handler says it needs is what its rules need, by the indices the
   messages are made with and the rules' functions read with: the dispatcher drops no message for a rule that is
   verified, after any number of additions and removals ("to keep the order/index
   of the rested proto_att", mmt_security.c:720). *)
HashCurrent ==
  \A t \in Threads :
    /\ hash[t] = HandlerHash(engines[t])
    /\ \A i \in DOMAIN engines[t] :
         LET id == engines[t][i].rule
         IN  /\ engines[t][i].hash = {k \in DOMAIN atts : atts[k] \in RuleAtts[id]}
             /\ told[id] = [a \in RuleAtts[id] |-> CHOOSE k \in DOMAIN atts : atts[k] = a]

(* A handler has one engine for each of its rules ("it is not in
   handler->rules_array", mmt_single_security.c:367): verdicts are given once. *)
EnginesDistinct ==
  \A t \in Threads : IsInjective([i \in DOMAIN engines[t] |-> engines[t][i].rule])

(* At the start every rule is verified by one thread, if the mask leaves a thread
   for those it does not name ("The other rules will be attributed equally to the
   rest of threads", mmt_security.h:63). *)
AllGiven ==
  updates = 0 /\ end = "no" => /\ UNION {RulesOf(t) : t \in Threads} = ToSet(rules)
                                /\ \A t, v \in Threads : t # v => RulesOf(t) \cap RulesOf(v) = {}

(* While nobody changes the rules, the packets' attributes that a verified rule
   reads are extracted with all that their data needs, and the program looks for
   each of them ("register the new proto_atts if need",
   main_sec_standalone.c:245). *)
NeedsExtracted ==
  end # "closed" /\ (\A u \in Updaters : job[u].pc = "idle") =>
    /\ known = Len(atts)
    /\ \A t \in Threads : hash[t] \subseteq Found

(* The functions of a rule are code of its plugin: as long as a thread has an
   engine for it the plugin is open, through all changes, failed ones included,
   and to the end of the program.  Only two things close it under a thread: the
   user who does not wait ("press Ctrl+c again to exit immediately",
   main_sec_standalone.c:510), and the exit of an updater whose own assertion
   failed. *)
PluginsOpen ==
  end \notin {"forced", "failed"} =>
    \A t \in Threads : RulesOf(t) \subseteq UNION {ToSet(plugins[i].rules) : i \in DOMAIN plugins}

(* The verdicts counted for a rule stay with it while others come and go. *)
AlertsOf(t, id) == LET i == CHOOSE i \in DOMAIN engines[t] : engines[t][i].rule = id
                   IN  engines[t][i].alerts
AlertsKept ==
  [][\A t \in Threads : \A id \in RulesOf(t) :
       id \in RulesOf(t)' => AlertsOf(t, id)' >= AlertsOf(t, id)]_vars

(* Rules stay apart through every change: ids name one plugin each, a handler has
   one engine for a rule, and at the start each rule is given to one thread. *)
RulesSound == TypeOK /\ PluginsDisjoint /\ EnginesDistinct /\ AllGiven

(* What a thread verifies has something behind it: a rule that was not removed,
   whose code is loaded. *)
EnginesBacked == RemovedGone /\ PluginsOpen
=============================================================================
