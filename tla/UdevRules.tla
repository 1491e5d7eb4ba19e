------------------------------- MODULE UdevRules -------------------------------
(***************************************************************************)
(* The rules of udev: how a line becomes a rule (udev_rules_parse.c), and  *)
(* how one event of a device runs through the rules and collects its name, *)
(* symlinks, permissions, programs and environment (udev_rules.c).         *)
(*                                                                         *)
(* A line is a sequence of tokens [key, op, attr, vals], with the operator *)
(* as it is written and the value as a set: the alternatives of a match,   *)
(* the symlinks of a SYMLINK, one element elsewhere.  Patterns are names or*)
(* "*"; "%k" and "%c" stand for the kernel's name of the device and for the*)
(* last result of a program.  What ATTR assignments write to sysfs is left *)
(* out.                                                                    *)
(***************************************************************************)
EXTENDS Naturals, Sequences, SequencesExt

CONSTANTS RuleFiles,    \* the rules files: sequences of lines
          Chain,        \* the device and its parents: [KERNEL, SUBSYSTEM, DRIVER, DEVPATH, attrs]
          EnvKeys,      \* names of environment variables
          Uevent,       \* the value each has in the kernel's event, "" for none
          Starts(_, _), \* Starts(k, m): the name k begins with the name m
          Outputs,      \* what programs may print
          Imports,      \* what a program or a file may define: sequences of [key, val]
          Stored        \* the database entry: [name, links, env_list]

Token == {t \in [key : STRING, op : STRING, attr : STRING, vals : (SUBSET STRING) \ {{}}] :
            t.key = "ENV" => t.attr \in EnvKeys}
ASSUME RuleAssumption == RuleFiles \subseteq Seq(Seq(Token))
ASSUME DeviceAssumption ==
         /\ Chain # <<>> /\ Chain[1].KERNEL \in STRING
         /\ Stored.name \in STRING /\ Stored.links \in SUBSET STRING
         /\ Outputs \subseteq STRING

\* No variable but k has a name that k begins with or that begins with k.
Alone(k) == \A m \in EnvKeys \ {k} : ~Starts(k, m) /\ ~Starts(m, k)

\* A name begins with itself; the database has what env_list held.
Var == [key : EnvKeys, val : STRING]
ASSUME EnvAssumption ==
         /\ \A k \in EnvKeys : Starts(k, k)
         /\ \A k \in EnvKeys : Uevent[k] \in STRING \cup {""}
         /\ Imports \subseteq Seq(Var) /\ Stored.env_list \in Seq(Var)
         /\ \A i, j \in DOMAIN Stored.env_list :
              Stored.env_list[i].key = Stored.env_list[j].key /\ Alone(Stored.env_list[i].key)
              => i = j

VARIABLES rulebuf,  \* the rules
          action,   \* of the event
          call,     \* udev_rules_get_name or udev_rules_get_run
          done,     \* it has returned
          current,  \* number of the next rule
          udev,     \* what the event has collected
          applied   \* history: the rules applied, with the result each one saw

rulevars == <<rulebuf, action, call, done, current, udev, applied>>
-----------------------------------------------------------------------------
(* add_to_rules.                                                           *)

PAIRS_MAX == 5
Unset     == [op |-> "unset", vals |-> {}]

Pairs     == {"ATTR", "ATTRS", "ENV"}
OwnKeys   == {"KERNEL", "SUBSYSTEM", "DEVPATH", "DRIVER"}
ParentKeys == {"KERNELS", "SUBSYSTEMS", "DRIVERS"}
MatchOnly == OwnKeys \cup ParentKeys \cup {"ACTION", "ATTRS", "RESULT"}
Single    == (MatchOnly \ Pairs) \cup
             {"PROGRAM", "IMPORT", "TEST", "RUN", "WAIT_FOR_SYSFS", "LABEL",
              "GOTO", "NAME", "SYMLINK", "OWNER", "GROUP", "MODE"}

\* Older names of the keys.
Canon(k) == CASE k = "ID" -> "KERNELS" [] k = "BUS" -> "SUBSYSTEMS"
              [] k = "SYSFS" -> "ATTRS" [] OTHER -> k

Blank == [keys |-> [k \in Single |-> Unset], pairs |-> [k \in Pairs |-> <<>>],
          options |-> {}, first |-> {}, import |-> "", valid |-> FALSE,
          bad |-> FALSE]

Matching(op) == op \in {"==", "!="}

\* One key of the line.  NAME alone does not make a valid rule; an unknown key
\* is passed over; first is what the rule's buffer begins with.
AddKey(r, t) ==
  LET k    == Canon(t.key)
      val  == [op |-> t.op, vals |-> t.vals]
      kept == [r EXCEPT !.first = IF @ = {} THEN t.vals ELSE @,
                        !.valid = @ \/ k # "NAME"]
  IN  IF r.bad \/ k \notin Single \cup Pairs \cup {"OPTIONS"} THEN r
      ELSE IF \/ k \in MatchOnly /\ ~Matching(t.op)
              \/ k \in Pairs /\ Len(r.pairs[k]) >= PAIRS_MAX
      THEN [r EXCEPT !.bad = TRUE]
      ELSE IF k \in Pairs
      THEN [kept EXCEPT !.pairs[k] =
              Append(@, [op |-> t.op, attr |-> t.attr, vals |-> t.vals])]
      ELSE IF k = "OPTIONS"
      THEN [r EXCEPT !.options = @ \cup t.vals, !.valid = TRUE]
      ELSE IF k = "MODE"
      THEN [r EXCEPT !.keys[k] = val, !.valid = TRUE]
      ELSE [kept EXCEPT !.keys[k] = val,
                        !.options = IF k = "NAME" THEN @ \cup {t.attr} ELSE @,
                        !.import = IF k = "IMPORT" THEN t.attr ELSE @]

ParseLine(line) ==
  LET parsed[n \in 0 .. Len(line)] ==
        IF n = 0 THEN Blank ELSE AddKey(parsed[n - 1], line[n])
  IN  parsed[Len(line)]

\* parse_file: a line that is not valid is skipped.
Kept(r) == r.valid /\ ~r.bad
ParseFile(lines) ==
  LET rules[n \in 0 .. Len(lines)] ==
        IF n = 0 THEN <<>>
        ELSE IF Kept(ParseLine(lines[n]))
        THEN Append(rules[n - 1], ParseLine(lines[n])) ELSE rules[n - 1]
  IN  rules[Len(lines)]
-----------------------------------------------------------------------------
(* The environment: the list of strings of udev_utils.c, as a sequence of  *)
(* [key, val, put], and what getenv says.  put: the environment points     *)
(* into this entry.                                                        *)

Entry(k, v, put) == [key |-> k, val |-> v, put |-> put]
Setenv(u, k, v)  == [u EXCEPT !.environ[k] = v]

\* Mutant: a key that is there already is not replaced.
KeyAdd_First(u, k, v, put) ==
  Setenv(IF \E i \in DOMAIN u.env_list : u.env_list[i].key = k THEN u
         ELSE [u EXCEPT !.env_list = Append(@, Entry(k, v, put))], k, v)

\* name_list_key_add, with putenv or setenv of the same key: the first entry
\* whose name begins with k is replaced.  What the environment knew through
\* that entry is gone with it.
KeyAdd(u, k, v, put) ==
  LET list == u.env_list
      hits == {i \in DOMAIN list : Starts(list[i].key, k)}
      i    == Min(hits)
      lost == list[i].put /\ list[i].key # k
  IN  IF hits = {}
      THEN Setenv([u EXCEPT !.env_list = Append(@, Entry(k, v, put))], k, v)
      ELSE Setenv([u EXCEPT !.env_list[i] = Entry(k, v, put),
                            !.environ[list[i].key] = IF lost THEN "" ELSE @], k, v)

\* name_list_key_remove, which takes the first entry of the key, and unsetenv.
KeyRemove(u, k) ==
  LET hits == {i \in DOMAIN u.env_list : u.env_list[i].key = k}
  IN  Setenv(IF hits = {} THEN u
             ELSE [u EXCEPT !.env_list = RemoveAt(@, Min(hits))], k, "")

\* import_keys_into_env
ImportKeys(u, keys) ==
  LET env[n \in 0 .. Len(keys)] ==
        IF n = 0 THEN u ELSE KeyAdd(env[n - 1], keys[n].key, keys[n].val, FALSE)
  IN  env[Len(keys)]

\* import_parent_into_env: the entries are added, not replaced.
ImportParent(u, keys) ==
  FoldLeft(LAMBDA w, kv :
             Setenv([w EXCEPT !.env_list =
                       IF \E i \in DOMAIN @ : @[i].key = kv.key /\ @[i].val = kv.val
                       THEN @ ELSE Append(@, Entry(kv.key, kv.val, FALSE))],
                    kv.key, kv.val),
           u, keys)
-----------------------------------------------------------------------------
(* match_rule.                                                             *)

\* match_key
KeyMatches(t, v) ==
  Matching(t.op) => ((v \in t.vals \/ "*" \in t.vals) <=> t.op = "==")

\* udev_rules_apply_format
Subst(v, result) == CASE v = "%k" -> Chain[1].KERNEL [] v = "%c" -> result
                      [] OTHER -> v
Value(t, result) == Subst(CHOOSE v \in t.vals : TRUE, result)

\* The attribute of a parent, or else the device's own one, if there is one.
ParentAttr(i, a) == IF a \in DOMAIN Chain[i].attrs THEN {Chain[i].attrs[a]}
                    ELSE IF a \in DOMAIN Chain[1].attrs THEN {Chain[1].attrs[a]}
                    ELSE {}
OfParent(k) == CASE k = "KERNELS" -> "KERNEL" [] k = "SUBSYSTEMS" -> "SUBSYSTEM"
                 [] k = "DRIVERS" -> "DRIVER"

MatchesParent(r, i) ==
  /\ \A k \in ParentKeys : KeyMatches(r.keys[k], Chain[i][OfParent(k)])
  /\ \A n \in DOMAIN r.pairs["ATTRS"] :
       LET p == r.pairs["ATTRS"][n]
       IN  \E v \in ParentAttr(i, p.attr) : KeyMatches(p, v)

\* What can be told without running anything; exists: the file of TEST is there;
\* found: that of WAIT_FOR_SYSFS is, in time.
MatchesDevice(r, u, exists, found) ==
  /\ KeyMatches(r.keys["ACTION"], action)
  /\ \A k \in OwnKeys : KeyMatches(r.keys[k], Chain[1][k])
  /\ KeyMatches(r.keys["NAME"], u.name)
  /\ \A n \in DOMAIN r.pairs["ENV"] :
       KeyMatches(r.pairs["ENV"][n], u.env.environ[r.pairs["ENV"][n].attr])
  /\ Matching(r.keys["TEST"].op) => (exists <=> r.keys["TEST"].op = "==")
  /\ r.keys["WAIT_FOR_SYSFS"].op \notin {"unset", "!="} => found
  /\ \A n \in DOMAIN r.pairs["ATTR"] :
       LET p == r.pairs["ATTR"][n]
       IN  Matching(p.op) => /\ p.attr \in DOMAIN Chain[1].attrs
                             /\ KeyMatches(p, Chain[1].attrs[p.attr])
  /\ \E i \in DOMAIN Chain : MatchesParent(r, i)

\* PROGRAM: each pair of what it leaves and whether the key is true.
Programmed(r, u) ==
  LET op == r.keys["PROGRAM"].op
  IN  IF op = "unset" THEN {<<u, TRUE>>}
      ELSE {<<[u EXCEPT !.result = ""], op = "!=">>}
             \cup {<<[u EXCEPT !.result = out], op # "!=">> : out \in Outputs}

\* IMPORT, the same; any operator but != asks for success.
Imported(r, u) ==
  LET op == r.keys["IMPORT"].op
  IN  IF op = "unset" THEN {<<u, TRUE>>}
      ELSE {<<u, op = "!=">>}
             \cup {<<[u EXCEPT !.env = IF r.import = "parent" THEN ImportParent(@, keys)
                                      ELSE ImportKeys(@, keys)], TRUE>>
                     : keys \in Imports}

\* The environment after the ENV assignments of a rule that matches.
Assign(e, p, v) == IF p.op # "=" THEN e
                   ELSE IF v = "" THEN KeyRemove(e, p.attr)
                   ELSE KeyAdd(e, p.attr, v, TRUE)
AssignEnv(r, u) ==
  LET pairs == r.pairs["ENV"]
      env[n \in 0 .. Len(pairs)] ==
        IF n = 0 THEN u.env ELSE Assign(env[n - 1], pairs[n], Value(pairs[n], u.result))
  IN  env[Len(pairs)]

\* What match_rule may leave of u, and whether the rule matches.  A rule that
\* fails late has run its program and imported its keys.
MatchRule(r, u) ==
  UNION {IF ~MatchesDevice(r, u, exists, found) THEN {<<u, FALSE>>}
         ELSE UNION {IF ~p[2] \/ ~KeyMatches(r.keys["RESULT"], p[1].result)
                     THEN {<<p[1], FALSE>>}
                     ELSE {IF i[2]
                           THEN <<[i[1] EXCEPT !.env = AssignEnv(r, i[1])], TRUE>>
                           ELSE <<i[1], FALSE>> : i \in Imported(r, p[1])}
                     : p \in Programmed(r, u)}
         : exists, found \in BOOLEAN}
-----------------------------------------------------------------------------
(* udev_rules_get_name and udev_rules_get_run.                             *)

Perms == {"OWNER", "GROUP", "MODE"}

\* The environment begins as that of the kernel's event.
Fresh == [name |-> "", name_set |-> FALSE, links |-> {}, links_final |-> FALSE,
          run |-> {}, run_final |-> FALSE, result |-> "",
          perm |-> [k \in Perms |-> ""], final |-> [k \in Perms |-> FALSE],
          ignore_device |-> FALSE, ignore_remove |-> FALSE, prio |-> "",
          env |-> [env_list |-> <<>>, environ |-> [k \in EnvKeys |-> Uevent[k]]]]

\* putenv of every entry of the list, in its order.
PutAll(u) ==
  LET list == u.env_list
      env[n \in 0 .. Len(list)] ==
        IF n = 0 THEN u ELSE Setenv(env[n - 1], list[n].key, list[n].val)
  IN  env[Len(list)]

\* A device that is removed gets back what the database has of it.
Restored == [Fresh EXCEPT
  !.name = Stored.name, !.links = Stored.links,
  !.env = PutAll([@ EXCEPT !.env_list =
            [i \in DOMAIN Stored.env_list |->
               Entry(Stored.env_list[i].key, Stored.env_list[i].val, TRUE)]])]

\* udev_device_event: the calls there are, with what the event has before each.
\* A device that has a node, or an interface that is added, gets a name; a node
\* that is removed and not in the database has the kernel's; any other event
\* only has programs run.
Begins(a, c) ==
  IF c = "get_name" THEN {u \in {Fresh} : a # "remove"}
  ELSE {Fresh} \cup {u \in {Restored, [Fresh EXCEPT !.name = Chain[1].KERNEL]} :
                       a = "remove"}

RulesInit ==
  /\ \E f \in RuleFiles : rulebuf = ParseFile(f)
  /\ action \in {"add", "change", "remove"} /\ call \in {"get_name", "get_run"}
  /\ udev \in Begins(action, call)
  /\ current = 1 /\ applied = <<>> /\ done = FALSE

Rule == rulebuf[current]
Assigns(op)  == op \in {"=", ":=", "+="}
Resets(op)   == op \in {"=", ":="}
IsSet(r, k)  == r.keys[k].op # "unset"

\* Mutant: a rule that would set the name again is only kept from doing that.
Ignored_Never(r) ==
  call = "get_run" /\ \E k \in Perms \cup {"NAME", "SYMLINK"} : IsSet(r, k)

\* A name has been set, and this rule would set another: it is ignored with all
\* that it says.  When a device has no node to name, so is any that names it.
Ignored(r) ==
  \/ call = "get_name" /\ udev.name_set /\ Assigns(r.keys["NAME"].op)
  \/ call = "get_run" /\ \E k \in Perms \cup {"NAME", "SYMLINK"} : IsSet(r, k)

\* The label of a rule that has none is what its buffer begins with.
LabelOf(r) == IF IsSet(r, "LABEL") THEN r.keys["LABEL"].vals ELSE r.first

\* Mutant: the search for a label starts at the first rule again.
Jump_Back(r, next) ==
  LET hits == {i \in DOMAIN rulebuf : LabelOf(rulebuf[i]) = r.keys["GOTO"].vals}
  IN  IF hits = {} THEN Len(rulebuf) + 1
      ELSE CHOOSE i \in hits : \A j \in hits : i <= j

\* udev_rules_iter_label
Jump(r, next) ==
  LET hits == {i \in next .. Len(rulebuf) :
                 LabelOf(rulebuf[i]) = r.keys["GOTO"].vals}
  IN  IF hits = {} THEN Len(rulebuf) + 1
      ELSE CHOOSE i \in hits : \A j \in hits : i <= j

Permit(r, u) ==
  [u EXCEPT !.perm  = [k \in Perms |-> IF IsSet(r, k) /\ ~u.final[k]
                                       THEN Value(r.keys[k], u.result) ELSE @[k]],
            !.final = [k \in Perms |-> @[k] \/ r.keys[k].op = ":="]]

\* Mutant: a final assignment adds to the list instead of replacing it.
AddLinks_Final(r, u) ==
  LET t == r.keys["SYMLINK"]
  IN  IF u.links_final \/ t.op = "unset" THEN u
      ELSE [u EXCEPT !.links_final = t.op = ":=",
                     !.links = (IF t.op = "=" THEN {} ELSE @)
                                  \cup {Subst(v, u.result) : v \in t.vals}]

AddLinks(r, u) ==
  LET t == r.keys["SYMLINK"]
  IN  IF u.links_final \/ t.op = "unset" THEN u
      ELSE [u EXCEPT !.links_final = t.op = ":=",
                     !.links = (IF Resets(t.op) THEN {} ELSE @)
                                  \cup {Subst(v, u.result) : v \in t.vals}]

SetName(r, u) ==
  IF ~Assigns(r.keys["NAME"].op) THEN u
  ELSE [u EXCEPT !.name_set = TRUE, !.name = Value(r.keys["NAME"], u.result)]

AddRun(r, u) ==
  LET t == r.keys["RUN"]
  IN  IF u.run_final \/ t.op = "unset" THEN u
      ELSE [u EXCEPT !.run_final = t.op = ":=",
                     !.run = (IF Resets(t.op) THEN {} ELSE @) \cup t.vals]

Options(r, u) ==
  [u EXCEPT !.ignore_remove = @ \/ "ignore_remove" \in r.options,
            !.prio = IF "link_priority" \in r.options THEN "link_priority" ELSE @]

\* What a rule that matches gives the event.
Apply(r, u) == IF call = "get_name"
               THEN AddRun(r, SetName(r, AddLinks(r, Permit(r, Options(r, u)))))
               ELSE AddRun(r, u)

LastRule(r, u) ==
  \/ "last_rule" \in r.options
  \/ call = "get_run" /\ IsSet(r, "RUN") /\ u.run_final

\* The rule at current is ignored, or does not match, or is applied.
SkipRule ==
  /\ ~done /\ current <= Len(rulebuf) /\ Ignored(Rule)
  /\ current' = current + 1
  /\ UNCHANGED <<rulebuf, action, call, done, udev, applied>>

NoMatch ==
  /\ ~done /\ current <= Len(rulebuf) /\ ~Ignored(Rule)
  /\ \E m \in MatchRule(Rule, udev) : ~m[2] /\ udev' = m[1]
  /\ current' = current + 1
  /\ UNCHANGED <<rulebuf, action, call, done, applied>>

ApplyRule ==
  /\ ~done /\ current <= Len(rulebuf) /\ ~Ignored(Rule)
  /\ \E m \in MatchRule(Rule, udev) :
       LET r == Rule
           u == Apply(r, m[1])
       IN  /\ m[2]
           /\ applied' = Append(applied, [rule |-> current, result |-> m[1].result])
           /\ IF "ignore_device" \in r.options
              THEN /\ udev' = [m[1] EXCEPT !.ignore_device = TRUE]
                   /\ done' = TRUE /\ UNCHANGED current
              ELSE /\ udev' = u
                   /\ current' = IF LastRule(r, u) THEN Len(rulebuf) + 1
                                 ELSE IF IsSet(r, "GOTO") THEN Jump(r, current + 1)
                                 ELSE current + 1
                   /\ UNCHANGED done
  /\ UNCHANGED <<rulebuf, action, call>>

\* No more rules: without a name the device keeps the kernel's.
RulesDone ==
  /\ ~done /\ current > Len(rulebuf)
  /\ udev' = [udev EXCEPT !.name = IF call = "get_name" /\ ~udev.name_set
                                   THEN Chain[1].KERNEL ELSE @]
  /\ done' = TRUE
  /\ UNCHANGED <<rulebuf, action, call, current, applied>>

RulesNext == SkipRule \/ NoMatch \/ ApplyRule \/ RulesDone

RulesSpec == RulesInit /\ [][RulesNext]_rulevars
-----------------------------------------------------------------------------
(* What the rules mean, said of a whole run: applied is the list of the    *)
(* rules that were applied.                                                *)

Finished   == done /\ ~udev.ignore_device
Written(j) == rulebuf[applied[j].rule]

\* The rules applied that say something of k, up to the first final word.
Effective(k) == {j \in DOMAIN applied :
  /\ IsSet(Written(j), k)
  /\ \A i \in 1 .. j - 1 : Written(i).keys[k].op # ":="}
\* Of a list, those that no later one has reset.
Lasting(k) == {j \in Effective(k) :
  \A i \in Effective(k) : Resets(Written(i).keys[k].op) => i <= j}
Collected(k, j) ==
  {Subst(v, applied[j].result) : v \in Written(j).keys[k].vals}

\* Lists hold what the rules since the last reset add, and nothing that comes
\* after a final assignment; a permission is what the last rule says that
\* still may say something.
CollectedAsWritten == Finished =>
  /\ call = "get_name" => udev.links = UNION {Collected("SYMLINK", j) : j \in Lasting("SYMLINK")}
  /\ udev.run = UNION {Written(j).keys["RUN"].vals : j \in Lasting("RUN")}
  /\ call = "get_name" => \A k \in Perms : \A j \in Effective(k) :
       (\A i \in Effective(k) : i <= j) => udev.perm[k] \in Collected(k, j)

\* "Only one rule can set the node name, all later rules with a NAME key will
\* be ignored", with everything else they say: the name is that of the first
\* rule applied that assigns one, and no other such rule is applied.
NameIsFirst == Finished /\ call = "get_name" =>
  LET N == {j \in DOMAIN applied : Assigns(Written(j).keys["NAME"].op)}
  IN  IF N = {} THEN udev.name = Chain[1].KERNEL
      ELSE \E j \in N : N = {j} /\ udev.name \in Collected("NAME", j)

\* Rules apply in the order of the file, none twice, and a GOTO passes over all
\* that lies before its label.
OrderAsWritten == \A j \in 2 .. Len(applied) :
  LET from == applied[j - 1].rule
      to   == applied[j].rule
  IN  /\ from < to
      /\ "last_rule" \notin rulebuf[from].options
      /\ IsSet(rulebuf[from], "GOTO") =>
           \E i \in from + 1 .. to : LabelOf(rulebuf[i]) = rulebuf[from].keys["GOTO"].vals

\* A remove event of the device restores the environment from its entry, which
\* holds env_list, over what the kernel's event says: the list says what the
\* environment says.  Three things spoil that in the code and are excepted: a
\* variable whose name begins with the name of another, values imported from the
\* parent, and a variable of the kernel's event that a rule has unset, which the
\* list does not tell.
EnvIsKept ==
  (\A i \in DOMAIN rulebuf : rulebuf[i].import # "parent") =>
     \A k \in EnvKeys : Alone(k) /\ (Uevent[k] = "" \/ udev.env.environ[k] # "") =>
       PutAll([udev.env EXCEPT !.environ = Fresh.env.environ]).environ[k] =
         udev.env.environ[k]
=============================================================================
