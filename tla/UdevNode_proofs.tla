---------------------------- MODULE UdevNode_proofs ----------------------------
(***************************************************************************)
(* The event processes of udev in /dev, for any devices, names, outcomes of*)
(* the rules and number of events: the name index and the database agree   *)
(* whenever no event is under way, and a temporary file is of one process. *)
(***************************************************************************)
EXTENDS UdevNode, UdevNet, TLAPS

USE NodeAssumption

Files   == [type : {"none", "node", "link"}, is : Devs \cup Names \cup {NoName}]
Entries == [name : NodeNames \cup {NoName}, links : SUBSET Links, prio : Int,
            ignore_remove : BOOLEAN]
Labels  == {"idle", "get", "unindex", "stat", "rmnode", "store", "index",
            "links", "unlink", "weigh", "look", "create", "replace", "rename"}
Making  == {"look", "create", "replace", "rename"}
Procs   == [pc : Labels, action : {"none", "add", "remove"}, udev : Entries,
            old : Entries, keep : BOOLEAN, names : SUBSET Names,
            name : Names \cup {NoName}, want : Files, found : SUBSET Devs,
            target : Names \cup {NoName}, prio : Int]

\* The names under which d is in the index, and those its entry claims.
IndexOf(d) == {n \in Names : d \in index[n]}
Claimed(e) == IF e \in {NoEntry, Opened} THEN {} ELSE e.links \cup {e.name}

\* The types, with what is known of an entry and a process at each label.
EntryOK(e) == e \in Entries /\ (e.name = NoName => e \in {NoEntry, Opened})
ProcOK(p) ==
  /\ p \in Procs
  /\ p.pc # "idle" /\ (p.pc # "get" \/ p.action = "add") => p.udev.name \in NodeNames
  /\ p.old = NoEntry \/ p.old.name \in NodeNames
  /\ p.pc \in Making \cup {"unlink", "weigh"} => p.name \in Names
  /\ p.pc \in Making => p.want.type # "none"
NodeTypeOK ==
  /\ file \in [Names -> Files] /\ tmp \in [Names -> Files]
  /\ index \in [Names -> SUBSET Devs]
  /\ DOMAIN db = Devs /\ \A d \in Devs : EntryOK(db[d])
  /\ DOMAIN proc = Devs /\ \A d \in Devs : ProcOK(proc[d])

\* While an event takes its device out of the index or puts it in, it knows
\* what is left to do; at every other moment the index of the device is what
\* its entry claims, which is nothing until the node is made.
IndexInv(d) ==
  /\ At(d, "unindex") => db[d] = NoEntry /\ IndexOf(d) = proc[d].names
  /\ At(d, "index") =>
       IF db[d] = Opened
       THEN /\ IndexOf(d) = proc[d].udev.links \ proc[d].names
            /\ proc[d].names \subseteq proc[d].udev.links
       ELSE /\ IndexOf(d) = Claimed(db[d]) \ proc[d].names
            /\ proc[d].names \subseteq Claimed(db[d])
  /\ ~At(d, "unindex") /\ ~At(d, "index") =>
       db[d] # Opened /\ IndexOf(d) = Claimed(db[d])
  /\ At(d, "store") \/ (proc[d].pc \in Making /\ MakesNode(d)) =>
       db[d] = NoEntry

\* The temporary files are those that a process is about to rename, each its own.
TmpInv ==
  /\ \A d \in Devs : At(d, "rename") => tmp[proc[d].name] = proc[d].want
  /\ \A d, e \in Devs :
       At(d, "rename") /\ At(e, "rename") /\ proc[d].name = proc[e].name => d = e
  /\ \A n \in Names : tmp[n] # NoFile =>
       \E d \in Devs : At(d, "rename") /\ proc[d].name = n

NodeInv == NodeTypeOK /\ (\A d \in Devs : IndexInv(d)) /\ TmpInv

\* The values that are compared with others have the types they should.
LEMMA ValueFacts ==
  /\ NoEntry \in Entries /\ Opened \in Entries /\ NoEntry # Opened
  /\ NoEntry.name = NoName /\ Opened.name = NoName
  /\ NoFile \in Files /\ NoFile.type = "none"
  /\ \A d \in Devs : NodeOf(d) \in Files /\ NodeOf(d).type = "node"
  /\ \A n \in Names : LinkTo(n) \in Files /\ LinkTo(n).type = "link"
  /\ Links \subseteq Names /\ NodeNames \subseteq Names
  /\ NoName \notin Names /\ NoName \notin NodeNames /\ NoName \notin Links
  /\ Links \cap NodeNames = {}
  /\ Idle \in Procs /\ Idle.pc = "idle" /\ Idle.old = NoEntry
<1>1. NoEntry \in Entries /\ NoEntry.name = NoName /\ NoEntry.prio = 0
  BY DEF NoEntry, Entries
<1>2. Opened \in Entries /\ Opened.name = NoName /\ Opened.prio = 1
  BY <1>1 DEF Opened, Entries
<1>3. NoFile \in Files /\ NoFile.type = "none"
  BY DEF NoFile, Files
<1>4. \A d \in Devs : NodeOf(d) \in Files /\ NodeOf(d).type = "node"
  BY DEF NodeOf, Files
<1>5. \A n \in Names : LinkTo(n) \in Files /\ LinkTo(n).type = "link"
  BY DEF LinkTo, Files
<1>6. /\ Links \subseteq Names /\ NodeNames \subseteq Names
      /\ NoName \notin Names /\ Links \cap NodeNames = {}
  BY DEF Names
<1>7. Idle \in Procs /\ Idle.pc = "idle" /\ Idle.old = NoEntry
  BY <1>1, <1>3 DEF Idle, Procs, Labels
<1> QED
  BY <1>1, <1>2, <1>3, <1>4, <1>5, <1>6, <1>7

\* The name that the kernel or the rules give is one of the names in /dev.
LEMMA NameFacts ==
  /\ \A d \in Devs : Kernel[d] \in NodeNames
  /\ \A d \in Devs : \A o \in Outcomes[d] :
       o \in Entries /\ o.name \in NodeNames
BY DEF NodeNames, Entries

\* Nothing is claimed, indexed or written at the start.
LEMMA InitOK == NodeInit => NodeInv
<1> SUFFICES ASSUME NodeInit PROVE NodeInv
  OBVIOUS
<1>1. NodeTypeOK
  BY ValueFacts DEF NodeInit, NodeTypeOK, EntryOK, ProcOK, Making
<1>2. \A d \in Devs : IndexInv(d)
  BY ValueFacts DEF NodeInit, IndexInv, IndexOf, Claimed, At, Making
<1>3. TmpInv
  BY ValueFacts DEF NodeInit, TmpInv, At
<1> QED
  BY <1>1, <1>2, <1>3 DEF NodeInv
-----------------------------------------------------------------------------
(* What a step of one process leaves alone.                                *)

StepOf(d) == \/ \E o \in Outcomes[d] : BeginEvent(d, "add", o, FALSE)
             \/ \E keep \in BOOLEAN : BeginEvent(d, "remove", NoEntry, keep)
             \/ EventProcess(d)

\* The state of the other devices is untouched: their processes, their entries,
\* and whether they are in the index under a name.
OthersKept(d) ==
  /\ DOMAIN proc' = Devs /\ DOMAIN db' = Devs /\ index' \in [Names -> SUBSET Devs]
  /\ \A e \in Devs \ {d} : /\ proc'[e] = proc[e] /\ db'[e] = db[e]
                           /\ IndexOf(e)' = IndexOf(e)

\* Every step of a process keeps the state of the other devices.
LEMMA Frame ==
  ASSUME NodeTypeOK, NEW d \in Devs, StepOf(d)
  PROVE  OthersKept(d)
<1>1. DOMAIN proc' = Devs /\ \A e \in Devs \ {d} : proc'[e] = proc[e]
  <2>1. \E r : proc' = [proc EXCEPT ![d] = r]
    BY DEF StepOf, EventProcess, BeginEvent, DbForget, Unindex, Forgotten, StatNode,
           UnlinkNode, DbOpen, Index, DbClose, DbAdded, EndEvent, Scan, Unlink,
           Weigh, Weighed, Look, Create, Replace, Rename, NotMade, Go, Become
  <2> QED
    BY <2>1 DEF NodeTypeOK
<1>2. DOMAIN db' = Devs /\ \A e \in Devs \ {d} : db'[e] = db[e]
  <2>1. UNCHANGED db \/ \E r : db' = [db EXCEPT ![d] = r]
    BY DEF StepOf, EventProcess, BeginEvent, DbForget, Unindex, Forgotten, StatNode,
           UnlinkNode, DbOpen, Index, DbClose, DbAdded, EndEvent, Scan, Unlink,
           Weigh, Weighed, Look, Create, Replace, Rename, disk
  <2> QED
    BY <2>1 DEF NodeTypeOK
<1>3. \/ UNCHANGED index
      \/ \E n \in proc[d].names : \/ index' = [index EXCEPT ![n] = @ \ {d}]
                                  \/ index' = [index EXCEPT ![n] = @ \cup {d}]
  BY DEF StepOf, EventProcess, BeginEvent, DbForget, Unindex, Forgotten, StatNode,
         UnlinkNode, DbOpen, Index, DbClose, DbAdded, EndEvent, Scan, Unlink,
         Weigh, Weighed, Look, Create, Replace, Rename, disk
<1>4. index' \in [Names -> SUBSET Devs]
  BY <1>3 DEF NodeTypeOK
<1>5. \A e \in Devs \ {d} : IndexOf(e)' = IndexOf(e)
  BY <1>3 DEF NodeTypeOK, IndexOf
<1> QED
  BY <1>1, <1>2, <1>4, <1>5 DEF OthersKept

\* What is not of d keeps its part of the invariant.
LEMMA OthersFacts ==
  ASSUME NodeInv, NEW d \in Devs, OthersKept(d), NEW e \in Devs \ {d}
  PROVE  ProcOK(proc'[e]) /\ EntryOK(db'[e]) /\ IndexInv(e)'
<1>1. ProcOK(proc[e]) /\ EntryOK(db[e]) /\ IndexInv(e)
  BY DEF NodeInv, NodeTypeOK
<1>2. proc'[e] = proc[e] /\ db'[e] = db[e] /\ IndexOf(e)' = IndexOf(e)
  BY DEF OthersKept
<1> QED
  BY <1>1, <1>2 DEF IndexInv, At, MakesNode
-----------------------------------------------------------------------------
(* The device whose process takes the step.                                *)

\* The part of the invariant that speaks of d.
Own(d) == ProcOK(proc[d]) /\ EntryOK(db[d]) /\ IndexInv(d)

\* What an entry claims are names, and none if it is empty or being written.
LEMMA ClaimFacts ==
  /\ Claimed(NoEntry) = {} /\ Claimed(Opened) = {}
  /\ \A e \in Entries : EntryOK(e) =>
       /\ Claimed(e) \subseteq Names
       /\ e # NoEntry /\ e # Opened => /\ e.name \in NodeNames
                                       /\ Claimed(e) = e.links \cup {e.name}
  /\ \A e \in Entries : e.name \in NodeNames => e # NoEntry /\ e # Opened
BY ValueFacts DEF Claimed, EntryOK, Entries

\* Steps that take the device out of the database and the index.
LEMMA ForgetStep ==
  ASSUME NodeInv, NEW d \in Devs,
         \/ \E o \in Outcomes[d] : BeginEvent(d, "add", o, FALSE)
         \/ \E keep \in BOOLEAN : BeginEvent(d, "remove", NoEntry, keep)
         \/ DbForget(d) \/ Unindex(d) \/ Forgotten(d)
  PROVE  Own(d)'
<1>0. /\ Own(d) /\ d \in DOMAIN proc /\ d \in DOMAIN db
      /\ proc[d] \in Procs /\ db[d] \in Entries /\ index \in [Names -> SUBSET Devs]
  BY DEF NodeInv, NodeTypeOK, Own, ProcOK, EntryOK
<1>1. ASSUME NEW a \in {"add", "remove"}, NEW o \in Entries, NEW keep \in BOOLEAN,
             a = "add" => o.name \in NodeNames, BeginEvent(d, a, o, keep)
      PROVE  Own(d)'
  <2>1. /\ proc'[d] = [Idle EXCEPT !.pc = "get", !.action = a, !.udev = o,
                                   !.keep = keep]
        /\ UNCHANGED <<db, index>> /\ At(d, "idle")
    BY <1>0, <1>1 DEF BeginEvent, Become, disk
  <2>2. /\ proc'[d] \in Procs /\ proc'[d].pc = "get"
        /\ proc'[d].action = a /\ proc'[d].udev = o /\ proc'[d].old = NoEntry
    BY <2>1, ValueFacts DEF Procs, Labels
  <2>3. ProcOK(proc'[d])
    BY <1>1, <2>2 DEF ProcOK, Making
  <2>4. IndexInv(d)'
    BY <1>0, <2>1, <2>2 DEF Own, IndexInv, IndexOf, At, Making
  <2> QED
    BY <1>0, <2>1, <2>3, <2>4 DEF Own
<1>2. CASE DbForget(d)
  <2> DEFINE p == proc[d]
             e == db[d]
             u == IF p.action = "add" THEN p.udev
                  ELSE IF e # NoEntry THEN e
                  ELSE [NoEntry EXCEPT !.name = Kernel[d]]
             N == IF e = NoEntry THEN {} ELSE {e.name} \cup e.links
  <2>1. /\ proc'[d] = [p EXCEPT !.udev = u, !.old = e, !.pc = "unindex",
                         !.keep = p.keep \/ (p.action = "remove" /\ e.ignore_remove),
                         !.names = N]
        /\ db'[d] = NoEntry /\ UNCHANGED index /\ At(d, "get")
    BY <1>0, <1>2 DEF DbForget, Become
  <2>2. e # Opened /\ IndexOf(d) = Claimed(e)
    BY <1>0, <2>1 DEF Own, IndexInv, At
  <2>3. u \in Entries /\ u.name \in NodeNames
    <3>1. CASE p.action = "add"
      BY <1>0, <2>1, <3>1 DEF Own, ProcOK, At, Procs
    <3>2. CASE p.action # "add" /\ e # NoEntry
      BY <1>0, <2>2, <3>2, ClaimFacts DEF Own
    <3>3. CASE p.action # "add" /\ e = NoEntry
      BY <3>3, ValueFacts, NameFacts DEF Entries
    <3> QED
      BY <3>1, <3>2, <3>3
  <2>4. N = Claimed(e) /\ N \subseteq Names
    BY <1>0, <2>2, ClaimFacts DEF Own
  <2>5. (p.keep \/ (p.action = "remove" /\ e.ignore_remove)) \in BOOLEAN
    BY <1>0 DEF Procs, Entries
  <2> HIDE DEF u, N
  <2>6. /\ proc'[d] \in Procs /\ proc'[d].pc = "unindex" /\ proc'[d].names = N
        /\ proc'[d].udev = u /\ proc'[d].old = e
    BY <1>0, <2>1, <2>3, <2>4, <2>5 DEF Procs, Labels
  <2>7. ProcOK(proc'[d])
    <3>1. e = NoEntry \/ e.name \in NodeNames
      BY <1>0, <2>2, ClaimFacts DEF Own
    <3> QED
      BY <2>3, <2>6, <3>1 DEF ProcOK, Making
  <2>8. IndexInv(d)'
    BY <2>1, <2>2, <2>4, <2>6 DEF IndexInv, IndexOf, At, Making
  <2> QED
    BY <2>1, <2>7, <2>8, ValueFacts DEF Own, EntryOK
<1>3. CASE Unindex(d)
  <2>1. PICK n \in proc[d].names :
          /\ index' = [index EXCEPT ![n] = @ \ {d}]
          /\ proc'[d] = [proc[d] EXCEPT !.names = @ \ {n}]
    BY <1>0, <1>3 DEF Unindex, Become
  <2>2. UNCHANGED db /\ At(d, "unindex") /\ n \in Names
    BY <1>0, <1>3, <2>1 DEF Unindex, Procs
  <2>3. /\ proc'[d] \in Procs /\ proc'[d].pc = "unindex"
        /\ proc'[d].names = proc[d].names \ {n} /\ proc'[d].udev = proc[d].udev
        /\ proc'[d].old = proc[d].old
    BY <1>0, <2>1, <2>2 DEF Procs, At
  <2>4. IndexOf(d)' = IndexOf(d) \ {n}
    BY <1>0, <2>1, <2>2 DEF IndexOf
  <2>5. ProcOK(proc'[d])
    BY <1>0, <2>2, <2>3 DEF Own, ProcOK, At, Making
  <2>6. IndexInv(d)'
    BY <1>0, <2>2, <2>3, <2>4 DEF Own, IndexInv, At, Making
  <2> QED
    BY <1>0, <2>2, <2>5, <2>6 DEF Own
<1>4. CASE Forgotten(d)
  <2>1. /\ proc'[d] = IF proc[d].keep THEN Idle
                      ELSE IF proc[d].action = "remove"
                           THEN [proc[d] EXCEPT !.pc = "stat"]
                      ELSE [proc[d] EXCEPT !.pc = "look",
                              !.name = proc[d].udev.name, !.want = NodeOf(d)]
        /\ UNCHANGED <<db, index>> /\ At(d, "unindex") /\ proc[d].names = {}
    BY <1>0, <1>4 DEF Forgotten, Become, disk
  <2>2. /\ db[d] = NoEntry /\ IndexOf(d) = {}
        /\ proc[d].udev.name \in NodeNames
    BY <1>0, <2>1 DEF Own, IndexInv, ProcOK, At
  <2>3. ProcOK(proc'[d]) /\ proc'[d].pc \in {"idle", "stat", "look"}
    <3>1. CASE proc[d].keep
      BY <2>1, <3>1, ValueFacts DEF ProcOK, Making
    <3>2. CASE ~proc[d].keep /\ proc[d].action = "remove"
      <4>1. /\ proc'[d] \in Procs /\ proc'[d].pc = "stat"
            /\ proc'[d].udev = proc[d].udev /\ proc'[d].old = proc[d].old
        BY <1>0, <2>1, <3>2 DEF Procs, Labels
      <4> QED
        BY <1>0, <2>2, <4>1 DEF Own, ProcOK, Making
    <3>3. CASE ~proc[d].keep /\ proc[d].action # "remove"
      <4>1. /\ proc'[d] \in Procs /\ proc'[d].pc = "look"
            /\ proc'[d].udev = proc[d].udev /\ proc'[d].want = NodeOf(d)
            /\ proc'[d].old = proc[d].old /\ proc'[d].name = proc[d].udev.name
        <5> DEFINE w == NodeOf(d)
                   m == proc[d].udev.name
        <5>1. proc'[d] = [proc[d] EXCEPT !.pc = "look", !.name = m, !.want = w]
          BY <2>1, <3>3
        <5>2. w \in Files /\ m \in Names
          BY <2>2, ValueFacts
        <5> HIDE DEF w, m
        <5>3. /\ proc'[d] \in Procs /\ proc'[d].pc = "look"
              /\ proc'[d].udev = proc[d].udev /\ proc'[d].want = w
              /\ proc'[d].old = proc[d].old /\ proc'[d].name = m
          BY <1>0, <5>1, <5>2 DEF Procs, Labels
        <5> QED
          BY <5>3 DEF w, m
      <4> QED
        BY <1>0, <2>2, <4>1, ValueFacts DEF Own, ProcOK, Making
    <3> QED
      BY <3>1, <3>2, <3>3
  <2>4. IndexInv(d)'
    BY <2>1, <2>2, <2>3, ClaimFacts, ValueFacts DEF IndexInv, IndexOf, At
  <2> QED
    BY <1>0, <2>1, <2>3, <2>4 DEF Own
<1> QED
  BY <1>1, <1>2, <1>3, <1>4, NameFacts, ValueFacts

\* Steps that remove the node, and that put the device into the database and
\* the index.
LEMMA StoreStep ==
  ASSUME NodeInv, NEW d \in Devs,
         \/ StatNode(d) \/ UnlinkNode(d) \/ DbOpen(d) \/ Index(d)
         \/ DbClose(d) \/ DbAdded(d)
  PROVE  Own(d)'
<1>0. /\ Own(d) /\ d \in DOMAIN proc /\ d \in DOMAIN db
      /\ proc[d] \in Procs /\ db[d] \in Entries /\ index \in [Names -> SUBSET Devs]
  BY DEF NodeInv, NodeTypeOK, Own, ProcOK, EntryOK
<1> DEFINE u == proc[d].udev
<1>a. u \in Entries /\ u.links \subseteq Links /\ Touched(d) \subseteq Names
  <2>1. proc[d].udev \in Entries /\ proc[d].old \in Entries
    BY <1>0 DEF Procs
  <2>2. proc[d].old = NoEntry \/ proc[d].old.name \in Names
    BY <1>0, ValueFacts DEF Own, ProcOK
  <2> QED
    BY <2>1, <2>2, ValueFacts DEF Touched, Entries
<1> HIDE DEF u
<1>1. CASE StatNode(d) \/ UnlinkNode(d) \/ DbAdded(d)
  <2>1. /\ \/ proc'[d] = [proc[d] EXCEPT !.pc = "rmnode"]
           \/ proc'[d] = [proc[d] EXCEPT !.pc = "links", !.names = Touched(d)]
        /\ UNCHANGED <<db, index>>
    BY <1>0, <1>1 DEF StatNode, UnlinkNode, DbAdded, Become, disk
  <2>2. /\ proc'[d] \in Procs /\ proc'[d].pc \in {"rmnode", "links"}
        /\ proc'[d].udev = proc[d].udev /\ proc'[d].old = proc[d].old
    BY <1>0, <1>a, <2>1 DEF Procs, Labels
  <2>3. proc[d].pc \in {"stat", "rmnode", "index"}
    BY <1>1 DEF StatNode, UnlinkNode, DbAdded, At
  <2>4. ProcOK(proc'[d])
    BY <1>0, <2>2, <2>3 DEF Own, ProcOK, Making
  <2>5. db[d] # Opened /\ IndexOf(d) = Claimed(db[d])
    BY <1>0, <1>1, <2>3 DEF Own, IndexInv, At, DbAdded, StatNode, UnlinkNode
  <2>6. IndexInv(d)'
    BY <2>1, <2>2, <2>5 DEF IndexInv, IndexOf, At, Making
  <2> QED
    BY <1>0, <2>1, <2>4, <2>6 DEF Own
<1>2. CASE DbOpen(d)
  <2>1. At(d, "store") /\ UNCHANGED index /\ IndexOf(d) = {} /\ u.name \in NodeNames
    BY <1>0, <1>2, ClaimFacts DEF DbOpen, Own, IndexInv, ProcOK, At, u
  <2>2. PICK N \in {{u.name}, u.links} :
          /\ proc'[d] = [proc[d] EXCEPT !.pc = "index", !.names = N]
          /\ \/ /\ db'[d] = [u EXCEPT !.prio = 0] /\ N = {u.name}
                /\ u.links = {}
             \/ db'[d] = Opened /\ N = u.links
    BY <1>0, <1>2 DEF DbOpen, Become, u
  <2>3. /\ proc'[d] \in Procs /\ proc'[d].pc = "index" /\ proc'[d].names = N
        /\ proc'[d].udev = u /\ proc'[d].old = proc[d].old
    <3>1. N \subseteq Names
      BY <1>a, <2>1, <2>2, ValueFacts
    <3> QED
      BY <1>0, <2>2, <3>1 DEF Procs, Labels, u
  <2>4. ProcOK(proc'[d])
    BY <1>0, <2>1, <2>3 DEF Own, ProcOK, Making
  <2>5. CASE db'[d] = [u EXCEPT !.prio = 0] /\ N = {u.name} /\ u.links = {}
    <3>1. db'[d] \in Entries /\ db'[d].name = u.name /\ db'[d].links = {}
      BY <1>a, <2>5 DEF Entries
    <3>2. Claimed(db'[d]) = {u.name} /\ db'[d] # Opened /\ EntryOK(db'[d])
      BY <2>1, <3>1, ClaimFacts, ValueFacts DEF EntryOK
    <3>3. IndexInv(d)'
      BY <2>1, <2>3, <2>5, <3>2 DEF IndexInv, IndexOf, At, Making
    <3> QED
      BY <2>4, <3>2, <3>3 DEF Own
  <2>6. CASE db'[d] = Opened /\ N = u.links
    <3>1. IndexInv(d)'
      BY <2>1, <2>3, <2>6 DEF IndexInv, IndexOf, At, Making
    <3> QED
      BY <2>4, <2>6, <3>1, ValueFacts DEF Own, EntryOK
  <2> QED
    BY <2>2, <2>5, <2>6
<1>3. CASE Index(d)
  <2>1. PICK n \in proc[d].names :
          /\ index' = [index EXCEPT ![n] = @ \cup {d}]
          /\ proc'[d] = [proc[d] EXCEPT !.names = @ \ {n}]
    BY <1>0, <1>3 DEF Index, Become
  <2>2. UNCHANGED db /\ At(d, "index") /\ n \in Names
    BY <1>0, <1>3, <2>1 DEF Index, Procs
  <2>3. /\ proc'[d] \in Procs /\ proc'[d].pc = "index"
        /\ proc'[d].names = proc[d].names \ {n} /\ proc'[d].udev = proc[d].udev
        /\ proc'[d].old = proc[d].old
    BY <1>0, <2>1, <2>2 DEF Procs, At
  <2>4. IndexOf(d)' = IndexOf(d) \cup {n}
    BY <1>0, <2>1, <2>2 DEF IndexOf
  <2>5. ProcOK(proc'[d])
    BY <1>0, <2>2, <2>3 DEF Own, ProcOK, At, Making
  <2>6. IndexInv(d)'
    BY <1>0, <2>1, <2>2, <2>3, <2>4 DEF Own, IndexInv, At, Making
  <2> QED
    BY <1>0, <2>2, <2>5, <2>6 DEF Own
<1>4. CASE DbClose(d)
  <2>1. /\ At(d, "index") /\ UNCHANGED index /\ db[d] = Opened
        /\ IndexOf(d) = u.links /\ u.name \in NodeNames /\ db'[d] = u
        /\ proc'[d] = [proc[d] EXCEPT !.names = {u.name}]
    BY <1>0, <1>4 DEF DbClose, Become, Own, IndexInv, ProcOK, At, u
  <2>2. /\ proc'[d] \in Procs /\ proc'[d].pc = "index" /\ proc'[d].names = {u.name}
        /\ proc'[d].udev = u /\ proc'[d].old = proc[d].old
    BY <1>0, <2>1, ValueFacts DEF Procs, At, u
  <2>3. ProcOK(proc'[d])
    BY <1>0, <2>1, <2>2 DEF Own, ProcOK, Making
  <2>4. u # Opened /\ Claimed(u) = u.links \cup {u.name} /\ EntryOK(u)
    BY <1>a, <2>1, ClaimFacts, ValueFacts DEF EntryOK
  <2>5. u.name \notin u.links
    BY <1>a, <2>1, ValueFacts
  <2>6. IndexInv(d)'
    BY <2>1, <2>2, <2>4, <2>5 DEF IndexInv, IndexOf, At, Making
  <2> QED
    BY <2>1, <2>3, <2>4, <2>6 DEF Own
<1> QED
  BY <1>1, <1>2, <1>3, <1>4

\* Steps of update_link, and those that make a file.
LEMMA LinkStep ==
  ASSUME NodeInv, NEW d \in Devs,
         \/ EndEvent(d) \/ Scan(d) \/ Unlink(d) \/ Weigh(d) \/ Weighed(d)
         \/ Look(d) \/ Create(d) \/ Replace(d) \/ Rename(d)
  PROVE  Own(d)'
<1>0. /\ Own(d) /\ d \in DOMAIN proc /\ proc[d] \in Procs
      /\ index \in [Names -> SUBSET Devs]
  BY DEF NodeInv, NodeTypeOK, Own, ProcOK
<1>a. UNCHANGED <<db, index>>
  BY DEF EndEvent, Scan, Unlink, Weigh, Weighed, Look, Create, Replace, Rename, disk
<1>b. /\ proc[d].pc \in {"links", "unlink", "weigh"} \cup Making
      /\ db[d] # Opened /\ IndexOf(d) = Claimed(db[d])
      /\ proc[d].pc \in Making /\ MakesNode(d) => db[d] = NoEntry
  BY <1>0 DEF Own, IndexInv, At, Making, EndEvent, Scan, Unlink, Weigh, Weighed,
              Look, Create, Replace, Rename
\* It is enough that the process is at a label of these, or at the store with
\* the node made, or done.
<1> SUFFICES /\ ProcOK(proc'[d])
             /\ proc'[d].pc \notin {"unindex", "index"}
             /\ proc'[d].pc = "store"
                  \/ (proc'[d].pc \in Making /\ proc'[d].want.type = "node")
                => db[d] = NoEntry
  BY <1>0, <1>a, <1>b DEF Own, IndexInv, IndexOf, At, MakesNode
<1>c. ASSUME NEW label \in {"links", "store"},
             proc'[d] = [proc[d] EXCEPT !.pc = label]
      PROVE  ProcOK(proc'[d]) /\ proc'[d].pc = label
  <2>1. /\ proc'[d] \in Procs /\ proc'[d].pc = label
        /\ proc'[d].udev = proc[d].udev /\ proc'[d].old = proc[d].old
    BY <1>0, <1>c DEF Procs, Labels
  <2> QED
    BY <1>0, <1>b, <2>1 DEF Own, ProcOK, Making
<1>1. CASE EndEvent(d)
  BY <1>0, <1>1, ValueFacts DEF EndEvent, Become, ProcOK, Making
<1>2. CASE Scan(d)
  <2>1. PICK n \in proc[d].names :
          proc'[d] = [proc[d] EXCEPT !.names = @ \ {n}, !.name = n,
                        !.found = index[n], !.target = NoName, !.prio = 0,
                        !.pc = IF index[n] = {} THEN "unlink" ELSE "weigh"]
    BY <1>0, <1>2 DEF Scan, Become
  <2>2. n \in Names /\ index[n] \in SUBSET Devs
    BY <1>0 DEF Procs
  <2> DEFINE lab == IF index[n] = {} THEN "unlink" ELSE "weigh"
             S == index[n]
  <2>3. lab \in {"unlink", "weigh"} /\ S \in SUBSET Devs
    BY <2>2
  <2>4. proc'[d] = [proc[d] EXCEPT !.names = @ \ {n}, !.name = n, !.found = S,
                      !.target = NoName, !.prio = 0, !.pc = lab]
    BY <2>1
  <2> DEFINE q == [proc[d] EXCEPT !.names = @ \ {n}, !.name = n, !.found = S]
             o == [q EXCEPT !.target = NoName]
             r == [o EXCEPT !.prio = 0]
  <2>5. proc'[d] = [r EXCEPT !.pc = lab]
    BY <2>4
  <2> HIDE DEF S, lab
  <2>a. q \in Procs /\ q.name = n /\ q.udev = proc[d].udev /\ q.old = proc[d].old
    BY <1>0, <2>2, <2>3 DEF Procs
  <2> HIDE DEF q
  <2>b. o \in Procs /\ o.name = n /\ o.udev = proc[d].udev /\ o.old = proc[d].old
    BY <2>a DEF Procs
  <2> HIDE DEF o
  <2>6. r \in Procs /\ r.name = n /\ r.udev = proc[d].udev /\ r.old = proc[d].old
    BY <2>b DEF Procs
  <2> HIDE DEF r
  <2>7. /\ proc'[d] \in Procs /\ proc'[d].pc \in {"unlink", "weigh"}
        /\ proc'[d].name = n /\ proc'[d].udev = proc[d].udev
        /\ proc'[d].old = proc[d].old
    BY <2>3, <2>5, <2>6 DEF Procs, Labels
  <2> QED
    BY <1>0, <1>b, <2>2, <2>7 DEF Own, ProcOK, Making
<1>3. CASE Unlink(d)
  <2>1. proc'[d] = [proc[d] EXCEPT !.pc = "links"]
    BY <1>0, <1>3 DEF Unlink, Go, Become
  <2> QED
    BY <1>c, <2>1 DEF Making
<1>4. CASE Weigh(d)
  <2> DEFINE Entry(e) == IF e = d THEN proc[d].udev ELSE db[e]
  <2>1. PICK e \in proc[d].found :
          \/ proc'[d] = [proc[d] EXCEPT !.found = @ \ {e}]
          \/ proc'[d] = [[proc[d] EXCEPT !.found = @ \ {e}]
                           EXCEPT !.target = Entry(e).name, !.prio = Entry(e).prio]
    BY <1>0, <1>4 DEF Weigh, Become
  <2>2. e \in Devs /\ Entry(e) \in Entries
    BY <1>0, <2>1 DEF Procs, NodeInv, NodeTypeOK, EntryOK
  <2> DEFINE t == Entry(e).name
             r == Entry(e).prio
  <2> HIDE DEF Entry
  <2>3. t \in Names \cup {NoName} /\ r \in Int
    BY <2>2, ValueFacts DEF Entries
  <2> DEFINE q == [proc[d] EXCEPT !.found = @ \ {e}]
  <2>a. /\ q \in Procs /\ q.pc = proc[d].pc /\ q.name = proc[d].name
        /\ q.udev = proc[d].udev /\ q.old = proc[d].old
    BY <1>0 DEF Procs
  <2>b. proc'[d] = q \/ proc'[d] = [q EXCEPT !.target = t, !.prio = r]
    BY <2>1
  <2> HIDE DEF q, t, r
  <2>4. /\ proc'[d] \in Procs /\ proc'[d].pc = proc[d].pc
        /\ proc'[d].name = proc[d].name /\ proc'[d].udev = proc[d].udev
        /\ proc'[d].old = proc[d].old
    BY <2>3, <2>a, <2>b DEF Procs
  <2>5. proc[d].pc = "weigh"
    BY <1>4 DEF Weigh, At
  <2> QED
    BY <1>0, <2>4, <2>5 DEF Own, ProcOK, Making
<1>5. CASE Weighed(d)
  <2>1. /\ proc[d].pc = "weigh"
        /\ \/ proc'[d] = [proc[d] EXCEPT !.pc = "links"]
           \/ /\ proc[d].target # NoName
              /\ proc'[d] = [proc[d] EXCEPT !.pc = "look",
                               !.want = LinkTo(proc[d].target)]
    BY <1>0, <1>5 DEF Weighed, Become, At
  <2>2. CASE proc'[d] = [proc[d] EXCEPT !.pc = "links"]
    BY <1>c, <2>2 DEF Making
  <2>3. CASE proc[d].target # NoName
             /\ proc'[d] = [proc[d] EXCEPT !.pc = "look",
                              !.want = LinkTo(proc[d].target)]
    <3> DEFINE w == LinkTo(proc[d].target)
    <3>1. w \in Files /\ w.type = "link"
      BY <1>0, <2>3, ValueFacts DEF Procs
    <3>2. proc'[d] = [proc[d] EXCEPT !.pc = "look", !.want = w]
      BY <2>3
    <3> HIDE DEF w
    <3>3. /\ proc'[d] \in Procs /\ proc'[d].pc = "look" /\ proc'[d].want = w
          /\ proc'[d].name = proc[d].name /\ proc'[d].udev = proc[d].udev
          /\ proc'[d].old = proc[d].old
      BY <1>0, <3>1, <3>2 DEF Procs, Labels
    <3> QED
      BY <1>0, <2>1, <3>1, <3>3 DEF Own, ProcOK, Making
  <2> QED
    BY <2>1, <2>2, <2>3
<1>6. CASE Look(d) \/ Create(d) \/ Replace(d) \/ Rename(d)
  <2>1. /\ proc[d].pc \in Making
        /\ \/ proc'[d] = Idle
           \/ proc'[d] = [proc[d] EXCEPT !.pc = "links"]
           \/ proc'[d] = [proc[d] EXCEPT !.pc = "store"] /\ MakesNode(d)
           \/ \E label \in Making : proc'[d] = [proc[d] EXCEPT !.pc = label]
    BY <1>0, <1>6 DEF Look, Create, Replace, Rename, NotMade, Made, Go, Become,
                      At, Making
  <2>2. CASE proc'[d] = Idle
    BY <2>2, ValueFacts DEF ProcOK, Making
  <2>3. CASE proc'[d] = [proc[d] EXCEPT !.pc = "links"]
    BY <1>c, <2>3 DEF Making
  <2>4. CASE proc'[d] = [proc[d] EXCEPT !.pc = "store"] /\ MakesNode(d)
    BY <1>0, <1>b, <1>c, <2>1, <2>4
  <2>5. ASSUME NEW label \in Making, proc'[d] = [proc[d] EXCEPT !.pc = label]
        PROVE  /\ ProcOK(proc'[d]) /\ proc'[d].pc = label
               /\ proc'[d].want.type = "node" => db[d] = NoEntry
    <3>1. /\ proc'[d] \in Procs /\ proc'[d].pc = label
          /\ proc'[d].name = proc[d].name /\ proc'[d].udev = proc[d].udev
          /\ proc'[d].old = proc[d].old /\ proc'[d].want = proc[d].want
      BY <1>0, <2>5 DEF Procs, Labels, Making
    <3> QED
      BY <1>0, <1>b, <2>1, <3>1 DEF Own, ProcOK, Making, MakesNode
  <2> QED
    BY <2>1, <2>2, <2>3, <2>4, <2>5 DEF Making
<1> QED
  BY <1>1, <1>2, <1>3, <1>4, <1>5, <1>6
-----------------------------------------------------------------------------
(* Files.                                                                  *)

\* What is put under a name is a file.
LEMMA FileStep ==
  ASSUME NodeInv, NEW d \in Devs, StepOf(d)
  PROVE  file' \in [Names -> Files] /\ tmp' \in [Names -> Files]
<1>0. /\ file \in [Names -> Files] /\ tmp \in [Names -> Files]
      /\ ProcOK(proc[d]) /\ proc[d] \in Procs /\ proc[d].want \in Files
  BY DEF NodeInv, NodeTypeOK, ProcOK, Procs
<1>1. CASE UnlinkNode(d)
  <2>1. proc[d].udev.name \in Names
    BY <1>0, <1>1, ValueFacts DEF UnlinkNode, At, ProcOK
  <2> QED
    BY <1>0, <1>1, <2>1, ValueFacts DEF UnlinkNode
<1>2. CASE Unlink(d)
  BY <1>0, <1>2, ValueFacts DEF Unlink
<1>3. CASE Create(d) \/ Replace(d)
  BY <1>0, <1>3, ValueFacts DEF Create, Replace
<1>4. CASE Rename(d)
  <2>1. proc[d].name \in Names
    BY <1>0, <1>4 DEF Rename, At, ProcOK, Making
  <2> QED
    BY <1>0, <1>4, <2>1, ValueFacts DEF Rename
<1>5. CASE UNCHANGED <<file, tmp>>
  BY <1>0, <1>5
<1> QED
  BY <1>1, <1>2, <1>3, <1>4, <1>5
  DEF StepOf, EventProcess, BeginEvent, DbForget, Unindex, Forgotten, StatNode,
      DbOpen, Index, DbClose, DbAdded, EndEvent, Scan, Weigh, Weighed, Look, disk

\* A process comes to the rename only by making a temporary file, and leaves it
\* only by renaming that.
LEMMA RenameFacts ==
  ASSUME NodeInv, NEW d \in Devs, StepOf(d), ~Replace(d), ~Rename(d)
  PROVE  UNCHANGED tmp /\ ~At(d, "rename") /\ ~At(d, "rename")'
<1>0. d \in DOMAIN proc /\ proc[d] \in Procs
  BY DEF NodeInv, NodeTypeOK, ProcOK
<1>1. UNCHANGED tmp
  BY DEF StepOf, EventProcess, BeginEvent, DbForget, Unindex, Forgotten, StatNode,
         UnlinkNode, DbOpen, Index, DbClose, DbAdded, EndEvent, Scan, Unlink,
         Weigh, Weighed, Look, Create, disk
<1>2. ~At(d, "rename")
  BY DEF StepOf, EventProcess, BeginEvent, DbForget, Unindex, Forgotten, StatNode,
         UnlinkNode, DbOpen, Index, DbClose, DbAdded, EndEvent, Scan, Unlink,
         Weigh, Weighed, Look, Create, At
<1>3. ~At(d, "rename")'
  <2> USE <1>0 DEF Become, Go, At
  <2>1. CASE \/ \E o \in Outcomes[d] : BeginEvent(d, "add", o, FALSE)
             \/ \E keep \in BOOLEAN : BeginEvent(d, "remove", NoEntry, keep)
    <3>1. ASSUME NEW a, NEW o, NEW k, BeginEvent(d, a, o, k)
          PROVE  ~At(d, "rename")'
      <4>1. proc'[d] = [Idle EXCEPT !.pc = "get", !.action = a, !.udev = o,
                                    !.keep = k]
        BY <3>1 DEF BeginEvent
      <4> QED
        BY <4>1, ValueFacts DEF Procs
    <3> QED
      BY <2>1, <3>1
  <2>2. CASE DbForget(d)
    BY <2>2 DEF DbForget, Procs
  <2>3. CASE Unindex(d) \/ Index(d) \/ DbClose(d) \/ Weigh(d)
    <3>1. CASE Unindex(d) \/ Index(d)
      <4>1. PICK n : proc'[d] = [proc[d] EXCEPT !.names = @ \ {n}]
        BY <3>1 DEF Unindex, Index
      <4> QED
        BY <1>2, <4>1 DEF Procs
    <3>2. CASE DbClose(d)
      BY <1>2, <3>2 DEF DbClose, Procs
    <3>3. CASE Weigh(d)
      <4>1. PICK e \in proc[d].found :
              LET entry == IF e = d THEN proc[d].udev ELSE db[e]
                  rest  == [proc[d] EXCEPT !.found = @ \ {e}]
              IN  proc'[d] = IF Wins(d, e)
                             THEN [rest EXCEPT !.target = entry.name,
                                               !.prio = entry.prio]
                             ELSE rest
        BY <3>3 DEF Weigh
      <4> QED
        BY <1>2, <4>1 DEF Procs
    <3> QED
      BY <2>3, <3>1, <3>2, <3>3
  <2>4. CASE Forgotten(d) \/ Weighed(d)
    <3> DEFINE node == NodeOf(d)
               link == LinkTo(proc[d].target)
               name == proc[d].udev.name
    <3>1. \/ proc'[d] = Idle
          \/ proc'[d] = [proc[d] EXCEPT !.pc = "look", !.name = name, !.want = node]
          \/ proc'[d] = [proc[d] EXCEPT !.pc = "look", !.want = link]
          \/ proc'[d] = [proc[d] EXCEPT !.pc = "stat"]
          \/ proc'[d] = [proc[d] EXCEPT !.pc = "links"]
      BY <2>4 DEF Forgotten, Weighed
    <3> HIDE DEF node, link
    <3> QED
      BY <3>1, ValueFacts DEF Procs
  <2>5. CASE StatNode(d) \/ UnlinkNode(d) \/ DbOpen(d) \/ DbAdded(d) \/ Unlink(d)
    <3> DEFINE T == Touched(d)
               u == proc[d].udev
    <3>1. \/ proc'[d] = [proc[d] EXCEPT !.pc = "rmnode"]
          \/ proc'[d] = [proc[d] EXCEPT !.pc = "links"]
          \/ proc'[d] = [proc[d] EXCEPT !.pc = "links", !.names = T]
          \/ proc'[d] = [proc[d] EXCEPT !.pc = "index", !.names = {u.name}]
          \/ proc'[d] = [proc[d] EXCEPT !.pc = "index", !.names = u.links]
      BY <2>5 DEF StatNode, UnlinkNode, DbOpen, DbAdded, Unlink
    <3> HIDE DEF T
    <3> QED
      BY <3>1 DEF Procs
  <2>6. CASE Scan(d)
    <3>1. PICK n \in proc[d].names :
            proc'[d] = [proc[d] EXCEPT !.names = @ \ {n}, !.name = n,
                          !.found = index[n], !.target = NoName, !.prio = 0,
                          !.pc = IF index[n] = {} THEN "unlink" ELSE "weigh"]
      BY <2>6 DEF Scan
    <3> QED
      BY <3>1 DEF Procs
  <2>7. CASE EndEvent(d) \/ Look(d) \/ Create(d)
    BY <2>7, ValueFacts DEF EndEvent, Look, Create, NotMade, Made, Procs
  <2> QED
    BY <2>1, <2>2, <2>3, <2>4, <2>5, <2>6, <2>7 DEF StepOf, EventProcess
<1> QED
  BY <1>1, <1>2, <1>3

\* Every step keeps each temporary file with the one process that made it.
LEMMA TmpStep ==
  ASSUME NodeInv, NEW d \in Devs, StepOf(d)
  PROVE  TmpInv'
<1>0. /\ TmpInv /\ tmp \in [Names -> Files] /\ ProcOK(proc[d])
      /\ d \in DOMAIN proc /\ proc[d] \in Procs
      /\ \A e \in Devs : At(e, "rename") =>
           proc[e].name \in Names /\ proc[e].want.type # "none"
  BY DEF NodeInv, NodeTypeOK, ProcOK, At, Making
<1>1. \A e \in Devs \ {d} : proc'[e] = proc[e]
  BY Frame DEF NodeInv, OthersKept
<1> DEFINE n == proc[d].name
<1>2. CASE ~Replace(d) /\ ~Rename(d)
  <2>1. UNCHANGED tmp /\ ~At(d, "rename") /\ ~At(d, "rename")'
    BY <1>2, RenameFacts
  <2> QED
    BY <1>0, <1>1, <2>1 DEF TmpInv, At
<1>3. CASE Replace(d)
  <2>1. n \in Names /\ ~At(d, "rename") /\ proc[d].want.type # "none"
    BY <1>0, <1>3 DEF Replace, At, ProcOK, Making
  <2>2. CASE tmp[n] = NoFile
    <3>1. /\ tmp' = [tmp EXCEPT ![n] = proc[d].want]
          /\ proc'[d] = [proc[d] EXCEPT !.pc = "rename"]
      BY <1>0, <1>3, <2>2 DEF Replace, Go, Become
    <3>2. /\ At(d, "rename")' /\ proc'[d].name = n
          /\ proc'[d].want = proc[d].want /\ tmp'[n] = proc[d].want
      BY <1>0, <2>1, <3>1 DEF Procs, At
    <3>3. \A e \in Devs : At(e, "rename") => proc[e].name # n
      BY <1>0, <2>2, ValueFacts DEF TmpInv
    <3>4. \A m \in Names : m # n => tmp'[m] = tmp[m]
      BY <1>0, <3>1
    <3> QED
      BY <1>0, <1>1, <2>1, <3>2, <3>3, <3>4 DEF TmpInv, At
  <2>3. CASE tmp[n] # NoFile
    <3>1. UNCHANGED tmp /\ NotMade(d)
      BY <1>3, <2>3 DEF Replace
    <3>2. ~At(d, "rename")'
      BY <1>0, <3>1, ValueFacts DEF NotMade, Become, At, Procs
    <3> QED
      BY <1>0, <1>1, <2>1, <3>1, <3>2 DEF TmpInv, At
  <2> QED
    BY <2>2, <2>3
<1>4. CASE Rename(d)
  <2>1. /\ n \in Names /\ At(d, "rename")
        /\ tmp' = [tmp EXCEPT ![n] = NoFile]
        /\ proc'[d] = [proc[d] EXCEPT !.pc = Made(d)]
    BY <1>0, <1>4 DEF Rename, At, ProcOK, Making, Go, Become
  <2>2. ~At(d, "rename")'
    BY <1>0, <2>1 DEF Made, At, Procs
  <2>3. tmp'[n] = NoFile /\ \A m \in Names : m # n => tmp'[m] = tmp[m]
    BY <1>0, <2>1
  <2>4. \A e \in Devs \ {d} : At(e, "rename") => proc[e].name # n
    BY <1>0, <2>1 DEF TmpInv
  <2>5. \A m \in Names : tmp'[m] # NoFile =>
          \E e \in Devs : At(e, "rename")' /\ proc'[e].name = m
    BY <1>0, <1>1, <2>1, <2>3 DEF TmpInv, At
  <2>6. \A e \in Devs : At(e, "rename")' => tmp'[proc'[e].name] = proc'[e].want
    BY <1>0, <1>1, <2>2, <2>3, <2>4 DEF TmpInv, At
  <2>7. \A e, f \in Devs :
          At(e, "rename")' /\ At(f, "rename")' /\ proc'[e].name = proc'[f].name
            => e = f
    BY <1>0, <1>1, <2>2 DEF TmpInv, At
  <2> QED
    BY <2>5, <2>6, <2>7 DEF TmpInv
<1> QED
  BY <1>2, <1>3, <1>4
-----------------------------------------------------------------------------
(* The results.                                                            *)

\* NodeInv holds in every state: the invariant the others rest on.
THEOREM NodeInductive == NodeSpec => []NodeInv
<1>1. NodeInv /\ [NodeNext]_nodevars => NodeInv'
  <2> SUFFICES ASSUME NodeInv, [NodeNext]_nodevars PROVE NodeInv'
    OBVIOUS
  <2>1. ASSUME NEW d \in Devs, StepOf(d) PROVE NodeInv'
    <3>1. OthersKept(d)
      BY <2>1, Frame DEF NodeInv
    <3>2. Own(d)'
      BY <2>1, ForgetStep, StoreStep, LinkStep DEF StepOf, EventProcess
    <3>3. \A e \in Devs : ProcOK(proc'[e]) /\ EntryOK(db'[e]) /\ IndexInv(e)'
      BY <3>1, <3>2, OthersFacts DEF Own
    <3>4. file' \in [Names -> Files] /\ tmp' \in [Names -> Files] /\ TmpInv'
      BY <2>1, FileStep, TmpStep
    <3>5. NodeTypeOK'
      BY <3>1, <3>3, <3>4 DEF NodeTypeOK, OthersKept
    <3> QED
      BY <3>3, <3>4, <3>5 DEF NodeInv
  <2>2. CASE UNCHANGED nodevars
    BY <2>2 DEF nodevars, NodeInv, NodeTypeOK, IndexInv, IndexOf, TmpInv, At,
                MakesNode
  <2> QED
    BY <2>1, <2>2 DEF NodeNext, StepOf
<1> QED
  BY <1>1, InitOK, PTL DEF NodeSpec

\* The name index and the database say the same whenever no event is under way,
\* for any number of devices and events and however their processes interleave.
THEOREM IndexIsKept == NodeSpec => []IndexMatches
<1>1. NodeInv => IndexMatches
  <2> SUFFICES ASSUME NodeInv, Quiet, NEW n \in Names PROVE index[n] = Claims(n)
    BY DEF IndexMatches
  <2>1. index[n] \subseteq Devs /\ \A d \in Devs : EntryOK(db[d])
    BY DEF NodeInv, NodeTypeOK
  <2>2. ASSUME NEW d \in Devs PROVE d \in index[n] <=> n \in Claimed(db[d])
    <3>1. At(d, "idle")
      BY DEF Quiet, Running
    <3> QED
      BY <3>1 DEF NodeInv, IndexInv, IndexOf, At
  <2> QED
    BY <2>1, <2>2 DEF Claims, Claimed
<1> QED
  BY <1>1, NodeInductive, PTL

\* No process takes over a temporary file of another, or leaves one behind.
THEOREM TmpFilesAreOwned == NodeSpec => []TmpIsOwned
<1>1. NodeInv => TmpIsOwned
  BY DEF NodeInv, TmpInv, TmpIsOwned
<1> QED
  BY <1>1, NodeInductive, PTL
-----------------------------------------------------------------------------
(* An event that runs alone.                                               *)

\* d is at its links, the node being made or gone; what it has still to do.
Linking(d) == proc[d].pc \in {"links", "unlink", "weigh"}
                \/ (proc[d].pc \in Making /\ ~MakesNode(d))
Todo(d)    == proc[d].names \cup (IF At(d, "links") THEN {} ELSE {proc[d].name})

\* What a process is about to store and to make.
MakeInv(d) ==
  /\ ~At(d, "idle") => proc[d].action \in {"add", "remove"}
  /\ proc[d].pc \in {"stat", "rmnode"} =>
       proc[d].action = "remove" /\ db[d] = NoEntry
  /\ proc[d].pc \in Making /\ MakesNode(d) =>
       proc[d].name = proc[d].udev.name /\ proc[d].want = NodeOf(d)
  /\ At(d, "index") \/ Linking(d) =>
       \/ db[d] \in {NoEntry, Opened, proc[d].udev}
       \/ /\ proc[d].udev.links = {} /\ db[d].links = {}
          /\ db[d].name = proc[d].udev.name

\* Only names of devices are names of nodes.
NodesOnly == \A n \in Names : file[n].type = "node" \/ tmp[n].type = "node" =>
               n \in NodeNames

\* Nobody claims n with a higher priority than e.
Best(e, C) == e \in C /\ \A f \in C : db[f].prio <= db[e].prio

\* The best of the devices weighed so far.
Weighing(d) ==
  LET p == proc[d]
      C == Claims(p.name)
  IN  /\ p.found \subseteq C /\ C # {}
      /\ IF p.target = NoName THEN p.found = C
         ELSE \E e \in C : /\ Best(e, C \ p.found)
                           /\ p.target = db[e].name /\ p.prio = db[e].prio

\* As long as no other event runs, the node is there, the links done so far
\* are right, and what update_link has found is still so.
AloneInv(d) ==
  alone[d] /\ ~At(d, "idle") =>
    /\ \A e \in Devs \ {d} : At(e, "idle")
    /\ proc[d].action = "add" /\ (At(d, "store") \/ At(d, "index") \/ Linking(d))
         => file[proc[d].udev.name] = NodeOf(d)
    /\ Linking(d) =>
         /\ Todo(d) \subseteq Touched(d)
         /\ \A n \in Touched(d) \ Todo(d) :
              (\A e \in Devs \ {d} : db[e].name # n) => Right(n)
    /\ At(d, "unlink") => Claims(proc[d].name) = {}
    /\ At(d, "weigh") => Weighing(d)
    /\ proc[d].pc \in Making /\ ~MakesNode(d) =>
         \E e \in Claims(proc[d].name) :
           /\ Best(e, Claims(proc[d].name))
           /\ proc[d].want = LinkTo(db[e].name)

RightInv == /\ NodesOnly /\ DOMAIN alone = Devs
            /\ \A d \in Devs : MakeInv(d) /\ AloneInv(d)

\* A step that keeps what the event is about.
Same(d) == /\ proc'[d].udev = proc[d].udev /\ proc'[d].old = proc[d].old
           /\ proc'[d].action = proc[d].action

\* The fields that a step of d changes, for the steps from the store on.
LEMMA StepFields ==
  ASSUME NodeInv, NEW d \in Devs
  PROVE  /\ EndEvent(d) => proc'[d] = Idle
         /\ Scan(d) => \E n \in proc[d].names :
              /\ Same(d) /\ proc'[d].names = proc[d].names \ {n}
              /\ proc'[d].name = n /\ proc'[d].found = index[n]
              /\ proc'[d].target = NoName
              /\ proc'[d].pc = IF index[n] = {} THEN "unlink" ELSE "weigh"
         /\ Unlink(d) => /\ Same(d) /\ proc'[d].pc = "links"
                         /\ proc'[d].names = proc[d].names
         /\ Weigh(d) => \E e \in proc[d].found :
              /\ Same(d) /\ proc'[d].names = proc[d].names
              /\ proc'[d].pc = "weigh" /\ proc'[d].name = proc[d].name
              /\ proc'[d].found = proc[d].found \ {e}
              /\ LET entry == IF e = d THEN proc[d].udev ELSE db[e]
                 IN  IF Wins(d, e)
                     THEN proc'[d].target = entry.name /\ proc'[d].prio = entry.prio
                     ELSE /\ proc'[d].target = proc[d].target
                          /\ proc'[d].prio = proc[d].prio
         /\ Weighed(d) =>
              /\ Same(d) /\ proc'[d].names = proc[d].names
              /\ proc'[d].name = proc[d].name
              /\ \/ proc[d].target = NoName /\ proc'[d].pc = "links"
                 \/ /\ proc[d].target # NoName /\ proc'[d].pc = "look"
                    /\ proc'[d].want = LinkTo(proc[d].target)
<1>0. d \in DOMAIN proc /\ proc[d] \in Procs
  BY DEF NodeInv, NodeTypeOK, ProcOK
<1>a. DOMAIN proc[d] = {"pc", "action", "udev", "old", "keep", "names", "name",
                        "want", "found", "target", "prio"}
  BY <1>0 DEF Procs
<1> USE DEF Same, Become, Go
<1>1. EndEvent(d) => proc'[d] = Idle
  BY <1>0 DEF EndEvent
<1>2. ASSUME Scan(d)
      PROVE \E n \in proc[d].names :
              /\ Same(d) /\ proc'[d].names = proc[d].names \ {n}
              /\ proc'[d].name = n /\ proc'[d].found = index[n]
              /\ proc'[d].target = NoName
              /\ proc'[d].pc = IF index[n] = {} THEN "unlink" ELSE "weigh"
  <2>1. PICK n \in proc[d].names :
          proc'[d] = [proc[d] EXCEPT !.names = @ \ {n}, !.name = n,
                        !.found = index[n], !.target = NoName, !.prio = 0,
                        !.pc = IF index[n] = {} THEN "unlink" ELSE "weigh"]
    BY <1>0, <1>2 DEF Scan
  <2> QED
    BY <1>a, <2>1
<1>3. Unlink(d) => /\ Same(d) /\ proc'[d].pc = "links"
                   /\ proc'[d].names = proc[d].names
  BY <1>0, <1>a DEF Unlink
<1>4. ASSUME Weigh(d)
      PROVE \E e \in proc[d].found :
              /\ Same(d) /\ proc'[d].names = proc[d].names
              /\ proc'[d].pc = "weigh" /\ proc'[d].name = proc[d].name
              /\ proc'[d].found = proc[d].found \ {e}
              /\ LET entry == IF e = d THEN proc[d].udev ELSE db[e]
                 IN  IF Wins(d, e)
                     THEN proc'[d].target = entry.name /\ proc'[d].prio = entry.prio
                     ELSE /\ proc'[d].target = proc[d].target
                          /\ proc'[d].prio = proc[d].prio
  <2> DEFINE Entry(e) == IF e = d THEN proc[d].udev ELSE db[e]
             Rest(e)  == [proc[d] EXCEPT !.found = @ \ {e}]
  <2>1. PICK e \in proc[d].found :
          proc'[d] = IF Wins(d, e)
                     THEN [Rest(e) EXCEPT !.target = Entry(e).name,
                                          !.prio = Entry(e).prio]
                     ELSE Rest(e)
    BY <1>0, <1>4 DEF Weigh
  <2>2. proc[d].pc = "weigh"
    BY <1>4 DEF Weigh, At
  <2>3. /\ DOMAIN Rest(e) = DOMAIN proc[d]
        /\ Rest(e).udev = proc[d].udev /\ Rest(e).old = proc[d].old
        /\ Rest(e).action = proc[d].action /\ Rest(e).names = proc[d].names
        /\ Rest(e).pc = "weigh" /\ Rest(e).name = proc[d].name
        /\ Rest(e).found = proc[d].found \ {e}
        /\ Rest(e).target = proc[d].target /\ Rest(e).prio = proc[d].prio
    BY <1>a, <2>2
  <2> HIDE DEF Rest
  <2>4. CASE Wins(d, e)
    <3> DEFINE t == Entry(e).name
               r == Entry(e).prio
    <3>1. proc'[d] = [Rest(e) EXCEPT !.target = t, !.prio = r]
      BY <2>1, <2>4
    <3> HIDE DEF t, r
    <3>2. proc'[d].target = t /\ proc'[d].prio = r
      BY <1>a, <2>3, <3>1
    <3>3. /\ Same(d) /\ proc'[d].names = proc[d].names
          /\ proc'[d].pc = "weigh" /\ proc'[d].name = proc[d].name
          /\ proc'[d].found = proc[d].found \ {e}
      BY <1>a, <2>3, <3>1
    <3> QED
      BY <2>4, <3>2, <3>3 DEF t, r
  <2>5. CASE ~Wins(d, e)
    BY <2>1, <2>3, <2>5
  <2> QED
    BY <2>4, <2>5
<1>5. ASSUME Weighed(d)
      PROVE  /\ Same(d) /\ proc'[d].names = proc[d].names
             /\ proc'[d].name = proc[d].name
             /\ \/ proc[d].target = NoName /\ proc'[d].pc = "links"
                \/ /\ proc[d].target # NoName /\ proc'[d].pc = "look"
                   /\ proc'[d].want = LinkTo(proc[d].target)
  <2> DEFINE w == LinkTo(proc[d].target)
  <2>1. IF proc[d].target = NoName THEN proc'[d] = [proc[d] EXCEPT !.pc = "links"]
        ELSE proc'[d] = [proc[d] EXCEPT !.pc = "look", !.want = w]
    BY <1>0, <1>5 DEF Weighed
  <2> HIDE DEF w
  <2>2. /\ Same(d) /\ proc'[d].names = proc[d].names
        /\ proc'[d].name = proc[d].name
        /\ \/ proc[d].target = NoName /\ proc'[d].pc = "links"
           \/ /\ proc[d].target # NoName /\ proc'[d].pc = "look"
              /\ proc'[d].want = w
    BY <1>a, <2>1
  <2> QED
    BY <2>2 DEF w
<1> QED
  BY <1>1, <1>2, <1>3, <1>4, <1>5

\* Making a file ends in the next label, or, when it cannot be made, where a
\* node's event ends and a link is passed over.
LEMMA MakeFields ==
  ASSUME NodeInv, NEW d \in Devs,
         Look(d) \/ Create(d) \/ Replace(d) \/ Rename(d)
  PROVE  /\ proc[d].pc \in Making
         /\ \/ MakesNode(d) /\ proc'[d] = Idle
            \/ /\ Same(d) /\ proc'[d].names = proc[d].names
               /\ proc'[d].name = proc[d].name /\ proc'[d].want = proc[d].want
               /\ proc'[d].pc \in Making \cup {Made(d)}
<1>0. d \in DOMAIN proc /\ proc[d] \in Procs
  BY DEF NodeInv, NodeTypeOK, ProcOK
<1>a. DOMAIN proc[d] = {"pc", "action", "udev", "old", "keep", "names", "name",
                        "want", "found", "target", "prio"}
  BY <1>0 DEF Procs
<1>1. /\ proc[d].pc \in Making
      /\ \/ MakesNode(d) /\ proc'[d] = Idle
         \/ \E label \in Making \cup {Made(d)} :
              proc'[d] = [proc[d] EXCEPT !.pc = label]
  BY <1>0 DEF Look, Create, Replace, Rename, NotMade, Made, Go, Become, At, Making
<1>2. ASSUME NEW label \in Making \cup {Made(d)},
             proc'[d] = [proc[d] EXCEPT !.pc = label]
      PROVE  /\ Same(d) /\ proc'[d].names = proc[d].names
             /\ proc'[d].name = proc[d].name /\ proc'[d].want = proc[d].want
             /\ proc'[d].pc = label
  BY <1>a, <1>2 DEF Same
<1> QED
  BY <1>1, <1>2

\* The fields that a step of d changes, for the steps up to the links.
LEMMA EventFields ==
  ASSUME NodeInv, NEW d \in Devs
  PROVE  /\ \A a, o, k : BeginEvent(d, a, o, k) =>
              proc'[d].pc = "get" /\ proc'[d].action = a
         /\ DbForget(d) => /\ proc'[d].action = proc[d].action
                           /\ proc'[d].pc = "unindex"
         /\ Unindex(d) => Same(d) /\ proc'[d].pc = "unindex"
         /\ Forgotten(d) =>
              \/ proc'[d] = Idle
              \/ /\ Same(d) /\ proc[d].action = "remove" /\ proc'[d].pc = "stat"
              \/ /\ Same(d) /\ proc[d].action # "remove" /\ proc'[d].pc = "look"
                 /\ proc'[d].name = proc[d].udev.name
                 /\ proc'[d].want = NodeOf(d)
         /\ StatNode(d) \/ UnlinkNode(d) \/ DbAdded(d) =>
              /\ Same(d)
              /\ \/ StatNode(d) /\ proc'[d].pc = "rmnode"
                 \/ proc'[d].pc = "links" /\ proc'[d].names = Touched(d)
         /\ DbOpen(d) \/ Index(d) \/ DbClose(d) => Same(d) /\ proc'[d].pc = "index"
<1>0. d \in DOMAIN proc /\ proc[d] \in Procs
  BY DEF NodeInv, NodeTypeOK, ProcOK
<1>a. /\ DOMAIN proc[d] = {"pc", "action", "udev", "old", "keep", "names", "name",
                           "want", "found", "target", "prio"}
      /\ DOMAIN Idle = DOMAIN proc[d]
  BY <1>0, ValueFacts DEF Procs
<1> USE DEF Same, Become
<1>1. ASSUME NEW a, NEW o, NEW k, BeginEvent(d, a, o, k)
      PROVE  proc'[d].pc = "get" /\ proc'[d].action = a
  <2>1. proc'[d] = [Idle EXCEPT !.pc = "get", !.action = a, !.udev = o, !.keep = k]
    BY <1>0, <1>1 DEF BeginEvent
  <2> QED
    BY <1>a, <2>1
<1>2. ASSUME DbForget(d)
      PROVE  proc'[d].action = proc[d].action /\ proc'[d].pc = "unindex"
  <2> DEFINE p == proc[d]
             e == db[d]
             u == IF p.action = "add" THEN p.udev
                  ELSE IF e # NoEntry THEN e
                  ELSE [NoEntry EXCEPT !.name = Kernel[d]]
             k == p.keep \/ (p.action = "remove" /\ e.ignore_remove)
             N == IF e = NoEntry THEN {} ELSE {e.name} \cup e.links
  <2>1. proc'[d] = [p EXCEPT !.udev = u, !.old = e, !.pc = "unindex", !.keep = k,
                             !.names = N]
    BY <1>0, <1>2 DEF DbForget
  <2> HIDE DEF u, k, N
  <2> QED
    BY <1>a, <2>1
<1>3. Unindex(d) => Same(d) /\ proc'[d].pc = "unindex"
  BY <1>0, <1>a DEF Unindex, At
<1>4. ASSUME Forgotten(d)
      PROVE  \/ proc'[d] = Idle
             \/ /\ Same(d) /\ proc[d].action = "remove" /\ proc'[d].pc = "stat"
             \/ /\ Same(d) /\ proc[d].action # "remove" /\ proc'[d].pc = "look"
                /\ proc'[d].name = proc[d].udev.name
                /\ proc'[d].want = NodeOf(d)
  <2> DEFINE w == NodeOf(d)
             m == proc[d].udev.name
  <2>1. \/ proc'[d] = Idle
        \/ proc[d].action = "remove" /\ proc'[d] = [proc[d] EXCEPT !.pc = "stat"]
        \/ /\ proc[d].action # "remove"
           /\ proc'[d] = [proc[d] EXCEPT !.pc = "look", !.name = m, !.want = w]
    BY <1>0, <1>4 DEF Forgotten
  <2> HIDE DEF w, m
  <2>2. \/ proc'[d] = Idle
        \/ /\ Same(d) /\ proc[d].action = "remove" /\ proc'[d].pc = "stat"
        \/ /\ Same(d) /\ proc[d].action # "remove" /\ proc'[d].pc = "look"
           /\ proc'[d].name = m /\ proc'[d].want = w
    BY <1>a, <2>1
  <2> QED
    BY <2>2 DEF w, m
<1>5. ASSUME StatNode(d) \/ UnlinkNode(d) \/ DbAdded(d)
      PROVE  /\ Same(d)
             /\ \/ StatNode(d) /\ proc'[d].pc = "rmnode"
                \/ proc'[d].pc = "links" /\ proc'[d].names = Touched(d)
  <2> DEFINE T == Touched(d)
  <2>1. \/ StatNode(d) /\ proc'[d] = [proc[d] EXCEPT !.pc = "rmnode"]
        \/ proc'[d] = [proc[d] EXCEPT !.pc = "links", !.names = T]
    BY <1>0, <1>5 DEF StatNode, UnlinkNode, DbAdded
  <2> HIDE DEF T
  <2>2. /\ Same(d)
        /\ \/ StatNode(d) /\ proc'[d].pc = "rmnode"
           \/ proc'[d].pc = "links" /\ proc'[d].names = T
    BY <1>a, <2>1
  <2> QED
    BY <2>2 DEF T
<1>6. ASSUME DbOpen(d) \/ Index(d) \/ DbClose(d)
      PROVE  Same(d) /\ proc'[d].pc = "index"
  <2> DEFINE u == proc[d].udev
  <2>1. CASE DbOpen(d)
    <3>1. \/ proc'[d] = [proc[d] EXCEPT !.pc = "index", !.names = {u.name}]
          \/ proc'[d] = [proc[d] EXCEPT !.pc = "index", !.names = u.links]
      BY <1>0, <2>1 DEF DbOpen
    <3> QED
      BY <1>a, <3>1
  <2>2. CASE Index(d)
    BY <1>0, <1>a, <2>2 DEF Index, At
  <2>3. CASE DbClose(d)
    BY <1>0, <1>a, <2>3 DEF DbClose, At
  <2> QED
    BY <1>6, <2>1, <2>2, <2>3
<1> QED
  BY <1>1, <1>2, <1>3, <1>4, <1>5, <1>6

\* Every step of d keeps what is known of the entry and of the file it makes.
LEMMA MakeStep ==
  ASSUME NodeInv, NEW d \in Devs, MakeInv(d), StepOf(d)
  PROVE  MakeInv(d)'
<1>0. /\ d \in DOMAIN db /\ ProcOK(proc[d]) /\ IndexInv(d)
      /\ proc[d] \in Procs /\ proc[d].udev \in Entries
  BY DEF NodeInv, NodeTypeOK, ProcOK, Procs
<1> USE DEF At, Making
<1>1. CASE \/ \E o \in Outcomes[d] : BeginEvent(d, "add", o, FALSE)
           \/ \E keep \in BOOLEAN : BeginEvent(d, "remove", NoEntry, keep)
  <2>1. proc'[d].pc = "get" /\ proc'[d].action \in {"add", "remove"}
    BY <1>1, EventFields
  <2> QED
    BY <2>1 DEF MakeInv, Linking, Making
<1>2. CASE DbForget(d) \/ Unindex(d)
  <2>1. /\ proc'[d].pc = "unindex" /\ proc'[d].action = proc[d].action
        /\ proc[d].pc # "idle"
    BY <1>2, EventFields DEF Same, DbForget, Unindex
  <2> QED
    BY <2>1 DEF MakeInv, Linking, Making
<1>3. CASE Forgotten(d)
  <2>1. proc[d].pc = "unindex" /\ db'[d] = NoEntry
    BY <1>0, <1>3 DEF Forgotten, IndexInv, disk
  <2>2. \/ proc'[d] = Idle
        \/ /\ Same(d) /\ proc[d].action = "remove" /\ proc'[d].pc = "stat"
        \/ /\ Same(d) /\ proc[d].action # "remove" /\ proc'[d].pc = "look"
           /\ proc'[d].name = proc[d].udev.name
           /\ proc'[d].want = NodeOf(d)
    BY <1>3, EventFields
  <2>3. proc'[d] = Idle => MakeInv(d)'
    BY ValueFacts DEF MakeInv, Linking, Making
  <2> QED
    BY <2>1, <2>2, <2>3, ValueFacts DEF MakeInv, Linking, Making, MakesNode, Same
<1>4. CASE StatNode(d) \/ UnlinkNode(d)
  <2>1. /\ proc[d].pc \in {"stat", "rmnode"} /\ UNCHANGED db
        /\ Same(d) /\ proc'[d].pc \in {"rmnode", "links"}
    BY <1>4, EventFields DEF StatNode, UnlinkNode, disk
  <2> QED
    BY <2>1 DEF MakeInv, Linking, Making, MakesNode, Same
<1>5. CASE DbOpen(d)
  <2>1. Same(d) /\ proc'[d].pc = "index" /\ proc[d].pc = "store"
    BY <1>5, EventFields DEF DbOpen
  <2>2. \/ db'[d] = Opened
        \/ /\ proc[d].udev.links = {} /\ db'[d].links = {}
           /\ db'[d].name = proc[d].udev.name
    BY <1>0, <1>5 DEF DbOpen, Entries
  <2> QED
    BY <2>1, <2>2 DEF MakeInv, Linking, Making, MakesNode, Same
<1>6. CASE Index(d) \/ DbAdded(d)
  <2>1. /\ Same(d) /\ proc'[d].pc \in {"index", "links"} /\ proc[d].pc = "index"
        /\ UNCHANGED db
    BY <1>6, EventFields DEF Index, DbAdded, StatNode, UnlinkNode, disk
  <2> QED
    BY <2>1 DEF MakeInv, Linking, Making, MakesNode, Same
<1>7. CASE DbClose(d)
  <2>1. /\ Same(d) /\ proc'[d].pc = "index" /\ proc[d].pc = "index"
        /\ db'[d] = proc[d].udev
    BY <1>0, <1>7, EventFields DEF DbClose
  <2> QED
    BY <2>1 DEF MakeInv, Linking, Making, MakesNode, Same
<1>8. CASE EndEvent(d)
  <2>1. proc'[d] = Idle
    BY <1>8, StepFields
  <2> QED
    BY <2>1, ValueFacts DEF MakeInv, Linking, Making
<1>9. CASE Scan(d) \/ Unlink(d) \/ Weigh(d)
  <2>1. /\ Same(d) /\ UNCHANGED db
        /\ proc[d].pc \in {"links", "unlink", "weigh"}
        /\ proc'[d].pc \in {"links", "unlink", "weigh"}
    BY <1>9, StepFields DEF Scan, Unlink, Weigh, disk
  <2> QED
    BY <2>1 DEF MakeInv, Linking, Making, MakesNode, Same
<1>10. CASE Weighed(d)
  <2>1. /\ Same(d) /\ UNCHANGED db /\ proc[d].pc = "weigh"
        /\ \/ proc'[d].pc = "links"
           \/ proc'[d].pc = "look" /\ proc'[d].want = LinkTo(proc[d].target)
    BY <1>10, StepFields DEF Weighed, disk
  <2>2. LinkTo(proc[d].target).type # "node"
    BY DEF LinkTo
  <2> QED
    BY <2>1, <2>2 DEF MakeInv, Linking, Making, MakesNode, Same
<1>11. CASE Look(d) \/ Create(d) \/ Replace(d) \/ Rename(d)
  <2>1. UNCHANGED db
    BY <1>11 DEF Look, Create, Replace, Rename, disk
  <2>2. /\ proc[d].pc \in Making
        /\ \/ MakesNode(d) /\ proc'[d] = Idle
           \/ /\ Same(d) /\ proc'[d].names = proc[d].names
              /\ proc'[d].name = proc[d].name /\ proc'[d].want = proc[d].want
              /\ proc'[d].pc \in Making \cup {Made(d)}
    BY <1>11, MakeFields
  <2>3. proc'[d] = Idle => MakeInv(d)'
    BY ValueFacts DEF MakeInv, Linking, Making
  <2> QED
    BY <2>1, <2>2, <2>3 DEF MakeInv, Linking, Making, MakesNode, Made, Same
<1> QED
  BY <1>1, <1>2, <1>3, <1>4, <1>5, <1>6, <1>7, <1>8, <1>9, <1>10, <1>11
  DEF StepOf, EventProcess

\* Nodes are made under names of devices only.
LEMMA NodesStep ==
  ASSUME NodeInv, NodesOnly, NEW d \in Devs, MakeInv(d), StepOf(d)
  PROVE  NodesOnly'
<1>0. /\ file \in [Names -> Files] /\ tmp \in [Names -> Files] /\ ProcOK(proc[d])
  BY DEF NodeInv, NodeTypeOK
<1> USE DEF NodesOnly
<1>1. CASE UnlinkNode(d) \/ Unlink(d)
  BY <1>0, <1>1, ValueFacts DEF UnlinkNode, Unlink
<1>2. CASE Create(d) \/ Replace(d)
  <2>1. proc[d].want.type = "node" => proc[d].name \in NodeNames
    BY <1>0, <1>2 DEF Create, Replace, At, Making, ProcOK, MakeInv, MakesNode
  <2> QED
    BY <1>0, <1>2, <2>1 DEF Create, Replace
<1>3. CASE Rename(d)
  <2>1. proc[d].name \in Names
    BY <1>0, <1>3 DEF Rename, At, Making, ProcOK
  <2> QED
    BY <1>0, <1>3, <2>1, ValueFacts DEF Rename
<1>4. CASE UNCHANGED <<file, tmp>>
  BY <1>4
<1> QED
  BY <1>1, <1>2, <1>3, <1>4
  DEF StepOf, EventProcess, BeginEvent, DbForget, Unindex, Forgotten, StatNode,
      DbOpen, Index, DbClose, DbAdded, EndEvent, Scan, Weigh, Weighed, Look, disk

\* An event that runs alone: the situation of the lemmas that follow.
Lone(d) == /\ NodeInv /\ MakeInv(d) /\ NodesOnly /\ AloneInv(d)
           /\ alone[d] /\ ~At(d, "idle")

\* The names an event touches are not its device's own.
LEMMA TouchedFacts ==
  ASSUME NodeInv, NEW d \in Devs, proc[d].pc \notin {"idle", "get"}
  PROVE  /\ Touched(d) \subseteq Names /\ proc[d].udev.name \notin Touched(d)
         /\ proc[d].udev.name \in NodeNames
<1>1. /\ proc[d].udev \in Entries /\ proc[d].old \in Entries
      /\ proc[d].udev.name \in NodeNames
      /\ proc[d].old = NoEntry \/ proc[d].old.name \in NodeNames
  BY DEF NodeInv, NodeTypeOK, ProcOK, Procs
<1> QED
  BY <1>1, ValueFacts DEF Touched, Entries

\* The index under n is what the entries claim; an entry that claims a name the
\* event touches is that of the event.
LEMMA LoneFacts ==
  ASSUME NEW d \in Devs, Lone(d), Linking(d)
  PROVE  /\ \A n \in Names : index[n] = Claims(n)
         /\ \A n \in Touched(d) : d \in Claims(n) => db[d] = proc[d].udev
         /\ \A n \in Touched(d) : db[d].name # n
         /\ \A n : \A e \in Claims(n) : db[e].name \in NodeNames /\ e \in Devs
         /\ \A e \in Devs : db[e].prio \in Int
<1>0. /\ \A e \in Devs : IndexInv(e) /\ EntryOK(db[e]) /\ db[e] \in Entries
      /\ index \in [Names -> SUBSET Devs] /\ ProcOK(proc[d]) /\ MakeInv(d)
  BY DEF Lone, NodeInv, NodeTypeOK, EntryOK
<1>1. /\ \A e \in Devs \ {d} : At(e, "idle")
      /\ ~At(d, "unindex") /\ ~At(d, "index") /\ proc[d].pc \notin {"idle", "get"}
  BY DEF Lone, AloneInv, Linking, At, Making
<1>2. \A e \in Devs : db[e] # Opened /\ IndexOf(e) = Claimed(db[e])
  BY <1>0, <1>1 DEF IndexInv, At
<1>3. \A n \in Names : index[n] = Claims(n)
  BY <1>0, <1>2 DEF Claims, Claimed, IndexOf
<1>4. \A n : \A e \in Claims(n) : db[e].name \in NodeNames /\ e \in Devs
  BY <1>0, ClaimFacts DEF Claims
<1>5. \A n \in Touched(d) : db[d].name # n
  <2>1. db[d].name \in {NoName, proc[d].udev.name}
    BY <1>0, <1>2, ValueFacts DEF MakeInv
  <2> QED
    BY <1>1, <2>1, TouchedFacts, ValueFacts DEF Lone
<1>6. \A n \in Touched(d) : d \in Claims(n) => db[d] = proc[d].udev
  BY <1>0, <1>5 DEF Claims, MakeInv
<1> QED
  BY <1>0, <1>3, <1>4, <1>5, <1>6 DEF Entries

\* A step that changes the file of at most one name still to be done, and leaves
\* right what it takes off the names to be done.
LEMMA LinkingKept ==
  ASSUME NEW d \in Devs, Lone(d), Linking(d), StepOf(d), Same(d),
         UNCHANGED <<db, alone>>, Linking(d)',
         \A m \in Names \ Todo(d) : file'[m] = file[m],
         Todo(d)' \subseteq Todo(d),
         \A m \in Todo(d) \ Todo(d)' :
           (\A e \in Devs \ {d} : db[e].name # m) => Right(m)'
  PROVE  /\ \A e \in Devs \ {d} : At(e, "idle")'
         /\ (proc[d].action = "add" => file[proc[d].udev.name] = NodeOf(d))'
         /\ Todo(d)' \subseteq Touched(d)'
         /\ \A n \in Touched(d)' \ Todo(d)' :
              (\A e \in Devs \ {d} : db'[e].name # n) => Right(n)'
<1>1. proc[d].pc \notin {"idle", "get"}
  BY DEF Linking, Making
<1>2. /\ \A e \in Devs \ {d} : At(e, "idle")
      /\ proc[d].action = "add" => file[proc[d].udev.name] = NodeOf(d)
      /\ Todo(d) \subseteq Touched(d)
      /\ \A n \in Touched(d) \ Todo(d) :
           (\A e \in Devs \ {d} : db[e].name # n) => Right(n)
  BY DEF Lone, AloneInv
<1>3. Touched(d)' = Touched(d)
  BY DEF Touched, Same
<1>4. \A e \in Devs \ {d} : At(e, "idle")'
  <2>1. OthersKept(d)
    BY Frame DEF Lone, NodeInv
  <2> QED
    BY <1>2, <2>1 DEF OthersKept, At
<1>5. /\ Touched(d) \subseteq Names /\ proc[d].udev.name \in Names \ Todo(d)
  BY <1>1, <1>2, TouchedFacts, ValueFacts DEF Lone
<1>6. (proc[d].action = "add" => file[proc[d].udev.name] = NodeOf(d))'
  BY <1>2, <1>5 DEF Same, NodeOf
<1>7. \A n \in Touched(d) \ Todo(d) :
        (\A e \in Devs \ {d} : db[e].name # n) => Right(n)'
  <2> SUFFICES ASSUME NEW n \in Names \ Todo(d), Right(n) PROVE Right(n)'
    BY <1>2, <1>5
  <2>1. file'[n] = file[n] /\ Claims(n)' = Claims(n)
    BY DEF Claims
  <2> QED
    BY <2>1 DEF Right
<1> QED
  BY <1>2, <1>3, <1>4, <1>6, <1>7

\* From the start of the event to its links.
LEMMA AloneBefore ==
  ASSUME NEW d \in Devs, NodeInv, MakeInv(d), DOMAIN alone = Devs, AloneInv(d),
         StepOf(d),
         \/ \E o \in Outcomes[d] : BeginEvent(d, "add", o, FALSE)
         \/ \E keep \in BOOLEAN : BeginEvent(d, "remove", NoEntry, keep)
         \/ DbForget(d) \/ Unindex(d) \/ Forgotten(d) \/ StatNode(d)
         \/ UnlinkNode(d) \/ DbOpen(d) \/ Index(d) \/ DbClose(d) \/ DbAdded(d)
         \/ EndEvent(d)
  PROVE  AloneInv(d)'
<1>0. \A e \in Devs \ {d} : proc'[e] = proc[e]
  BY Frame DEF NodeInv, OthersKept
<1> SUFFICES ASSUME alone'[d], ~At(d, "idle")' PROVE AloneInv(d)'
  BY DEF AloneInv
<1> USE DEF At, Making
<1>1. CASE \/ \E o \in Outcomes[d] : BeginEvent(d, "add", o, FALSE)
           \/ \E keep \in BOOLEAN : BeginEvent(d, "remove", NoEntry, keep)
  <2>1. proc'[d].pc = "get"
    BY <1>1, EventFields
  <2>2. Running = {}
    BY <1>1 DEF BeginEvent
  <2>3. \A e \in Devs \ {d} : At(e, "idle")'
    BY <1>0, <2>2 DEF Running
  <2> QED
    BY <2>1, <2>3 DEF AloneInv, Linking
<1>2. ASSUME ~At(d, "idle"), UNCHANGED alone
      PROVE  \A e \in Devs \ {d} : At(e, "idle")'
  BY <1>0, <1>2 DEF AloneInv
<1>3. CASE DbForget(d) \/ Unindex(d)
  <2>1. /\ proc'[d].pc = "unindex" /\ ~At(d, "idle") /\ UNCHANGED alone
    BY <1>3, EventFields DEF DbForget, Unindex
  <2> QED
    BY <1>2, <2>1 DEF AloneInv, Linking
<1>4. CASE Forgotten(d)
  <2>1. ~At(d, "idle") /\ UNCHANGED alone
    BY <1>4 DEF Forgotten
  <2>2. \/ proc'[d].pc = "stat"
        \/ proc'[d].pc = "look" /\ MakesNode(d)'
    <3>1. \/ proc'[d] = Idle
          \/ /\ Same(d) /\ proc[d].action = "remove" /\ proc'[d].pc = "stat"
          \/ /\ Same(d) /\ proc[d].action # "remove" /\ proc'[d].pc = "look"
             /\ proc'[d].name = proc[d].udev.name
             /\ proc'[d].want = NodeOf(d)
      BY <1>4, EventFields
    <3> QED
      BY <3>1, ValueFacts DEF MakesNode
  <2> QED
    BY <1>2, <2>1, <2>2 DEF AloneInv, Linking
<1>5. ASSUME StatNode(d) \/ UnlinkNode(d) \/ DbAdded(d)
      PROVE  /\ ~At(d, "idle") /\ UNCHANGED alone /\ Same(d)
             /\ \/ StatNode(d) /\ proc'[d].pc = "rmnode"
                \/ proc'[d].pc = "links" /\ proc'[d].names = Touched(d)
                   /\ Todo(d)' = Touched(d)'
  <2>1. /\ Same(d)
        /\ \/ StatNode(d) /\ proc'[d].pc = "rmnode"
           \/ proc'[d].pc = "links" /\ proc'[d].names = Touched(d)
    BY <1>5, EventFields
  <2>2. Touched(d)' = Touched(d)
    BY <2>1 DEF Same, Touched
  <2>3. ~At(d, "idle") /\ UNCHANGED alone
    BY <1>5 DEF StatNode, UnlinkNode, DbAdded
  <2> QED
    BY <2>1, <2>2, <2>3 DEF Todo
<1>6. CASE StatNode(d) \/ UnlinkNode(d)
  <2>1. proc'[d].action = "remove"
    BY <1>5, <1>6 DEF Same, MakeInv, StatNode, UnlinkNode
  <2> QED
    BY <1>2, <1>5, <1>6, <2>1 DEF AloneInv, Linking
<1>7. CASE DbAdded(d)
  <2>1. /\ proc[d].pc = "index" /\ UNCHANGED file
        /\ proc'[d].pc = "links" /\ Todo(d)' = Touched(d)'
    BY <1>5, <1>7 DEF DbAdded, StatNode, disk
  <2>2. proc'[d].action = "add" => file'[proc'[d].udev.name] = NodeOf(d)
    BY <1>5, <1>7, <2>1 DEF AloneInv, Same
  <2> QED
    BY <1>2, <1>5, <1>7, <2>1, <2>2 DEF AloneInv, NodeOf
<1>8. CASE DbOpen(d) \/ Index(d) \/ DbClose(d)
  <2>1. /\ proc[d].pc \in {"store", "index"} /\ UNCHANGED <<file, alone>>
    BY <1>8 DEF DbOpen, Index, DbClose
  <2>2. Same(d) /\ proc'[d].pc = "index"
    BY <1>8, EventFields
  <2> QED
    BY <1>2, <2>1, <2>2 DEF AloneInv, Linking, Same, NodeOf
<1>9. CASE EndEvent(d)
  <2>1. proc'[d] = Idle
    BY <1>9, StepFields
  <2> QED
    BY <2>1, ValueFacts
<1> QED
  BY <1>1, <1>3, <1>4, <1>6, <1>7, <1>8, <1>9

\* A name is looked up, or removed because nobody claims it.
LEMMA AloneScan ==
  ASSUME NEW d \in Devs, Lone(d), StepOf(d), Scan(d) \/ Unlink(d)
  PROVE  AloneInv(d)'
<1>0. /\ file \in [Names -> Files] /\ proc[d].pc \in {"links", "unlink"}
      /\ ProcOK(proc[d]) /\ Linking(d) /\ UNCHANGED <<db, alone>>
      /\ proc[d].names \subseteq Names
  BY DEF Lone, NodeInv, NodeTypeOK, Scan, Unlink, At, Linking, disk, ProcOK, Procs
<1>a. \A n : Claims(n)' = Claims(n)
  BY <1>0 DEF Claims
<1>1. CASE Scan(d)
  <2>1. PICK n \in proc[d].names :
          /\ Same(d) /\ proc'[d].names = proc[d].names \ {n}
          /\ proc'[d].name = n /\ proc'[d].found = index[n]
          /\ proc'[d].target = NoName
          /\ proc'[d].pc = IF index[n] = {} THEN "unlink" ELSE "weigh"
    BY <1>1, StepFields DEF Lone
  <2>2. index[n] = Claims(n)
    BY <1>0, LoneFacts
  <2>3. Linking(d)' /\ Todo(d)' = Todo(d) /\ UNCHANGED file
    BY <1>1, <2>1 DEF Linking, Todo, Scan, At, disk
  <2>4. /\ \A e \in Devs \ {d} : At(e, "idle")'
        /\ (proc[d].action = "add" => file[proc[d].udev.name] = NodeOf(d))'
        /\ Todo(d)' \subseteq Touched(d)'
        /\ \A m \in Touched(d)' \ Todo(d)' :
             (\A e \in Devs \ {d} : db'[e].name # m) => Right(m)'
    BY <1>0, <2>1, <2>3, LinkingKept
  <2>5. At(d, "unlink")' => Claims(proc[d].name)' = {}
    BY <1>a, <2>1, <2>2 DEF At
  <2>6. At(d, "weigh")' => Weighing(d)'
    BY <1>a, <2>1, <2>2 DEF At, Weighing
  <2>7. proc'[d].pc \notin Making
    BY <2>1 DEF Making
  <2> QED
    BY <2>4, <2>5, <2>6, <2>7 DEF AloneInv
<1>2. CASE Unlink(d)
  <2>0. PICK n : n = proc[d].name
    OBVIOUS
  <2>1. /\ proc[d].pc = "unlink" /\ file' = [file EXCEPT ![n] = NoFile]
        /\ Same(d) /\ proc'[d].pc = "links" /\ proc'[d].names = proc[d].names
    BY <1>2, <2>0, StepFields DEF Unlink, At, Lone
  <2>2. n \in Names /\ Claims(n) = {}
    BY <1>0, <2>0, <2>1 DEF ProcOK, Lone, AloneInv, At
  <2>3. /\ Linking(d)' /\ Todo(d) = proc[d].names \cup {n}
        /\ Todo(d)' = proc[d].names
    BY <2>0, <2>1 DEF Linking, Todo, At
  <2>4. Right(n)'
    BY <1>0, <1>a, <2>1, <2>2 DEF Right
  <2>5. \A m \in Names \ Todo(d) : file'[m] = file[m]
    BY <1>0, <2>1, <2>3
  <2>6. \A m \in Todo(d) \ Todo(d)' :
          (\A e \in Devs \ {d} : db[e].name # m) => Right(m)'
    BY <2>3, <2>4
  <2>7. /\ \A e \in Devs \ {d} : At(e, "idle")'
        /\ (proc[d].action = "add" => file[proc[d].udev.name] = NodeOf(d))'
        /\ Todo(d)' \subseteq Touched(d)'
        /\ \A m \in Touched(d)' \ Todo(d)' :
             (\A e \in Devs \ {d} : db'[e].name # m) => Right(m)'
    BY <1>0, <2>1, <2>3, <2>5, <2>6, LinkingKept
  <2> QED
    BY <2>1, <2>7 DEF AloneInv, At, Making
<1> QED
  BY <1>1, <1>2

\* One device more is weighed: the target is still the best of those weighed.
LEMMA WeighStep ==
  ASSUME NEW d \in Devs, Lone(d), Weigh(d)
  PROVE  Weighing(d)'
<1>0. /\ proc[d].pc = "weigh" /\ Linking(d) /\ UNCHANGED db
      /\ proc[d].name \in Todo(d) /\ Weighing(d) /\ proc[d].prio \in Int
      /\ proc[d].udev.name \in NodeNames
  BY DEF Lone, NodeInv, NodeTypeOK, ProcOK, Procs, Weigh, At, Linking, disk, Todo,
         AloneInv
<1>1. PICK e \in proc[d].found :
        /\ proc'[d].name = proc[d].name
        /\ proc'[d].found = proc[d].found \ {e}
        /\ LET entry == IF e = d THEN proc[d].udev ELSE db[e]
           IN  IF Wins(d, e)
               THEN proc'[d].target = entry.name /\ proc'[d].prio = entry.prio
               ELSE /\ proc'[d].target = proc[d].target
                    /\ proc'[d].prio = proc[d].prio
  BY StepFields DEF Lone
<1> DEFINE C == Claims(proc[d].name)
           W == C \ proc[d].found
           V == C \ proc'[d].found
<1>2. /\ proc[d].found \subseteq C /\ e \in C
      /\ C \subseteq Devs /\ \A f \in C : db[f].prio \in Int
      /\ \A f \in C : db[f].name # NoName /\ db[f].name \in NodeNames
  BY <1>0, <1>1, LoneFacts, ValueFacts DEF Weighing
<1>3. (IF e = d THEN proc[d].udev ELSE db[e]) = db[e]
  <2>1. proc[d].name \in Touched(d)
    BY <1>0 DEF Lone, AloneInv
  <2> QED
    BY <1>0, <1>2, <2>1, LoneFacts
<1>4. V = W \cup {e} /\ Claims(proc[d].name)' = C
  <2>1. V = W \cup {e}
    BY <1>1, <1>2
  <2>2. Claims(proc[d].name)' = C
    BY <1>0, <1>1 DEF Claims
  <2> QED
    BY <2>1, <2>2
<1>6. CASE Wins(d, e)
  <2>1. proc'[d].target = db[e].name /\ proc'[d].prio = db[e].prio
    BY <1>1, <1>3, <1>6
  <2>2. \A f \in V : db[f].prio <= db[e].prio
    <3>1. CASE proc[d].target = NoName
      <4>1. W = {}
        BY <1>0, <3>1 DEF Weighing
      <4> QED
        BY <1>2, <1>4, <4>1
    <3>2. CASE proc[d].target # NoName
      <4>1. \A f \in W : db[f].prio <= proc[d].prio
        BY <1>0, <3>2 DEF Weighing, Best
      <4>2. db[e].prio >= proc[d].prio
        BY <1>0, <1>2, <1>3, <1>6, <3>2 DEF Wins
      <4> QED
        BY <1>0, <1>2, <1>4, <4>1, <4>2
    <3> QED
      BY <3>1, <3>2
  <2>3. proc'[d].target # NoName
    BY <1>2, <2>1
  <2> HIDE DEF C
  <2> QED
    BY <1>0, <1>1, <1>2, <1>4, <2>1, <2>2, <2>3 DEF Weighing, Best
<1>7. CASE ~Wins(d, e)
  <2>1. /\ proc'[d].target = proc[d].target /\ proc'[d].prio = proc[d].prio
    BY <1>1, <1>7
  <2>2. proc[d].target # NoName /\ db[e].prio <= proc[d].prio
    <3>1. proc[d].target # NoName
      BY <1>2, <1>7 DEF Wins
    <3>2. db[e].prio <= proc[d].prio
      BY <1>0, <1>2, <1>3, <1>7, <3>1 DEF Wins
    <3> QED
      BY <3>1, <3>2
  <2>3. PICK g \in C : /\ Best(g, W) /\ proc[d].target = db[g].name
                       /\ proc[d].prio = db[g].prio
    BY <1>0, <2>2 DEF Weighing
  <2>4. g \in V /\ \A f \in V : db[f].prio <= db[g].prio
    BY <1>4, <2>2, <2>3 DEF Best
  <2> HIDE DEF C
  <2> QED
    BY <1>0, <1>1, <1>2, <1>4, <2>1, <2>2, <2>3, <2>4 DEF Weighing, Best
<1> QED
  BY <1>6, <1>7

\* Weighing leads to a link to the best of those that claim the name.
LEMMA AloneWeigh ==
  ASSUME NEW d \in Devs, Lone(d), StepOf(d), Weigh(d) \/ Weighed(d)
  PROVE  AloneInv(d)'
<1>0. /\ proc[d].pc = "weigh" /\ Linking(d) /\ UNCHANGED <<db, alone, file>>
      /\ Weighing(d)
  BY DEF Lone, Weigh, Weighed, At, Linking, disk, AloneInv
<1>a. \A n : Claims(n)' = Claims(n)
  BY <1>0 DEF Claims
<1>1. CASE Weigh(d)
  <2>1. /\ Same(d) /\ proc'[d].names = proc[d].names
        /\ proc'[d].pc = "weigh" /\ proc'[d].name = proc[d].name
    BY <1>1, StepFields DEF Lone
  <2>2. Linking(d)' /\ Todo(d)' = Todo(d)
    BY <1>0, <2>1 DEF Linking, Todo, At
  <2>3. Weighing(d)'
    BY <1>1, WeighStep
  <2>4. /\ \A e \in Devs \ {d} : At(e, "idle")'
        /\ (proc[d].action = "add" => file[proc[d].udev.name] = NodeOf(d))'
        /\ Todo(d)' \subseteq Touched(d)'
        /\ \A m \in Touched(d)' \ Todo(d)' :
             (\A e \in Devs \ {d} : db'[e].name # m) => Right(m)'
    BY <1>0, <2>1, <2>2, LinkingKept
  <2> QED
    BY <2>1, <2>3, <2>4 DEF AloneInv, At, Making
<1>2. CASE Weighed(d)
  <2>1. proc[d].target # NoName
    BY <1>0, <1>2 DEF Weighed, Weighing
  <2>2. /\ Same(d) /\ proc'[d].names = proc[d].names
        /\ proc'[d].name = proc[d].name /\ proc'[d].pc = "look"
        /\ proc'[d].want = LinkTo(proc[d].target)
    BY <1>2, <2>1, StepFields DEF Lone
  <2>3. proc[d].found = {}
    BY <1>2 DEF Weighed
  <2>4. \E e \in Claims(proc[d].name) :
          /\ Best(e, Claims(proc[d].name)) /\ proc[d].target = db[e].name
    BY <1>0, <2>1, <2>3 DEF Weighing, Best
  <2>5. (\E e \in Claims(proc[d].name) :
           /\ Best(e, Claims(proc[d].name))
           /\ proc[d].want = LinkTo(db[e].name))'
    BY <1>0, <1>a, <2>2, <2>4 DEF Best, LinkTo
  <2>6. LinkTo(proc[d].target).type # "node"
    BY DEF LinkTo
  <2>7. Linking(d)' /\ Todo(d)' = Todo(d)
    BY <1>0, <2>2, <2>6 DEF Linking, Todo, At, Making, MakesNode
  <2>8. /\ \A e \in Devs \ {d} : At(e, "idle")'
        /\ (proc[d].action = "add" => file[proc[d].udev.name] = NodeOf(d))'
        /\ Todo(d)' \subseteq Touched(d)'
        /\ \A m \in Touched(d)' \ Todo(d)' :
             (\A e \in Devs \ {d} : db'[e].name # m) => Right(m)'
    BY <1>0, <2>2, <2>7, LinkingKept
  <2> QED
    BY <2>2, <2>5, <2>8 DEF AloneInv, At
<1> QED
  BY <1>1, <1>2

\* Alone, a process makes the file it wants, or finds a node that a link may not
\* replace.
LEMMA MakeResult ==
  ASSUME NEW d \in Devs, Lone(d), Look(d) \/ Create(d) \/ Replace(d) \/ Rename(d)
  PROVE  /\ proc[d].name \in Names /\ UNCHANGED <<db, alone>>
         /\ \A m \in Names \ {proc[d].name} : file'[m] = file[m]
         /\ proc'[d].pc \in {"store", "links"} =>
              \/ file'[proc[d].name] = proc[d].want
              \/ ~MakesNode(d) /\ file[proc[d].name].type = "node"
<1>0. /\ file \in [Names -> Files] /\ tmp \in [Names -> Files] /\ ProcOK(proc[d])
      /\ d \in DOMAIN proc /\ TmpInv /\ DOMAIN proc[d] = DOMAIN Idle
      /\ \A e \in Devs \ {d} : At(e, "idle")
  BY ValueFacts DEF Lone, NodeInv, NodeTypeOK, ProcOK, Procs, AloneInv
<1>1. proc[d].name \in Names /\ UNCHANGED <<db, alone>>
  BY <1>0 DEF Look, Create, Replace, Rename, disk, At, Making, ProcOK
<1>2. PICK n \in Names : n = proc[d].name
  BY <1>1
<1>a. \A label : Go(d, label) => proc'[d].pc = label
  BY <1>0, ValueFacts DEF Go, Become, ProcOK, Procs
<1>b. Made(d) \in {"store", "links"}
  BY DEF Made
<1>3. CASE Look(d)
  <2>1. UNCHANGED file
    BY <1>3 DEF Look, disk
  <2>2. CASE Forbidden(d)
    BY <1>1, <2>1, <2>2 DEF Forbidden
  <2>3. CASE ~Forbidden(d) /\ file[n] # proc[d].want
    <3>1. Go(d, "create") \/ Go(d, "replace")
      BY <1>2, <1>3, <2>3 DEF Look
    <3> QED
      BY <1>1, <1>a, <2>1, <3>1
  <2> QED
    BY <1>1, <1>2, <2>1, <2>2, <2>3
<1>4. CASE Create(d)
  <2>1. CASE file[n] = NoFile
    <3>1. file' = [file EXCEPT ![n] = proc[d].want]
      BY <1>2, <1>4, <2>1 DEF Create
    <3> QED
      BY <1>0, <1>1, <1>2, <3>1
  <2>2. CASE file[n] # NoFile
    <3>1. UNCHANGED file /\ Go(d, "replace")
      BY <1>2, <1>4, <2>2 DEF Create
    <3> QED
      BY <1>1, <1>a, <3>1
  <2> QED
    BY <2>1, <2>2
<1>5. CASE Replace(d)
  <2>1. tmp[n] = NoFile
    BY <1>0, <1>5 DEF TmpInv, Replace, At
  <2>2. UNCHANGED file /\ Go(d, "rename")
    BY <1>2, <1>5, <2>1 DEF Replace
  <2> QED
    BY <1>1, <1>a, <2>2
<1>6. CASE Rename(d)
  <2>1. file' = [file EXCEPT ![n] = tmp[n]] /\ tmp[n] = proc[d].want
    BY <1>0, <1>2, <1>6 DEF Rename, TmpInv
  <2> QED
    BY <1>0, <1>1, <1>2, <2>1
<1> QED
  BY <1>3, <1>4, <1>5, <1>6

\* A link to the best of those that claim its name is right, unless the name is
\* that of another device.
LEMMA LinkIsRight ==
  ASSUME NEW d \in Devs, Lone(d), Linking(d), NEW n \in Touched(d),
         \A e \in Devs \ {d} : db[e].name # n,
         NEW e \in Claims(n), Best(e, Claims(n)), UNCHANGED db,
         \/ file'[n] = LinkTo(db[e].name)
         \/ file[n].type = "node" /\ n \in Names
  PROVE  Right(n)'
<1>1. e \in Devs /\ db[e].name # n
  BY LoneFacts
<1>2. n \in Links
  <2>1. n \in db[e].links /\ db[e] \in Entries
    BY <1>1 DEF Claims, Lone, NodeInv, NodeTypeOK, EntryOK
  <2> QED
    BY <2>1 DEF Entries
<1>3. file'[n] = LinkTo(db[e].name)
  BY <1>2, ValueFacts DEF Lone, NodesOnly
<1>4. Claims(n)' = Claims(n)
  BY DEF Claims
<1> QED
  BY <1>1, <1>3, <1>4 DEF Right, Best, LinkTo

\* The file is made: the node is there, and a link is with the best.
LEMMA AloneMake ==
  ASSUME NEW d \in Devs, Lone(d), StepOf(d),
         Look(d) \/ Create(d) \/ Replace(d) \/ Rename(d)
  PROVE  AloneInv(d)'
<1> SUFFICES ASSUME ~At(d, "idle")' PROVE AloneInv(d)'
  BY DEF AloneInv
<1>1. /\ proc[d].pc \in Making /\ Same(d) /\ proc'[d].names = proc[d].names
      /\ proc'[d].name = proc[d].name /\ proc'[d].want = proc[d].want
      /\ proc'[d].pc \in Making \cup {Made(d)}
  <2>1. proc'[d] # Idle
    BY ValueFacts DEF At
  <2> QED
    BY <2>1, MakeFields DEF Lone
<1>2. PICK n : n = proc[d].name
  OBVIOUS
<1>3. /\ n \in Names /\ UNCHANGED <<db, alone>>
      /\ \A m \in Names \ {n} : file'[m] = file[m]
      /\ proc'[d].pc \in {"store", "links"} =>
           \/ file'[n] = proc[d].want
           \/ ~MakesNode(d) /\ file[n].type = "node"
  BY <1>2, MakeResult
<1>4. CASE MakesNode(d)
  <2>1. /\ n = proc'[d].udev.name /\ proc[d].want = NodeOf(d) /\ MakesNode(d)'
        /\ proc'[d].pc \in Making \cup {"store"}
    BY <1>1, <1>2, <1>4 DEF Lone, MakeInv, Same, MakesNode, Made
  <2>2. At(d, "store")' => file'[proc'[d].udev.name] = NodeOf(d)
    BY <1>3, <1>4, <2>1 DEF At
  <2>3. \A e \in Devs \ {d} : At(e, "idle")'
    BY Frame DEF Lone, NodeInv, OthersKept, AloneInv, At
  <2> QED
    BY <2>1, <2>2, <2>3 DEF AloneInv, At, Making, Linking, NodeOf
<1>5. CASE ~MakesNode(d)
  <2>1. /\ Linking(d) /\ Linking(d)' /\ ~MakesNode(d)'
        /\ proc'[d].pc \in Making \cup {"links"}
        /\ ~At(d, "links")
    BY <1>1, <1>5 DEF Linking, MakesNode, Made, At, Making
  <2>2. /\ Todo(d) = proc[d].names \cup {n}
        /\ Todo(d)' = proc[d].names \cup (IF At(d, "links")' THEN {} ELSE {n})
    BY <1>1, <1>2, <2>1 DEF Todo
  <2>3. PICK e \in Claims(n) : Best(e, Claims(n)) /\ proc[d].want = LinkTo(db[e].name)
    BY <1>1, <1>2, <1>5 DEF Lone, AloneInv
  <2>4. n \in Touched(d)
    BY <2>1, <2>2 DEF Lone, AloneInv
  <2>5. At(d, "links")' /\ (\A f \in Devs \ {d} : db[f].name # n) => Right(n)'
    BY <1>3, <2>1, <2>3, <2>4, LinkIsRight DEF At
  <2>6. \A m \in Todo(d) \ Todo(d)' :
          (\A f \in Devs \ {d} : db[f].name # m) => Right(m)'
    BY <2>2, <2>5
  <2>7. \A m \in Names \ Todo(d) : file'[m] = file[m]
    BY <1>3, <2>2
  <2>8. Todo(d)' \subseteq Todo(d)
    BY <2>2
  <2>9. /\ \A f \in Devs \ {d} : At(f, "idle")'
        /\ (proc[d].action = "add" => file[proc[d].udev.name] = NodeOf(d))'
        /\ Todo(d)' \subseteq Touched(d)'
        /\ \A m \in Touched(d)' \ Todo(d)' :
             (\A f \in Devs \ {d} : db'[f].name # m) => Right(m)'
    BY <1>1, <1>3, <2>1, <2>6, <2>7, <2>8, LinkingKept
  <2>10. (\E f \in Claims(proc[d].name) :
            /\ Best(f, Claims(proc[d].name))
            /\ proc[d].want = LinkTo(db[f].name))'
    BY <1>1, <1>2, <1>3, <2>3 DEF Best, LinkTo, Claims
  <2> QED
    BY <2>1, <2>9, <2>10 DEF AloneInv, At, Making
<1> QED
  BY <1>4, <1>5

\* Every step keeps what holds of events that run alone: another device's event
\* that begins ends the solitude, and its other steps do not occur in it.
LEMMA RightStep ==
  ASSUME NodeInv, RightInv, NEW d \in Devs, StepOf(d)
  PROVE  RightInv'
<1>0. /\ NodesOnly /\ DOMAIN alone = Devs
      /\ \A e \in Devs : MakeInv(e) /\ AloneInv(e)
      /\ OthersKept(d)
  BY Frame DEF RightInv, NodeInv
<1>1. NodesOnly'
  BY <1>0, NodesStep
<1>2. DOMAIN alone' = Devs
  BY <1>0
  DEF StepOf, EventProcess, BeginEvent, DbForget, Unindex, Forgotten, StatNode,
      UnlinkNode, DbOpen, Index, DbClose, DbAdded, EndEvent, Scan, Unlink,
      Weigh, Weighed, Look, Create, Replace, Rename
<1>3. MakeInv(d)' /\ AloneInv(d)'
  <2>1. MakeInv(d)'
    BY <1>0, MakeStep
  <2>2. CASE \/ \E o \in Outcomes[d] : BeginEvent(d, "add", o, FALSE)
             \/ \E keep \in BOOLEAN : BeginEvent(d, "remove", NoEntry, keep)
             \/ DbForget(d) \/ Unindex(d) \/ Forgotten(d) \/ StatNode(d)
             \/ UnlinkNode(d) \/ DbOpen(d) \/ Index(d) \/ DbClose(d) \/ DbAdded(d)
             \/ EndEvent(d)
    BY <1>0, <2>1, <2>2, AloneBefore
  <2>3. CASE \/ Scan(d) \/ Unlink(d) \/ Weigh(d) \/ Weighed(d)
             \/ Look(d) \/ Create(d) \/ Replace(d) \/ Rename(d)
    <3>1. ~At(d, "idle") /\ UNCHANGED alone
      BY <2>3 DEF Scan, Unlink, Weigh, Weighed, Look, Create, Replace, Rename, At
    <3>2. CASE ~alone[d]
      BY <2>1, <3>1, <3>2 DEF AloneInv
    <3>3. CASE alone[d]
      <4>1. Lone(d)
        BY <1>0, <3>1, <3>3 DEF Lone
      <4> QED
        BY <2>1, <2>3, <4>1, AloneScan, AloneWeigh, AloneMake
    <3> QED
      BY <3>2, <3>3
  <2> QED
    BY <2>2, <2>3 DEF StepOf, EventProcess
<1>4. ASSUME NEW e \in Devs \ {d} PROVE MakeInv(e)' /\ AloneInv(e)'
  <2>1. proc'[e] = proc[e] /\ db'[e] = db[e]
    BY <1>0 DEF OthersKept
  <2>2. MakeInv(e)'
    <3>1. MakeInv(e)
      BY <1>0
    <3> QED
      BY <2>1, <3>1 DEF MakeInv, Linking, At, MakesNode, NodeOf, NoEntry, Opened
  <2>3. AloneInv(e)'
    <3> SUFFICES ASSUME alone'[e], ~At(e, "idle")' PROVE FALSE
      BY DEF AloneInv
    <3>1. ~At(e, "idle")
      BY <2>1 DEF At
    <3>2. CASE At(d, "idle")
      <4>1. \E a, o, k : BeginEvent(d, a, o, k)
        BY <3>2 DEF StepOf, EventProcess, DbForget, Unindex, Forgotten, StatNode,
             UnlinkNode, DbOpen, Index, DbClose, DbAdded, EndEvent, Scan, Unlink,
             Weigh, Weighed, Look, Create, Replace, Rename, At
      <4> QED
        BY <3>1, <4>1 DEF BeginEvent
    <3>3. CASE ~At(d, "idle")
      <4>1. alone[e]
        BY <3>3
        DEF StepOf, EventProcess, BeginEvent, DbForget, Unindex, Forgotten,
            StatNode, UnlinkNode, DbOpen, Index, DbClose, DbAdded, EndEvent, Scan,
            Unlink, Weigh, Weighed, Look, Create, Replace, Rename
      <4> QED
        BY <1>0, <3>1, <3>3, <4>1 DEF AloneInv
    <3> QED
      BY <3>2, <3>3
  <2> QED
    BY <2>2, <2>3
<1> QED
  BY <1>1, <1>2, <1>3, <1>4 DEF RightInv

\* Whatever races were lost before, an event that runs alone leaves its node in
\* place, and every name it touched and no other device bears with the device
\* that claims it with the highest priority, or removed when none does: for any
\* devices, links, priorities and number of events.
THEOREM LoneEventsAreRight == NodeSpec => []AloneIsRight
<1>1. NodeInit => RightInv
  <2> SUFFICES ASSUME NodeInit PROVE RightInv
    OBVIOUS
  <2>1. \A d \in Devs : proc[d] = Idle /\ At(d, "idle")
    BY ValueFacts DEF NodeInit, At
  <2>2. \A d \in Devs : MakeInv(d) /\ AloneInv(d)
    BY <2>1, ValueFacts DEF MakeInv, AloneInv, Linking, At, Making
  <2>3. NodesOnly /\ DOMAIN alone = Devs
    BY ValueFacts DEF NodeInit, NodesOnly
  <2> QED
    BY <2>2, <2>3 DEF RightInv
<1>2. NodeInv /\ RightInv /\ [NodeNext]_nodevars => RightInv'
  <2> SUFFICES ASSUME NodeInv, RightInv, [NodeNext]_nodevars PROVE RightInv'
    OBVIOUS
  <2>1. ASSUME NEW d \in Devs, StepOf(d) PROVE RightInv'
    BY <2>1, RightStep
  <2>2. CASE UNCHANGED nodevars
    <3>1. UNCHANGED <<file, tmp, db, index, proc, alone>>
      BY <2>2 DEF nodevars, disk
    <3>2. NodesOnly'
      BY <3>1 DEF RightInv, NodesOnly
    <3>3. (DOMAIN alone = Devs)'
      BY <3>1 DEF RightInv
    <3>4. ASSUME NEW d \in Devs PROVE MakeInv(d)' /\ AloneInv(d)'
      <4>1. MakeInv(d) /\ AloneInv(d)
        BY DEF RightInv
      <4>2. MakeInv(d)'
        BY <3>1, <4>1 DEF MakeInv, Linking, At, MakesNode
      <4>3. AloneInv(d)'
        BY <3>1, <4>1 DEF AloneInv, Linking, Todo, Touched, Weighing, Best, Right,
                          Claims, At, MakesNode
      <4> QED
        BY <4>2, <4>3
    <3> QED
      BY <3>2, <3>3, <3>4 DEF RightInv
  <2> QED
    BY <2>1, <2>2 DEF NodeNext, StepOf
<1>3. NodeInv /\ RightInv => AloneIsRight
  <2> SUFFICES ASSUME NodeInv, RightInv, NEW d \in Devs, Settled(d), alone[d]
               PROVE  LeavesRight(d, {n \in Touched(d) :
                                        \A e \in Devs \ {d} : db[e].name # n})
    BY DEF AloneIsRight
  <2>1. AloneInv(d) /\ Linking(d) /\ Todo(d) = {} /\ ~At(d, "idle")
    BY DEF RightInv, Settled, Linking, Todo, At
  <2> QED
    BY <2>1 DEF AloneInv, LeavesRight
<1> QED
  BY <1>1, <1>2, <1>3, NodeInductive, PTL DEF NodeSpec

-----------------------------------------------------------------------------
(* The names of network interfaces: no circle of waiting renames, for any  *)
(* interfaces and any names.                                               *)

USE NameAssumption, TempAssumption

\* A process has its kernel's name until it gives it up, and no name that
\* another may want while it waits.
NetInv ==
  /\ DOMAIN ifname = Ifs /\ DOMAIN netpc = Ifs /\ DOMAIN wants = Ifs
  /\ \A i \in Ifs :
       /\ netpc[i] \in {"idle", "direct", "free"} => ifname[i] = IfName[i]
       /\ netpc[i] = "wait" => ifname[i] = Temp[IfName[i]]
       /\ netpc[i] # "idle" => wants[i] \in Targets[i]

\* A step of one process keeps what NetInv says of every other.
LEMMA NetStep ==
  ASSUME NetInv, NEW i \in Ifs,
         NetBegin(i) \/ RenameDirect(i) \/ FreeName(i) \/ RenameAgain(i) \/ IoctlFails(i)
  PROVE  NetInv'
<1>1. CASE NetBegin(i)
  BY <1>1 DEF NetBegin, NetGo, NetInv
<1>2. CASE RenameDirect(i)
  BY <1>2 DEF RenameDirect, NetGo, SetIfName, NetInv
<1>3. CASE FreeName(i)
  BY <1>3 DEF FreeName, NetGo, NetInv
<1>4. CASE RenameAgain(i)
  BY <1>4 DEF RenameAgain, NetGo, SetIfName, NetInv
<1>5. CASE IoctlFails(i)
  BY <1>5 DEF IoctlFails, Refused, NetGo, NetInv
<1> QED
  BY <1>1, <1>2, <1>3, <1>4, <1>5

\* Renames never wait for each other in a circle.
THEOREM RenamesProceed == NetSpec => []NoRenameCycle
<1>1. NetInit => NetInv
  BY DEF NetInit, NetInv
<1>2. NetInv /\ [NetNext]_netvars => NetInv'
  <2>1. ASSUME NetInv, NetNext PROVE NetInv'
    BY <2>1, NetStep DEF NetNext
  <2>2. NetInv /\ UNCHANGED netvars => NetInv'
    BY DEF NetInv, netvars
  <2> QED
    BY <2>1, <2>2
<1>3. NetInv => NoRenameCycle
  BY DEF NetInv, NoRenameCycle
<1> QED
  BY <1>1, <1>2, <1>3, PTL DEF NetSpec
=============================================================================
