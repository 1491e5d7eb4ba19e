------------------------------- MODULE MCDevices -------------------------------
(***************************************************************************)
(* Instances of four small models that share no state: the event processes *)
(* of udev at the rules, in /dev and at the network interfaces, and the    *)
(* memory of globalmem.  A behaviour is one of them, chosen at the start:  *)
(* the states to look at are the sum, not the product.                     *)
(***************************************************************************)
EXTENDS UdevNode, UdevNet, UdevRules, GlobalMem, TLC

CONSTANTS a, b, link, na, nb, old,   \* UdevNode
          i1, i2, i3, x, y, z        \* UdevNet

VARIABLE unit

DevicesInit == /\ NodeInit /\ NetInit /\ RulesInit /\ MemInit
               /\ unit \in {"node", "net", "rules", "mem"}
               /\ unit # "rules" => rulebuf = <<>> /\ action = "add" /\ call = "get_name"

DevicesNext ==
  /\ UNCHANGED unit
  /\ \/ unit = "node"  /\ NodeNext  /\ UNCHANGED <<netvars, rulevars, memvars>>
     \/ unit = "net"   /\ NetNext   /\ UNCHANGED <<nodevars, rulevars, memvars>>
     \/ unit = "rules" /\ RulesNext /\ UNCHANGED <<nodevars, netvars, memvars>>
     \/ unit = "mem"   /\ MemNext   /\ UNCHANGED <<nodevars, netvars, rulevars>>

DevicesSpec == DevicesInit /\ [][DevicesNext]_<<nodevars, netvars, rulevars, memvars, unit>>
--------------------------------------------------------------------------------
\* Two devices that may claim one link, with a low, a middle and a high priority;
\* the second may take the name of the first, and the first may give it up.
Claim(n, l, p, i) == [name |-> n, links |-> l, prio |-> p, ignore_remove |-> i]
COutcomes == (a :> {Claim(na, {link}, 1, FALSE), Claim(old, {}, 0, FALSE)})
          @@ (b :> {Claim(nb, {link}, 2, TRUE), Claim(na, {link}, 0, FALSE)})
CKernel == (a :> na) @@ (b :> nb)

CIfName  == (i1 :> x) @@ (i2 :> y) @@ (i3 :> z)
CTargets == [i \in Ifs |-> {x, y, z}]
CTemp    == [n \in {x, y, z} |-> <<n, "_rename">>]

COffsets == {-1, 1, 2, UIntRange + 1}
--------------------------------------------------------------------------------
T(k, op, v)    == [key |-> k, op |-> op, attr |-> "", vals |-> v]
P(k, at, op, v) == [key |-> k, op |-> op, attr |-> at, vals |-> v]

CChain == << [KERNEL |-> "sda", SUBSYSTEM |-> "block", DRIVER |-> "",
              DEVPATH |-> "/sda", attrs |-> [s \in {"size"} |-> "8"]],
             [KERNEL |-> "usb1", SUBSYSTEM |-> "usb", DRIVER |-> "hub",
              DEVPATH |-> "/usb1", attrs |-> [s \in {"vendor"} |-> "acme"]] >>
CStarts(k, m) == k = m \/ (k = "ID_TYPE" /\ m = "ID")
CEnvKeys == {"Z", "ID", "ID_TYPE", "MAJOR"}
CUevent  == [k \in CEnvKeys |-> IF k = "MAJOR" THEN "8" ELSE ""]
COutputs == {"no", "1"}
CImports == { <<[key |-> "Z", val |-> "1"]>>,
              <<[key |-> "ID_TYPE", val |-> "d"], [key |-> "ID", val |-> "7"]>> }
CStored  == [name |-> "disk", links |-> {"d1"},
             env_list |-> <<[key |-> "Z", val |-> "1"]>>]

Lines == {
  << T("SUBSYSTEM", "==", {"block"}), P("ATTRS", "vendor", "==", {"acme"}),
     T("BUS", "==", {"usb"}), T("NAME", "=", {"disk"}),
     T("SYMLINK", "+=", {"d1"}), T("RUN", "+=", {"r1"}) >>,
  << T("KERNEL", "==", {"sda", "sdb"}), T("PROGRAM", "=", {"prog"}),
     T("RESULT", "!=", {"no"}), T("SYMLINK", ":=", {"%c", "d2"}),
     T("RUN", "=", {"r2"}) >>,
  << T("NAME", "=", {"%k"}), T("OWNER", ":=", {"root"}), T("SYMLINK", "=", {"d3"}) >>,
  << T("ACTION", "==", {"add", "remove"}), T("RUN", ":=", {"r3"}),
     P("ENV", "Z", "=", {"%c"}), P("ENV", "MAJOR", "=", {"%c"}), T("GOTO", "=", {"end"}) >>,
  << T("LABEL", "=", {"end"}), T("IMPORT", "!=", {"file"}), T("RUN", "+=", {"r4"}) >>,
  << P("ENV", "Z", "==", {"1"}), T("OWNER", "=", {"disk"}),
     T("OPTIONS", "+=", {"last_rule"}) >>,
  << P("ENV", "Z", "=", {"2"}), T("ACTION", "=", {"add"}) >>,
  << P("ENV", "Z", "=", {"2"}), P("IMPORT", "parent", "=", {"*"}) >>,
  << T("NAME", "==", {"disk"}), T("TEST", "==", {"/file"}),
     T("OPTIONS", "+=", {"ignore_device"}) >> }
CRuleFiles == UNION {[1 .. n -> Lines] : n \in 0 .. 3}
=============================================================================
