---------------------------- MODULE UdevRules_proofs ----------------------------
(***************************************************************************)
(* The rules of udev, for any files, devices, outputs of programs and       *)
(* values they may import: in which order rules are applied, which of them  *)
(* names the device, what the event has collected when it is done, and that *)
(* the list of variables, which the database is given, says what getenv     *)
(* says.                                                                    *)
(***************************************************************************)
EXTENDS UdevRules, NaturalsInduction, WellFoundedInduction, TLAPS

\* A rule: a key that is there has a value, and ENV names a variable.
KeyT  == {k \in [op : STRING \cup {"unset"}, vals : SUBSET STRING] : k.op # "unset" => k.vals # {}}
PairT == [op : STRING, attr : STRING, vals : (SUBSET STRING) \ {{}}]
EnvT  == {p \in PairT : p.attr \in EnvKeys}
PairsT == {ps \in [Pairs -> Seq(PairT)] : ps["ENV"] \in Seq(EnvT)}
RuleT == [keys : [Single -> KeyT], pairs : PairsT,
          options : SUBSET STRING, first : SUBSET STRING,
          import : STRING \cup {""}, valid : BOOLEAN, bad : BOOLEAN]

\* A set of numbers that is not empty has a least member.
LEMMA LeastOf ==
  ASSUME NEW S \in SUBSET Nat, S # {}
  PROVE  \E m \in S : \A y \in S : m <= y
<1> DEFINE less == OpToRel(<, Nat)
<1>1. \A a, b \in Nat : a < b => <<a, b>> \in {ss \in Nat \X Nat : ss[1] < ss[2]}
  OBVIOUS
<1>2. \A a, b \in Nat : a < b => <<a, b>> \in less
  BY <1>1, Zenon DEF OpToRel
<1>3. IsWellFoundedOn(less, Nat)
  BY NatLessThanWellFounded
<1> HIDE DEF less
<1>4. PICK x \in S : \A y \in S : ~(<<y, x>> \in less)
  BY <1>3, WFMin, Zenon
<1>5. \A y \in S : ~(y < x)
  BY <1>2, <1>4, Zenon
<1> QED
  BY <1>5

\* What holds of 0, and of n with n - 1, holds of every number up to a bound.
LEMMA UpTo ==
  ASSUME NEW n \in Nat, NEW P \in SUBSET Nat, 0 \in P,
         \A i \in 1 .. n : i - 1 \in P => i \in P
  PROVE  0 .. n \subseteq P
<1> SUFFICES ASSUME (0 .. n) \ P # {} PROVE FALSE
  OBVIOUS
<1>1. PICK m \in (0 .. n) \ P : \A y \in (0 .. n) \ P : m <= y
  <2>1. (0 .. n) \ P \in SUBSET Nat
    OBVIOUS
  <2> QED
    BY <2>1, LeastOf, Zenon
<1>2. m \in 1 .. n /\ m - 1 \in 0 .. n /\ ~(m <= m - 1)
  BY <1>1
<1>3. m - 1 \in P
  BY <1>1, <1>2
<1> QED
  BY <1>1, <1>2, <1>3

\* A function that goes along a sequence, from a, by the steps op; there is one.
Along(f, op, a, s) == f[0] = a /\ \A n \in 1 .. Len(s) : f[n] = op[<<f[n - 1], s[n]>>]
LEMMA AlongExists ==
  ASSUME NEW S, NEW T, NEW op, \A x \in S, y \in T : op[<<x, y>>] \in S,
         NEW a \in S, NEW s \in Seq(T)
  PROVE  \E f \in [0 .. Len(s) -> S] : Along(f, op, a, s)
<1> DEFINE Upto(k) == {g \in [0 .. k -> S] :
             \A n \in 0 .. k : g[n] = IF n = 0 THEN a ELSE op[<<g[n - 1], s[n]>>]}
           P == {k \in 0 .. Len(s) : Upto(k) # {}}
<1>1. Len(s) \in Nat /\ \A i \in 1 .. Len(s) : s[i] \in T
  OBVIOUS
<1>2. 0 \in P
  <2>1. [n \in 0 .. 0 |-> a] \in Upto(0)
    OBVIOUS
  <2> QED
    BY <1>1, <2>1
<1>3. ASSUME NEW i \in 1 .. Len(s), i - 1 \in P PROVE i \in P
  <2>1. PICK g : g \in Upto(i - 1)
    BY <1>3
  <2> DEFINE h == [n \in 0 .. i |-> IF n = i THEN op[<<g[i - 1], s[i]>>] ELSE g[n]]
  <2>2. g[i - 1] \in S /\ s[i] \in T
    BY <1>1, <2>1
  <2>3. op[<<g[i - 1], s[i]>>] \in S
    BY <2>2
  <2>4. h \in [0 .. i -> S]
    BY <2>1, <2>3
  <2>5. ASSUME NEW n \in 0 .. i
        PROVE  h[n] = IF n = 0 THEN a ELSE op[<<h[n - 1], s[n]>>]
    <3>1. CASE n = i
      <4>1. h[n] = op[<<g[i - 1], s[i]>>] /\ h[n - 1] = g[i - 1] /\ n # 0
        BY <3>1
      <4> QED
        BY <4>1, <3>1
    <3>2. CASE n # i
      <4>1. n \in 0 .. i - 1 /\ h[n] = g[n] /\ (n # 0 => h[n - 1] = g[n - 1])
        BY <3>2
      <4>2. g[n] = IF n = 0 THEN a ELSE op[<<g[n - 1], s[n]>>]
        BY <4>1, <2>1
      <4> QED
        BY <4>1, <4>2
    <3> QED
      BY <3>1, <3>2
  <2>6. h \in Upto(i)
    BY <2>4, <2>5
  <2>7. i \in 0 .. Len(s)
    BY <1>1
  <2> HIDE DEF Upto, h
  <2> QED
    BY <2>6, <2>7
<1>4. Len(s) \in P
  <2> HIDE DEF P
  <2>1. P \in SUBSET Nat
    BY DEF P
  <2>2. 0 .. Len(s) \subseteq P
    BY <1>1, <1>2, <1>3, <2>1, UpTo, Zenon
  <2> QED
    BY <1>1, <2>2
<1>5. PICK f : f \in Upto(Len(s))
  BY <1>4
<1>6. f \in [0 .. Len(s) -> S] /\ \A n \in 0 .. Len(s) :
        f[n] = IF n = 0 THEN a ELSE op[<<f[n - 1], s[n]>>]
  BY <1>5
<1>7. 0 \in 0 .. Len(s) /\ \A n \in 1 .. Len(s) : n \in 0 .. Len(s) /\ n # 0
  BY <1>1
<1>8. Along(f, op, a, s)
  BY <1>6, <1>7, Zenon DEF Along
<1> QED
  BY <1>6, <1>8, Zenon

\* Such a function stays in a set that its steps do not leave.
LEMMA AlongStays ==
  ASSUME NEW k \in Nat, NEW S, NEW g, g[0] \in S,
         \A n \in 1 .. k : g[n - 1] \in S => g[n] \in S
  PROVE  g[k] \in S
<1> DEFINE P == {n \in 0 .. k : g[n] \in S}
<1>1. 0 \in P
  OBVIOUS
<1>2. ASSUME NEW n \in 1 .. k, n - 1 \in P PROVE n \in P
  BY <1>2
<1>3. P \in SUBSET Nat
  OBVIOUS
<1> HIDE DEF P
<1>4. 0 .. k \subseteq P
  BY <1>1, <1>2, <1>3, UpTo, Zenon
<1>5. k \in P
  BY <1>4
<1> QED
  BY <1>5 DEF P

\* A key adds to a rule and leaves it a rule.
LEMMA AddKeyType ==
  ASSUME NEW r \in RuleT, NEW t \in Token
  PROVE  AddKey(r, t) \in RuleT
<1> DEFINE k    == Canon(t.key)
           val  == [op |-> t.op, vals |-> t.vals]
           kept == [r EXCEPT !.first = IF @ = {} THEN t.vals ELSE @,
                             !.valid = @ \/ k # "NAME"]
<1>1. /\ t.op \in STRING /\ t.attr \in STRING
      /\ t.vals \in SUBSET STRING /\ t.vals # {}
      /\ t.key = "ENV" => t.attr \in EnvKeys
  BY DEF Token
<1>2. val \in KeyT
  BY <1>1 DEF KeyT
<1>3. /\ [op |-> t.op, attr |-> t.attr, vals |-> t.vals] \in PairT
      /\ k = "ENV" => [op |-> t.op, attr |-> t.attr, vals |-> t.vals] \in EnvT
  BY <1>1 DEF PairT, EnvT, Canon
<1>4. /\ r.keys \in [Single -> KeyT] /\ r.pairs \in PairsT
      /\ r.options \in SUBSET STRING /\ r.first \in SUBSET STRING
      /\ r.import \in STRING \cup {""} /\ r.valid \in BOOLEAN /\ r.bad \in BOOLEAN
  BY DEF RuleT
<1>5. [r EXCEPT !.bad = TRUE] \in RuleT
  BY DEF RuleT
<1>6. kept \in RuleT
  BY <1>1, <1>4 DEF RuleT
<1> HIDE DEF k, val, kept
<1>7. k \in Pairs => [kept EXCEPT !.pairs[k] =
        Append(@, [op |-> t.op, attr |-> t.attr, vals |-> t.vals])] \in RuleT
  <2> SUFFICES ASSUME k \in Pairs
               PROVE  [kept EXCEPT !.pairs[k] =
        Append(@, [op |-> t.op, attr |-> t.attr, vals |-> t.vals])] \in RuleT
    OBVIOUS
  <2>1. kept.pairs \in [Pairs -> Seq(PairT)] /\ kept.pairs["ENV"] \in Seq(EnvT)
    BY <1>6 DEF RuleT, PairsT
  <2>2. /\ Append(kept.pairs[k], [op |-> t.op, attr |-> t.attr, vals |-> t.vals])
             \in Seq(PairT)
        /\ k = "ENV" => Append(kept.pairs[k],
             [op |-> t.op, attr |-> t.attr, vals |-> t.vals]) \in Seq(EnvT)
    BY <1>3, <2>1
  <2> DEFINE more == [kept.pairs EXCEPT ![k] =
               Append(@, [op |-> t.op, attr |-> t.attr, vals |-> t.vals])]
  <2>3. more \in PairsT
    <3>1. "ENV" \in Pairs /\ more \in [Pairs -> Seq(PairT)]
      BY <2>1, <2>2 DEF Pairs
    <3>2. more["ENV"] \in Seq(EnvT)
      BY <2>1, <2>2, <3>1
    <3> HIDE DEF more
    <3> QED
      BY <3>1, <3>2 DEF PairsT
  <2> HIDE DEF more
  <2>4. [kept EXCEPT !.pairs = more] \in RuleT
    BY <1>6, <2>3 DEF RuleT
  <2> QED
    BY <2>4 DEF more
<1>8. [r EXCEPT !.options = @ \cup t.vals, !.valid = TRUE] \in RuleT
  BY <1>1, <1>4 DEF RuleT
<1>9. k \in Single => [r EXCEPT !.keys[k] = val, !.valid = TRUE] \in RuleT
  <2> DEFINE more == [r.keys EXCEPT ![k] = val]
  <2>1. more \in [Single -> KeyT]
    BY <1>2, <1>4
  <2> HIDE DEF more
  <2>2. [r EXCEPT !.keys = more, !.valid = TRUE] \in RuleT
    BY <2>1 DEF RuleT
  <2> QED
    BY <2>2 DEF more
<1>10. k \in Single =>
         [kept EXCEPT !.keys[k] = val,
                      !.options = IF k = "NAME" THEN @ \cup {t.attr} ELSE @,
                      !.import = IF k = "IMPORT" THEN t.attr ELSE @] \in RuleT
  <2> DEFINE more == [kept.keys EXCEPT ![k] = val]
             opts == IF k = "NAME" THEN kept.options \cup {t.attr} ELSE kept.options
             imp  == IF k = "IMPORT" THEN t.attr ELSE kept.import
  <2>1. more \in [Single -> KeyT] /\ opts \in SUBSET STRING /\ imp \in STRING \cup {""}
    BY <1>1, <1>2, <1>6 DEF RuleT
  <2> HIDE DEF more, opts, imp
  <2>2. [kept EXCEPT !.keys = more, !.options = opts, !.import = imp] \in RuleT
    BY <1>6, <2>1 DEF RuleT
  <2> QED
    BY <2>2 DEF more, opts, imp
<1>11. k \in Single \cup Pairs \cup {"OPTIONS"} /\ k \notin Pairs /\ k # "OPTIONS"
         => k \in Single
  OBVIOUS
<1>12. AddKey(r, t) =
  IF r.bad \/ k \notin Single \cup Pairs \cup {"OPTIONS"} THEN r
      ELSE IF \/ k \in MatchOnly /\ ~Matching(t.op)
              \/ k \in Pairs /\ Len(r.pairs[k]) >= PAIRS_MAX
      THEN [r EXCEPT !.bad = TRUE]
      ELSE IF k \in Pairs
      THEN [kept EXCEPT !.pairs[k] =
              Append(@, [op |-> t.op, attr |-> t.attr, vals |-> t.vals])]
      ELSE IF k = "OPTIONS"
      THEN [r EXCEPT !.options = @ \cup t.vals, !.valid = TRUE]
      ELSE IF k = "MODE"
      THEN [r EXCEPT !.keys[k] = val, !.valid = TRUE]
      ELSE [kept EXCEPT !.keys[k] = val,
                        !.options = IF k = "NAME" THEN @ \cup {t.attr} ELSE @,
                        !.import = IF k = "IMPORT" THEN t.attr ELSE @]
  BY DEF AddKey, k, val, kept
<1> QED
  BY <1>5, <1>7, <1>8, <1>9, <1>10, <1>11, <1>12, Zenon

LEMMA ParseLineType ==
  ASSUME NEW line \in Seq(Token)
  PROVE  ParseLine(line) \in RuleT
<1> DEFINE op == [x \in RuleT \X Token |-> AddKey(x[1], x[2])]
           Is(f) == f = [n \in 0 .. Len(line) |->
                           IF n = 0 THEN Blank ELSE AddKey(f[n - 1], line[n])]
<1>1. Blank \in RuleT
  <2>2. [k \in Single |-> Unset] \in [Single -> KeyT]
    BY DEF Unset, KeyT
  <2>3. [k \in Pairs |-> <<>>] \in PairsT
    <3>1. "ENV" \in Pairs /\ <<>> \in Seq(PairT) /\ <<>> \in Seq(EnvT)
      BY DEF Pairs
    <3> QED
      BY <3>1 DEF PairsT
  <2> DEFINE ks == [k \in Single |-> Unset]
             ps == [k \in Pairs |-> <<>>]
  <2>4. ks \in [Single -> KeyT] /\ ps \in PairsT
    BY <2>2, <2>3
  <2> HIDE DEF ks, ps
  <2>5. [keys |-> ks, pairs |-> ps, options |-> {}, first |-> {}, import |-> "",
         valid |-> FALSE, bad |-> FALSE] \in RuleT
    BY <2>4 DEF RuleT
  <2> QED
    BY <2>5 DEF Blank, ks, ps
<1>2. \A x \in RuleT, y \in Token : op[<<x, y>>] \in RuleT
  BY AddKeyType
<1>3. ParseLine(line) = (CHOOSE f : Is(f))[Len(line)]
  BY DEF ParseLine
<1>4. Len(line) \in Nat /\ \A i \in 1 .. Len(line) : line[i] \in Token
  OBVIOUS
<1>5. PICK f \in [0 .. Len(line) -> RuleT] :
        Along(f, op, Blank, line)
  <2> HIDE DEF op
  <2> QED
    BY <1>1, <1>2, AlongExists, Zenon
<1>6. Is(f)
  <2>1. ASSUME NEW n \in 1 .. Len(line) PROVE f[n] = AddKey(f[n - 1], line[n])
    <3>1. n - 1 \in 0 .. Len(line)
      BY <1>4
    <3>2. f[n - 1] \in RuleT
      BY <1>5, <3>1
    <3>3. line[n] \in Token
      BY <1>4
    <3> QED
      BY <1>5, <3>2, <3>3 DEF Along
  <2>2. \A n \in 0 .. Len(line) : n # 0 => n \in 1 .. Len(line)
    BY <1>4
  <2>3. f = [n \in 0 .. Len(line) |-> f[n]]
    BY <1>5
  <2>4. \A n \in 0 .. Len(line) :
          f[n] = IF n = 0 THEN Blank ELSE AddKey(f[n - 1], line[n])
    BY <1>5, <2>1, <2>2, Zenon DEF Along
  <2> QED
    BY <2>3, <2>4, Zenon
<1>7. PICK g : Is(g) /\ ParseLine(line) = g[Len(line)]
  <2> HIDE DEF Is
  <2> QED
    BY <1>3, <1>6
<1>8. g[0] = Blank /\ \A n \in 1 .. Len(line) : g[n] = AddKey(g[n - 1], line[n])
  <2>1. \A n \in 0 .. Len(line) :
          g[n] = IF n = 0 THEN Blank ELSE AddKey(g[n - 1], line[n])
    BY <1>7, Zenon
  <2>2. 0 \in 0 .. Len(line) /\ \A n \in 1 .. Len(line) : n \in 0 .. Len(line) /\ n # 0
    BY <1>4
  <2> QED
    BY <2>1, <2>2, Zenon
<1> DEFINE S == RuleT
<1>10. g[0] \in S /\ \A n \in 1 .. Len(line) : g[n - 1] \in S => g[n] \in S
  BY <1>1, <1>4, <1>8, AddKeyType, Zenon
<1> HIDE DEF S
<1>11. g[Len(line)] \in S
  BY <1>4, <1>10, AlongStays, Zenon
<1> QED
  BY <1>7, <1>11 DEF S

LEMMA ParseFileType ==
  ASSUME NEW lines \in Seq(Seq(Token))
  PROVE  ParseFile(lines) \in Seq(RuleT)
<1> DEFINE More(s, line) == IF Kept(ParseLine(line)) THEN Append(s, ParseLine(line)) ELSE s
           op == [x \in Seq(RuleT) \X Seq(Token) |-> More(x[1], x[2])]
           Is(f) == f = [n \in 0 .. Len(lines) |->
                           IF n = 0 THEN <<>> ELSE More(f[n - 1], lines[n])]
<1>1. ASSUME NEW s \in Seq(RuleT), NEW line \in Seq(Token)
      PROVE  More(s, line) \in Seq(RuleT)
  <2>1. ParseLine(line) \in RuleT
    BY ParseLineType
  <2> QED
    BY <2>1
<1>3. ParseFile(lines) = (CHOOSE f : Is(f))[Len(lines)]
  BY DEF ParseFile
<1> HIDE DEF More
<1>2. \A x \in Seq(RuleT), y \in Seq(Token) : op[<<x, y>>] \in Seq(RuleT)
  BY <1>1
<1>4. Len(lines) \in Nat /\ \A i \in 1 .. Len(lines) : lines[i] \in Seq(Token)
  OBVIOUS
<1>5. PICK f \in [0 .. Len(lines) -> Seq(RuleT)] :
        Along(f, op, <<>>, lines)
  <2>1. <<>> \in Seq(RuleT)
    OBVIOUS
  <2> HIDE DEF op
  <2> QED
    BY <1>2, <2>1, AlongExists, Zenon
<1>6. Is(f)
  <2>1. ASSUME NEW n \in 1 .. Len(lines) PROVE f[n] = More(f[n - 1], lines[n])
    <3>1. n - 1 \in 0 .. Len(lines)
      BY <1>4
    <3>2. f[n - 1] \in Seq(RuleT)
      BY <1>5, <3>1
    <3>3. lines[n] \in Seq(Token)
      BY <1>4
    <3> QED
      BY <1>5, <3>2, <3>3 DEF Along
  <2>2. \A n \in 0 .. Len(lines) : n # 0 => n \in 1 .. Len(lines)
    BY <1>4
  <2>3. f = [n \in 0 .. Len(lines) |-> f[n]]
    BY <1>5
  <2>4. \A n \in 0 .. Len(lines) :
          f[n] = IF n = 0 THEN <<>> ELSE More(f[n - 1], lines[n])
    BY <1>5, <2>1, <2>2, Zenon DEF Along
  <2> QED
    BY <2>3, <2>4, Zenon
<1>7. PICK g : Is(g) /\ ParseFile(lines) = g[Len(lines)]
  <2> HIDE DEF Is
  <2> QED
    BY <1>3, <1>6
<1>8. g[0] = <<>> /\ \A n \in 1 .. Len(lines) : g[n] = More(g[n - 1], lines[n])
  <2>1. \A n \in 0 .. Len(lines) :
          g[n] = IF n = 0 THEN <<>> ELSE More(g[n - 1], lines[n])
    BY <1>7, Zenon
  <2>2. 0 \in 0 .. Len(lines) /\ \A n \in 1 .. Len(lines) : n \in 0 .. Len(lines) /\ n # 0
    BY <1>4
  <2> QED
    BY <2>1, <2>2, Zenon
<1>9. <<>> \in Seq(RuleT)
  OBVIOUS
<1> DEFINE S == Seq(RuleT)
<1>10. g[0] \in S /\ \A n \in 1 .. Len(lines) : g[n - 1] \in S => g[n] \in S
  BY <1>1, <1>4, <1>8, <1>9, Zenon
<1> HIDE DEF S
<1>11. g[Len(lines)] \in S
  BY <1>4, <1>10, AlongStays, Zenon
<1> QED
  BY <1>7, <1>11 DEF S
--------------------------------------------------------------------------------
(* What an event has collected, and what a rule changes of it.               *)

Results == Outputs \cup {""}
IsEvent(u) ==
  u \in [name : {u.name}, name_set : BOOLEAN, links : {u.links},
         links_final : BOOLEAN, run : {u.run}, run_final : BOOLEAN,
         result : Results, perm : {u.perm}, final : [Perms -> BOOLEAN],
         ignore_device : BOOLEAN, ignore_remove : {u.ignore_remove},
         prio : {u.prio}, env : {u.env}]

\* w is u after a match: another result and environment.
Like(w, u) == \E res, e : res \in Results /\ w = [u EXCEPT !.result = res, !.env = e]

LEMMA LikeFacts ==
  ASSUME NEW u, NEW w, IsEvent(u), Like(w, u)
  PROVE  /\ IsEvent(w)
         /\ w.name = u.name /\ w.name_set = u.name_set
         /\ w.links = u.links /\ w.links_final = u.links_final
         /\ w.run = u.run /\ w.run_final = u.run_final
         /\ w.perm = u.perm /\ w.final = u.final
         /\ w.ignore_device = u.ignore_device
<1>1. PICK res, e : res \in Results /\ w = [u EXCEPT !.result = res, !.env = e]
  BY DEF Like
<1> QED
  BY <1>1 DEF IsEvent

\* Changes of the result and of the environment, one by one.
LEMMA LikeSteps ==
  ASSUME NEW u, IsEvent(u)
  PROVE  /\ Like(u, u)
         /\ \A res \in Results : Like([u EXCEPT !.result = res], u)
         /\ \A e : Like([u EXCEPT !.env = e], u)
<1>1. u = [u EXCEPT !.result = u.result, !.env = u.env] /\ u.result \in Results
  BY DEF IsEvent
<1>2. ASSUME NEW res \in Results
      PROVE  [u EXCEPT !.result = res] = [u EXCEPT !.result = res, !.env = u.env]
  BY DEF IsEvent
<1>3. ASSUME NEW e
      PROVE  [u EXCEPT !.env = e] = [u EXCEPT !.result = u.result, !.env = e]
  BY DEF IsEvent
<1> QED
  BY <1>1, <1>2, <1>3, Zenon DEF Like

LEMMA LikeTrans ==
  ASSUME NEW u, NEW v, NEW w, IsEvent(u), Like(v, u), Like(w, v)
  PROVE  Like(w, u)
<1>1. PICK res, e : res \in Results /\ v = [u EXCEPT !.result = res, !.env = e]
  BY DEF Like
<1>2. PICK res2, e2 : res2 \in Results /\ w = [v EXCEPT !.result = res2, !.env = e2]
  BY DEF Like
<1>3. w = [u EXCEPT !.result = res2, !.env = e2]
  BY <1>1, <1>2 DEF IsEvent
<1> QED
  BY <1>3 DEF Like

\* match_rule leaves an event that differs in its result and environment only.
LEMMA MatchKeeps ==
  ASSUME NEW r, NEW u, IsEvent(u), NEW m \in MatchRule(r, u)
  PROVE  m[2] \in BOOLEAN /\ Like(m[1], u)
<1>1. ASSUME NEW p \in Programmed(r, u) PROVE p[2] \in BOOLEAN /\ Like(p[1], u)
  <2>1. PICK b, v : b \in BOOLEAN /\ p = <<v, b>> /\ Like(v, u)
    <3> DEFINE no  == r.keys["PROGRAM"].op = "!="
               yes == r.keys["PROGRAM"].op # "!="
    <3>1. \/ p = <<u, TRUE>> \/ p = <<[u EXCEPT !.result = ""], no>>
          \/ \E out \in Outputs : p = <<[u EXCEPT !.result = out], yes>>
      BY Zenon DEF Programmed
    <3>2. TRUE \in BOOLEAN /\ no \in BOOLEAN /\ yes \in BOOLEAN
      OBVIOUS
    <3>3. "" \in Results /\ \A out \in Outputs : out \in Results
      BY DEF Results
    <3> HIDE DEF no, yes
    <3> QED
      BY <3>1, <3>2, <3>3, LikeSteps, Zenon
  <2> QED
    BY <2>1
<1>2. ASSUME NEW v, IsEvent(v), NEW i \in Imported(r, v)
      PROVE  i[2] \in BOOLEAN /\ Like(i[1], v)
  <2>1. PICK b, w : b \in BOOLEAN /\ i = <<w, b>> /\ Like(w, v)
    <3> DEFINE no == r.keys["IMPORT"].op = "!="
               Env(keys) == IF r.import = "parent" THEN ImportParent(v.env, keys)
                            ELSE ImportKeys(v.env, keys)
    <3>1. \/ i = <<v, TRUE>> \/ i = <<v, no>>
          \/ \E keys \in Imports : i = <<[v EXCEPT !.env = Env(keys)], TRUE>>
      BY Zenon DEF Imported
    <3>2. TRUE \in BOOLEAN /\ no \in BOOLEAN
      OBVIOUS
    <3> HIDE DEF no, Env
    <3> QED
      BY <1>2, <3>1, <3>2, LikeSteps, Zenon
  <2> QED
    BY <2>1
<1> DEFINE Imp(p, i) == IF i[2]
                        THEN <<[i[1] EXCEPT !.env = AssignEnv(r, i[1])], TRUE>>
                        ELSE <<i[1], FALSE>>
           Prog(p) == IF ~p[2] \/ ~KeyMatches(r.keys["RESULT"], p[1].result)
                      THEN {<<p[1], FALSE>>}
                      ELSE {Imp(p, i) : i \in Imported(r, p[1])}
           Dev(exists, found) == IF ~MatchesDevice(r, u, exists, found) THEN {<<u, FALSE>>}
                                 ELSE UNION {Prog(p) : p \in Programmed(r, u)}
<1>3. MatchRule(r, u) = UNION {Dev(exists, found) : exists, found \in BOOLEAN}
  BY DEF MatchRule
<1>4. \/ m = <<u, FALSE>>
      \/ \E p \in Programmed(r, u) : m \in Prog(p)
  <2> HIDE DEF Prog
  <2>1. PICK exists, found \in BOOLEAN : m \in Dev(exists, found)
    <3> HIDE DEF Dev
    <3> QED
      BY <1>3
  <2>2. m \in {<<u, FALSE>>} \/ m \in UNION {Prog(p) : p \in Programmed(r, u)}
    BY <2>1, Zenon
  <2> QED
    BY <2>2, Zenon
<1>5. CASE m = <<u, FALSE>>
  BY <1>5, LikeSteps
<1>6. ASSUME NEW p \in Programmed(r, u), m \in Prog(p)
      PROVE  m[2] \in BOOLEAN /\ Like(m[1], u)
  <2>1. Like(p[1], u) /\ IsEvent(p[1])
    BY <1>1, LikeFacts
  <2>2. m = <<p[1], FALSE>> \/ \E i \in Imported(r, p[1]) : m = Imp(p, i)
    <3> HIDE DEF Imp
    <3> QED
      BY <1>6
  <2>3. CASE m = <<p[1], FALSE>>
    BY <2>1, <2>3
  <2>4. ASSUME NEW i \in Imported(r, p[1]), m = Imp(p, i)
        PROVE  m[2] \in BOOLEAN /\ Like(m[1], u)
    <3>1. Like(i[1], u) /\ IsEvent(i[1])
      BY <1>2, <2>1, LikeTrans, LikeFacts
    <3> DEFINE w == [i[1] EXCEPT !.env = AssignEnv(r, i[1])]
    <3>2. Like(w, u)
      BY <3>1, LikeSteps, LikeTrans
    <3>3. m = <<w, TRUE>> \/ m = <<i[1], FALSE>>
      BY <2>4, Zenon
    <3> HIDE DEF w
    <3>4. CASE m = <<w, TRUE>>
      BY <3>2, <3>4
    <3>5. CASE m = <<i[1], FALSE>>
      BY <3>1, <3>5
    <3> QED
      BY <3>3, <3>4, <3>5, Zenon
  <2> QED
    BY <2>2, <2>3, <2>4, Zenon
<1> QED
  BY <1>4, <1>5, <1>6, Zenon

\* What a rule that sets a key makes of the event: its programs, links, name and
\* permissions.
RunGiven(w, u, r) ==
  IF u.run_final \/ ~IsSet(r, "RUN")
  THEN w.run = u.run /\ (w.run_final <=> u.run_final)
  ELSE /\ w.run = (IF Resets(r.keys["RUN"].op) THEN {} ELSE u.run)
                   \cup r.keys["RUN"].vals
       /\ w.run_final <=> r.keys["RUN"].op = ":="
LinksGiven(w, u, r, result) ==
  IF u.links_final \/ ~IsSet(r, "SYMLINK")
  THEN w.links = u.links /\ (w.links_final <=> u.links_final)
  ELSE /\ w.links = (IF Resets(r.keys["SYMLINK"].op) THEN {} ELSE u.links)
                     \cup {Subst(v, result) : v \in r.keys["SYMLINK"].vals}
       /\ w.links_final <=> r.keys["SYMLINK"].op = ":="
NameGiven(w, u, r, result) ==
  IF Assigns(r.keys["NAME"].op)
  THEN w.name_set /\ w.name = Value(r.keys["NAME"], result)
  ELSE w.name = u.name /\ w.name_set = u.name_set
PermGiven(w, u, r, result) ==
  \A k \in Perms :
    /\ w.final[k] <=> u.final[k] \/ r.keys[k].op = ":="
    /\ w.perm[k] = IF IsSet(r, k) /\ ~u.final[k]
                   THEN Value(r.keys[k], result) ELSE u.perm[k]

\* What each part of a rule changes of the event.
LEMMA AddRunFacts ==
  ASSUME NEW r \in RuleT, NEW u, IsEvent(u)
  PROVE  LET w == AddRun(r, u)
         IN  /\ IsEvent(w)
             /\ w.name = u.name /\ w.name_set = u.name_set
             /\ w.links = u.links /\ w.links_final = u.links_final
             /\ w.perm = u.perm /\ w.final = u.final
             /\ w.ignore_device = u.ignore_device /\ w.result = u.result
             /\ RunGiven(w, u, r)
<1> USE DEF RunGiven
<1>1. CASE u.run_final \/ ~IsSet(r, "RUN")
  BY <1>1 DEF AddRun, IsSet
<1>2. CASE ~(u.run_final \/ ~IsSet(r, "RUN"))
  <2> DEFINE run == (IF Resets(r.keys["RUN"].op) THEN {} ELSE u.run)
                      \cup r.keys["RUN"].vals
             fin == r.keys["RUN"].op = ":="
  <2>1. fin \in BOOLEAN
    OBVIOUS
  <2>2. AddRun(r, u) = [u EXCEPT !.run_final = fin, !.run = run]
    BY <1>2 DEF AddRun, IsSet, IsEvent
  <2> HIDE DEF run, fin
  <2>3. /\ IsEvent([u EXCEPT !.run_final = fin, !.run = run])
        /\ [u EXCEPT !.run_final = fin, !.run = run].run = run
        /\ [u EXCEPT !.run_final = fin, !.run = run].run_final = fin
    BY <2>1 DEF IsEvent
  <2> QED
    BY <1>2, <2>1, <2>2, <2>3 DEF run, fin, IsEvent
<1> QED
  BY <1>1, <1>2, Zenon

LEMMA AddLinksFacts ==
  ASSUME NEW r \in RuleT, NEW u, IsEvent(u)
  PROVE  LET w == AddLinks(r, u)
         IN  /\ IsEvent(w)
             /\ w.name = u.name /\ w.name_set = u.name_set
             /\ w.run = u.run /\ w.run_final = u.run_final
             /\ w.perm = u.perm /\ w.final = u.final
             /\ w.ignore_device = u.ignore_device /\ w.result = u.result
             /\ LinksGiven(w, u, r, u.result)
<1> USE DEF LinksGiven
<1>1. CASE u.links_final \/ ~IsSet(r, "SYMLINK")
  BY <1>1 DEF AddLinks, IsSet
<1>2. CASE ~(u.links_final \/ ~IsSet(r, "SYMLINK"))
  <2> DEFINE links == (IF Resets(r.keys["SYMLINK"].op) THEN {} ELSE u.links)
                        \cup {Subst(v, u.result) : v \in r.keys["SYMLINK"].vals}
             fin == r.keys["SYMLINK"].op = ":="
  <2>1. fin \in BOOLEAN
    OBVIOUS
  <2>2. AddLinks(r, u) = [u EXCEPT !.links_final = fin, !.links = links]
    BY <1>2 DEF AddLinks, IsSet, IsEvent
  <2> HIDE DEF links, fin
  <2>3. /\ IsEvent([u EXCEPT !.links_final = fin, !.links = links])
        /\ [u EXCEPT !.links_final = fin, !.links = links].links = links
        /\ [u EXCEPT !.links_final = fin, !.links = links].links_final = fin
    BY <2>1 DEF IsEvent
  <2> QED
    BY <1>2, <2>1, <2>2, <2>3 DEF links, fin, IsEvent
<1> QED
  BY <1>1, <1>2, Zenon

LEMMA SetNameFacts ==
  ASSUME NEW r \in RuleT, NEW u, IsEvent(u)
  PROVE  LET w == SetName(r, u)
         IN  /\ IsEvent(w)
             /\ w.links = u.links /\ w.links_final = u.links_final
             /\ w.run = u.run /\ w.run_final = u.run_final
             /\ w.perm = u.perm /\ w.final = u.final
             /\ w.ignore_device = u.ignore_device /\ w.result = u.result
             /\ NameGiven(w, u, r, u.result)
<1> USE DEF NameGiven
<1>1. PICK v : v = Value(r.keys["NAME"], u.result)
  OBVIOUS
<1>2. CASE Assigns(r.keys["NAME"].op)
  <2>1. SetName(r, u) = [u EXCEPT !.name_set = TRUE, !.name = v]
    BY <1>1, <1>2 DEF SetName
  <2> QED
    BY <1>1, <1>2, <2>1 DEF IsEvent
<1>3. CASE ~Assigns(r.keys["NAME"].op)
  BY <1>3 DEF SetName
<1> QED
  BY <1>2, <1>3, Zenon

LEMMA PermitFacts ==
  ASSUME NEW r \in RuleT, NEW u, IsEvent(u)
  PROVE  LET w == Permit(r, u)
         IN  /\ IsEvent(w)
             /\ w.name = u.name /\ w.name_set = u.name_set
             /\ w.links = u.links /\ w.links_final = u.links_final
             /\ w.run = u.run /\ w.run_final = u.run_final
             /\ w.ignore_device = u.ignore_device /\ w.result = u.result
             /\ PermGiven(w, u, r, u.result)
<1> USE DEF PermGiven
<1>1. PICK perm : perm = [k \in Perms |-> IF IsSet(r, k) /\ ~u.final[k]
                            THEN Value(r.keys[k], u.result) ELSE u.perm[k]]
  OBVIOUS
<1>2. PICK fin : fin = [k \in Perms |-> u.final[k] \/ r.keys[k].op = ":="]
  OBVIOUS
<1>0. PICK w : w = [u EXCEPT !.perm = perm, !.final = fin]
  OBVIOUS
<1>3. Permit(r, u) = w
  BY <1>0, <1>1, <1>2, Zenon DEF Permit
<1>4. fin \in [Perms -> BOOLEAN]
  BY <1>2
<1>5. /\ IsEvent(w) /\ w.perm = perm /\ w.final = fin
      /\ w.name = u.name /\ w.name_set = u.name_set
      /\ w.links = u.links /\ w.links_final = u.links_final
      /\ w.run = u.run /\ w.run_final = u.run_final
      /\ w.ignore_device = u.ignore_device /\ w.result = u.result
  BY <1>0, <1>4 DEF IsEvent
<1>6. \A k \in Perms :
        /\ fin[k] <=> u.final[k] \/ r.keys[k].op = ":="
        /\ perm[k] = IF IsSet(r, k) /\ ~u.final[k]
                     THEN Value(r.keys[k], u.result) ELSE u.perm[k]
  BY <1>1, <1>2, Zenon
<1>7. PermGiven(w, u, r, u.result)
  BY <1>5, <1>6, Zenon
<1> QED
  BY <1>3, <1>5, <1>7, Zenon

LEMMA OptionsFacts ==
  ASSUME NEW r \in RuleT, NEW u, IsEvent(u)
  PROVE  LET w == Options(r, u)
         IN  /\ IsEvent(w)
             /\ w.name = u.name /\ w.name_set = u.name_set
             /\ w.links = u.links /\ w.links_final = u.links_final
             /\ w.run = u.run /\ w.run_final = u.run_final
             /\ w.perm = u.perm /\ w.final = u.final
             /\ w.ignore_device = u.ignore_device /\ w.result = u.result
<1>1. PICK ir, pr : Options(r, u) = [u EXCEPT !.ignore_remove = ir, !.prio = pr]
  BY DEF Options
<1> QED
  BY <1>1 DEF IsEvent

\* A key that is there has a value, which is one of those it may give.
LEMMA ValueGiven ==
  ASSUME NEW r \in RuleT, NEW k \in Single, IsSet(r, k), NEW result
  PROVE  Value(r.keys[k], result) \in {Subst(v, result) : v \in r.keys[k].vals}
<1>1. r.keys[k] \in KeyT /\ r.keys[k].op # "unset"
  BY DEF RuleT, IsSet
<1>2. r.keys[k].vals # {}
  BY <1>1 DEF KeyT
<1>3. (CHOOSE v \in r.keys[k].vals : TRUE) \in r.keys[k].vals
  BY <1>2, Zenon
<1> QED
  BY <1>3, Zenon DEF Value
--------------------------------------------------------------------------------
(* The inductive invariant.                                                  *)

Applied == [rule : 1 .. Len(rulebuf), result : Results]

RulesTypeOK ==
  /\ rulebuf \in Seq(RuleT) /\ applied \in Seq(Applied)
  /\ current \in Nat \ {0} /\ IsEvent(udev)
  /\ done \in BOOLEAN /\ call \in {"get_name", "get_run"}
  /\ ~done => ~udev.ignore_device

\* Where the next rule is, after the last one applied.
NextInv ==
  ~done /\ applied # <<>> =>
    LET from == applied[Len(applied)].rule
    IN  /\ from < current
        /\ current <= Len(rulebuf) =>
             /\ "last_rule" \notin rulebuf[from].options
             /\ IsSet(rulebuf[from], "GOTO") =>
                  \E i \in from + 1 .. current :
                     LabelOf(rulebuf[i]) = rulebuf[from].keys["GOTO"].vals

\* The rules applied that name the device, before the event is done.
Named == {j \in DOMAIN applied : Assigns(Written(j).keys["NAME"].op)}
NameInv ==
  call = "get_name" /\ ~udev.ignore_device =>
    IF udev.name_set
    THEN \E j \in Named : Named = {j} /\ udev.name \in Collected("NAME", j)
    ELSE Named = {} /\ (done => udev.name = Chain[1].KERNEL)

\* What has been collected so far, and whether it may still change.
Final(k) == \E j \in DOMAIN applied : Written(j).keys[k].op = ":="
LinksInv ==
  call = "get_name" =>
    /\ udev.links_final <=> Final("SYMLINK")
    /\ udev.links = UNION {Collected("SYMLINK", j) : j \in Lasting("SYMLINK")}
RunInv ==
  /\ udev.run_final <=> Final("RUN")
  /\ udev.run = UNION {Written(j).keys["RUN"].vals : j \in Lasting("RUN")}
PermInv ==
  call = "get_name" => \A k \in Perms :
    /\ udev.final[k] <=> Final(k)
    /\ \A j \in Effective(k) : (\A i \in Effective(k) : i <= j) =>
         udev.perm[k] \in Collected(k, j)
CollectedInv == ~udev.ignore_device => LinksInv /\ RunInv /\ PermInv

RulesInv == RulesTypeOK /\ OrderAsWritten /\ NextInv /\ NameInv /\ CollectedInv

\* When a rule is applied, it is written last.
LEMMA AppendFacts ==
  ASSUME RulesTypeOK, rulebuf' = rulebuf, NEW e \in Applied,
         applied' = Append(applied, e), NEW n, n = Len(applied)
  PROVE  /\ n \in Nat /\ DOMAIN applied = 1 .. n /\ DOMAIN applied' = 1 .. n + 1
         /\ \A j \in 1 .. n : applied'[j] = applied[j] /\ Written(j)' = Written(j)
         /\ \A j \in 1 .. n : Written(j) \in RuleT
         /\ applied'[n + 1] = e /\ Written(n + 1)' = rulebuf[e.rule]
         /\ rulebuf[e.rule] \in RuleT
<1>1. applied \in Seq(Applied) /\ rulebuf \in Seq(RuleT)
  BY DEF RulesTypeOK
<1>2. n \in Nat /\ DOMAIN applied = 1 .. n /\ DOMAIN applied' = 1 .. n + 1
  BY <1>1
<1>3. \A j \in 1 .. n : applied'[j] = applied[j]
  BY <1>1
<1>4. applied'[n + 1] = e
  BY <1>1
<1>5. \A j \in 1 .. n : applied[j].rule \in 1 .. Len(rulebuf)
  <2>1. \A j \in 1 .. n : applied[j] \in Applied
    BY <1>1
  <2> QED
    BY <2>1 DEF Applied
<1>6. e.rule \in 1 .. Len(rulebuf)
  BY DEF Applied
<1> QED
  BY <1>1, <1>2, <1>3, <1>4, <1>5, <1>6 DEF Written

LEMMA ListStep ==
  ASSUME RulesTypeOK, rulebuf' = rulebuf, NEW e \in Applied,
         applied' = Append(applied, e), NEW n, n = Len(applied), NEW k \in Single,
         NEW r, r = rulebuf[e.rule]
  PROVE  /\ Final(k)' <=> Final(k) \/ r.keys[k].op = ":="
         /\ \A j \in 1 .. n : Collected(k, j)' = Collected(k, j)
         /\ Collected(k, n + 1)' = {Subst(v, e.result) : v \in r.keys[k].vals}
         /\ IF IsSet(r, k) /\ ~Final(k)
            THEN /\ Effective(k)' = Effective(k) \cup {n + 1}
                 /\ Lasting(k)' = IF Resets(r.keys[k].op) THEN {n + 1}
                                  ELSE Lasting(k) \cup {n + 1}
            ELSE Effective(k)' = Effective(k) /\ Lasting(k)' = Lasting(k)
<1>1. /\ n \in Nat /\ DOMAIN applied = 1 .. n /\ DOMAIN applied' = 1 .. n + 1
      /\ \A j \in 1 .. n : applied'[j] = applied[j] /\ Written(j)' = Written(j)
      /\ applied'[n + 1] = e /\ Written(n + 1)' = r
  BY AppendFacts
<1>2. Final(k)' <=> Final(k) \/ r.keys[k].op = ":="
  BY <1>1 DEF Final
<1>3. \A j \in 1 .. n : Collected(k, j)' = Collected(k, j)
  BY <1>1 DEF Collected
<1>4. Collected(k, n + 1)' = {Subst(v, e.result) : v \in r.keys[k].vals}
  BY <1>1 DEF Collected
<1>5. Effective(k)' = IF IsSet(r, k) /\ ~Final(k)
                      THEN Effective(k) \cup {n + 1} ELSE Effective(k)
  BY <1>1 DEF Effective, Final
<1>6. Effective(k) \subseteq 1 .. n
  BY <1>1 DEF Effective
<1>7. Lasting(k)' = IF IsSet(r, k) /\ ~Final(k)
                    THEN IF Resets(r.keys[k].op) THEN {n + 1}
                         ELSE Lasting(k) \cup {n + 1}
                    ELSE Lasting(k)
  BY <1>1, <1>5, <1>6 DEF Lasting
<1> QED
  BY <1>2, <1>3, <1>4, <1>5, <1>7

\* While no rule is applied, what has been written stays.
LEMMA SameLists ==
  ASSUME rulebuf' = rulebuf, applied' = applied
  PROVE  /\ OrderAsWritten' <=> OrderAsWritten
         /\ Named' = Named
         /\ \A j : Collected("NAME", j)' = Collected("NAME", j)
BY DEF OrderAsWritten, Named, Collected, Written, LabelOf, IsSet

LEMMA SameCollected ==
  ASSUME rulebuf' = rulebuf, applied' = applied, call' = call,
         CollectedInv, ~udev.ignore_device,
         udev'.links = udev.links, udev'.links_final = udev.links_final,
         udev'.run = udev.run, udev'.run_final = udev.run_final,
         udev'.perm = udev.perm, udev'.final = udev.final
  PROVE  CollectedInv'
<1> USE DEF Final, Effective, Lasting, Collected, Written, IsSet
<1>1. LinksInv'
  BY DEF CollectedInv, LinksInv
<1>2. RunInv'
  BY DEF CollectedInv, RunInv
<1>3. PermInv'
  BY DEF CollectedInv, PermInv
<1> QED
  BY <1>1, <1>2, <1>3 DEF CollectedInv

\* A rule that is ignored or does not match.
LEMMA QuietStep ==
  ASSUME RulesInv, ~done, current <= Len(rulebuf), Like(udev', udev),
         current' = current + 1, UNCHANGED <<rulebuf, action, call, done, applied>>
  PROVE  RulesInv'
<1>1. /\ IsEvent(udev)' /\ udev'.name = udev.name /\ udev'.name_set = udev.name_set
      /\ udev'.links = udev.links /\ udev'.links_final = udev.links_final
      /\ udev'.run = udev.run /\ udev'.run_final = udev.run_final
      /\ udev'.perm = udev.perm /\ udev'.final = udev.final
      /\ udev'.ignore_device = udev.ignore_device
  <2>1. IsEvent(udev)
    BY DEF RulesInv, RulesTypeOK
  <2>2. PICK w : w = udev'
    OBVIOUS
  <2>3. IsEvent(w)
    BY <2>1, <2>2, LikeFacts
  <2>4. IsEvent(udev)'
    BY <2>2, <2>3 DEF IsEvent
  <2> QED
    BY <2>1, <2>4, LikeFacts
<1>2. RulesTypeOK'
  BY <1>1 DEF RulesInv, RulesTypeOK, Applied
<1>3. OrderAsWritten'
  BY SameLists DEF RulesInv
<1>4. NextInv'
  <2> SUFFICES ASSUME applied # <<>> PROVE NextInv'
    BY DEF NextInv
  <2>1. PICK from : from = applied[Len(applied)].rule
    OBVIOUS
  <2>2. from \in Nat /\ current \in Nat
    <3>1. applied[Len(applied)] \in Applied
      BY DEF RulesInv, RulesTypeOK
    <3> QED
      BY <2>1, <3>1 DEF Applied, RulesInv, RulesTypeOK
  <2>3. /\ from < current /\ "last_rule" \notin rulebuf[from].options
        /\ IsSet(rulebuf[from], "GOTO") =>
             \E i \in from + 1 .. current :
               LabelOf(rulebuf[i]) = rulebuf[from].keys["GOTO"].vals
    BY <2>1, Zenon DEF RulesInv, NextInv
  <2>4. /\ from < current + 1
        /\ IsSet(rulebuf[from], "GOTO") =>
             \E i \in from + 1 .. current + 1 :
               LabelOf(rulebuf[i]) = rulebuf[from].keys["GOTO"].vals
    BY <2>2, <2>3
  <2> QED
    BY <2>1, <2>3, <2>4 DEF NextInv, LabelOf, IsSet
<1>5. NameInv'
  BY <1>1, SameLists DEF RulesInv, RulesTypeOK, NameInv
<1>6. CollectedInv'
  BY <1>1, SameCollected DEF RulesInv, RulesTypeOK
<1> QED
  BY <1>2, <1>3, <1>4, <1>5, <1>6 DEF RulesInv

\* The end of the rules.
LEMMA DoneStep ==
  ASSUME RulesInv, RulesDone
  PROVE  RulesInv'
<1>1. PICK nm : udev' = [udev EXCEPT !.name = nm] /\
        nm = IF call = "get_name" /\ ~udev.name_set THEN Chain[1].KERNEL ELSE udev.name
  BY DEF RulesDone
<1>2. /\ IsEvent(udev)' /\ udev'.name = nm /\ udev'.name_set = udev.name_set
      /\ udev'.links = udev.links /\ udev'.links_final = udev.links_final
      /\ udev'.run = udev.run /\ udev'.run_final = udev.run_final
      /\ udev'.perm = udev.perm /\ udev'.final = udev.final
      /\ udev'.ignore_device = udev.ignore_device
  BY <1>1 DEF RulesInv, RulesTypeOK, IsEvent
<1>3. RulesTypeOK'
  BY <1>2 DEF RulesInv, RulesTypeOK, RulesDone, Applied
<1>4. OrderAsWritten'
  BY SameLists DEF RulesInv, RulesDone
<1>5. NextInv'
  BY DEF NextInv, RulesDone
<1>6. NameInv'
  BY <1>1, <1>2, SameLists DEF RulesInv, RulesTypeOK, NameInv, RulesDone
<1>7. CollectedInv'
  BY <1>2, SameCollected DEF RulesInv, RulesTypeOK, RulesDone
<1> QED
  BY <1>3, <1>4, <1>5, <1>6, <1>7 DEF RulesInv

\* udev_rules_iter_label goes forward, to the label or behind the last rule.
LEMMA JumpFacts ==
  ASSUME rulebuf \in Seq(RuleT), NEW r, NEW next \in Nat \ {0}
  PROVE  /\ Jump(r, next) \in Nat \ {0}
         /\ Jump(r, next) <= Len(rulebuf) =>
              /\ next <= Jump(r, next)
              /\ LabelOf(rulebuf[Jump(r, next)]) = r.keys["GOTO"].vals
<1> DEFINE hits == {i \in next .. Len(rulebuf) :
                     LabelOf(rulebuf[i]) = r.keys["GOTO"].vals}
<1>1. CASE hits = {}
  BY <1>1 DEF Jump
<1>2. CASE hits # {}
  <2>1. hits \in SUBSET Nat
    OBVIOUS
  <2>2. PICK m : m = CHOOSE i \in hits : \A j \in hits : i <= j
    OBVIOUS
  <2>3. m \in hits
    <3> HIDE DEF hits
    <3> QED
      BY <1>2, <2>1, <2>2, LeastOf, Zenon
  <2>4. Jump(r, next) = m
    BY <1>2, <2>2, Zenon DEF Jump
  <2> QED
    BY <2>3, <2>4
<1> QED
  BY <1>1, <1>2, Zenon

\* A rule is written behind those before it.
LEMMA OrderStep ==
  ASSUME RulesInv, ~done, current <= Len(rulebuf), rulebuf' = rulebuf,
         NEW result \in Results,
         applied' = Append(applied, [rule |-> current, result |-> result])
  PROVE  OrderAsWritten'
<1>1. PICK n : n = Len(applied)
  OBVIOUS
<1>2. PICK e : e = [rule |-> current, result |-> result]
  OBVIOUS
<1>3. e \in Applied /\ e.rule = current
  BY <1>2 DEF Applied, RulesInv, RulesTypeOK
<1>4. /\ n \in Nat
      /\ \A j \in 1 .. n : applied'[j] = applied[j]
      /\ applied'[n + 1] = e
  BY <1>1, <1>2, <1>3, AppendFacts DEF RulesInv
<1>5. applied' \in Seq(Applied) /\ Len(applied') = n + 1
  BY <1>1, <1>2, <1>3 DEF RulesInv, RulesTypeOK
<1> DEFINE Fine(from, to) ==
             /\ from < to
             /\ "last_rule" \notin rulebuf[from].options
             /\ IsSet(rulebuf[from], "GOTO") =>
                  \E i \in from + 1 .. to :
                    LabelOf(rulebuf[i]) = rulebuf[from].keys["GOTO"].vals
<1>6. ASSUME NEW j \in 2 .. n + 1 PROVE Fine(applied'[j - 1].rule, applied'[j].rule)
  <2>1. CASE j \in 2 .. n
    <3>1. Fine(applied[j - 1].rule, applied[j].rule)
      BY <1>1, <2>1, Zenon DEF RulesInv, OrderAsWritten
    <3>3. j - 1 \in 1 .. n /\ j \in 1 .. n
      BY <1>4, <2>1
    <3>2. applied'[j - 1] = applied[j - 1] /\ applied'[j] = applied[j]
      BY <1>4, <3>3, Zenon
    <3> QED
      BY <3>1, <3>2, Zenon
  <2>2. CASE j = n + 1
    <3>1. n # 0 /\ applied # <<>>
      BY <1>1, <1>4, <2>2
    <3>2. Fine(applied[n].rule, current)
      BY <1>1, <3>1, Zenon DEF RulesInv, NextInv
    <3>4. j - 1 = n /\ n \in 1 .. n
      BY <1>4, <2>2, <3>1
    <3>3. applied'[j - 1] = applied[n] /\ applied'[j].rule = current
      BY <1>3, <1>4, <2>2, <3>4, Zenon
    <3> QED
      BY <3>2, <3>3, Zenon
  <2>3. j \in 2 .. n \/ j = n + 1
    BY <1>4
  <2> QED
    BY <2>1, <2>2, <2>3, Zenon
<1> QED
  BY <1>5, <1>6 DEF OrderAsWritten, LabelOf, IsSet

\* What a rule gives the event in udev_rules_get_name.
LEMMA ApplyFacts ==
  ASSUME NEW r \in RuleT, NEW u, IsEvent(u), NEW w,
         w = AddRun(r, SetName(r, AddLinks(r, Permit(r, Options(r, u)))))
  PROVE  /\ IsEvent(w) /\ w.ignore_device = u.ignore_device
         /\ RunGiven(w, u, r)
         /\ LinksGiven(w, u, r, u.result)
         /\ NameGiven(w, u, r, u.result)
         /\ PermGiven(w, u, r, u.result)
<1> USE DEF RunGiven, LinksGiven, NameGiven, PermGiven
<1>1. PICK u1 : u1 = Options(r, u)
  OBVIOUS
<1>2. PICK u2 : u2 = Permit(r, u1)
  OBVIOUS
<1>3. PICK u3 : u3 = AddLinks(r, u2)
  OBVIOUS
<1>4. PICK u4 : u4 = SetName(r, u3)
  OBVIOUS
<1>5. w = AddRun(r, u4)
  BY <1>1, <1>2, <1>3, <1>4
<1>6. IsEvent(u1) /\ IsEvent(u2) /\ IsEvent(u3) /\ IsEvent(u4)
  BY <1>1, <1>2, <1>3, <1>4, OptionsFacts, PermitFacts, AddLinksFacts, SetNameFacts, Zenon
<1>7. /\ u1.name = u.name /\ u1.name_set = u.name_set
      /\ u1.links = u.links /\ u1.links_final = u.links_final
      /\ u1.run = u.run /\ u1.run_final = u.run_final
      /\ u1.perm = u.perm /\ u1.final = u.final
      /\ u1.ignore_device = u.ignore_device /\ u1.result = u.result
  BY <1>1, OptionsFacts, Zenon
<1>8. /\ u2.name = u.name /\ u2.name_set = u.name_set
      /\ u2.links = u.links /\ u2.links_final = u.links_final
      /\ u2.run = u.run /\ u2.run_final = u.run_final
      /\ u2.ignore_device = u.ignore_device /\ u2.result = u.result
      /\ PermGiven(u2, u, r, u.result)
  BY <1>2, <1>6, <1>7, PermitFacts
<1>9. /\ u3.name = u.name /\ u3.name_set = u.name_set
      /\ u3.run = u.run /\ u3.run_final = u.run_final
      /\ u3.perm = u2.perm /\ u3.final = u2.final
      /\ u3.ignore_device = u.ignore_device /\ u3.result = u.result
      /\ LinksGiven(u3, u, r, u.result)
  BY <1>3, <1>6, <1>8, AddLinksFacts
<1>10. /\ u4.links = u3.links /\ u4.links_final = u3.links_final
       /\ u4.run = u.run /\ u4.run_final = u.run_final
       /\ u4.perm = u2.perm /\ u4.final = u2.final
       /\ u4.ignore_device = u.ignore_device /\ u4.result = u.result
       /\ NameGiven(u4, u, r, u.result)
  BY <1>4, <1>6, <1>9, SetNameFacts
<1>11. /\ IsEvent(w) /\ w.name = u4.name /\ w.name_set = u4.name_set
       /\ w.links = u4.links /\ w.links_final = u4.links_final
       /\ w.perm = u4.perm /\ w.final = u4.final
       /\ w.ignore_device = u.ignore_device
       /\ RunGiven(w, u, r)
  BY <1>5, <1>6, <1>10, AddRunFacts
<1> QED
  BY <1>8, <1>9, <1>10, <1>11

\* The rule at current, applied to w, which its match has left.
LEMMA RunStep ==
  ASSUME RulesInv, ~udev.ignore_device, rulebuf' = rulebuf,
         NEW e \in Applied, applied' = Append(applied, e), NEW r, r = rulebuf[e.rule],
         RunGiven(udev', udev, r)
  PROVE  RunInv'
<1> USE DEF RunGiven
<1>1. PICK n : n = Len(applied)
  OBVIOUS
<1>2. RulesTypeOK /\ RunInv
  BY DEF RulesInv, CollectedInv
<1>3. /\ n \in Nat /\ \A j \in 1 .. n : Written(j)' = Written(j)
      /\ Written(n + 1)' = r
  BY <1>1, <1>2, AppendFacts
<1>4. /\ Final("RUN")' <=> Final("RUN") \/ r.keys["RUN"].op = ":="
      /\ Lasting("RUN")' = IF IsSet(r, "RUN") /\ ~Final("RUN")
                           THEN IF Resets(r.keys["RUN"].op) THEN {n + 1}
                                ELSE Lasting("RUN") \cup {n + 1}
                           ELSE Lasting("RUN")
  <2>1. "RUN" \in Single
    BY DEF Single
  <2> QED
    BY <1>1, <1>2, <2>1, ListStep, Zenon
<1>5. Lasting("RUN") \subseteq 1 .. n
  BY <1>1, <1>2 DEF Lasting, Effective, RulesTypeOK
<1>6. udev'.run_final <=> Final("RUN")'
  BY <1>2, <1>4 DEF RunInv, IsSet
<1>7. udev'.run = UNION {Written(j)'.keys["RUN"].vals : j \in Lasting("RUN")'}
  <2>1. udev.run = UNION {Written(j)'.keys["RUN"].vals : j \in Lasting("RUN")}
    BY <1>2, <1>3, <1>5 DEF RunInv
  <2>2. CASE udev.run_final \/ ~IsSet(r, "RUN")
    BY <1>2, <1>4, <2>1, <2>2 DEF RunInv
  <2>3. CASE ~(udev.run_final \/ ~IsSet(r, "RUN"))
    BY <1>2, <1>3, <1>4, <2>1, <2>3 DEF RunInv
  <2> QED
    BY <2>2, <2>3, Zenon
<1> QED
  BY <1>6, <1>7 DEF RunInv

LEMMA LinksStep ==
  ASSUME RulesInv, ~udev.ignore_device, rulebuf' = rulebuf, call = "get_name",
         NEW e \in Applied, applied' = Append(applied, e), NEW r, r = rulebuf[e.rule],
         LinksGiven(udev', udev, r, e.result)
  PROVE  LinksInv'
<1> USE DEF LinksGiven
<1>1. PICK n : n = Len(applied)
  OBVIOUS
<1>2. RulesTypeOK /\ LinksInv
  BY DEF RulesInv, CollectedInv
<1>3. n \in Nat
  BY <1>1, <1>2, AppendFacts
<1>4. /\ Final("SYMLINK")' <=> Final("SYMLINK") \/ r.keys["SYMLINK"].op = ":="
      /\ Lasting("SYMLINK")' = IF IsSet(r, "SYMLINK") /\ ~Final("SYMLINK")
                               THEN IF Resets(r.keys["SYMLINK"].op) THEN {n + 1}
                                    ELSE Lasting("SYMLINK") \cup {n + 1}
                               ELSE Lasting("SYMLINK")
      /\ \A j \in 1 .. n : Collected("SYMLINK", j)' = Collected("SYMLINK", j)
      /\ Collected("SYMLINK", n + 1)' =
           {Subst(v, e.result) : v \in r.keys["SYMLINK"].vals}
  <2>1. "SYMLINK" \in Single
    BY DEF Single
  <2> QED
    BY <1>1, <1>2, <2>1, ListStep, Zenon
<1>5. Lasting("SYMLINK") \subseteq 1 .. n
  BY <1>1, <1>2 DEF Lasting, Effective, RulesTypeOK
<1>6. udev'.links_final <=> Final("SYMLINK")'
  BY <1>2, <1>4 DEF LinksInv, IsSet
<1>7. udev'.links = UNION {Collected("SYMLINK", j)' : j \in Lasting("SYMLINK")'}
  <2>1. udev.links = UNION {Collected("SYMLINK", j)' : j \in Lasting("SYMLINK")}
    BY <1>2, <1>4, <1>5 DEF LinksInv
  <2>2. CASE udev.links_final \/ ~IsSet(r, "SYMLINK")
    BY <1>2, <1>4, <2>1, <2>2 DEF LinksInv
  <2>3. CASE ~(udev.links_final \/ ~IsSet(r, "SYMLINK"))
    BY <1>2, <1>4, <2>1, <2>3 DEF LinksInv
  <2> QED
    BY <2>2, <2>3, Zenon
<1> QED
  BY <1>6, <1>7 DEF LinksInv

LEMMA PermList ==
  ASSUME RulesTypeOK, rulebuf' = rulebuf, NEW e \in Applied,
         applied' = Append(applied, e), NEW n, n = Len(applied), NEW k \in Perms,
         NEW r, r = rulebuf[e.rule]
  PROVE  /\ Final(k)' <=> Final(k) \/ r.keys[k].op = ":="
         /\ Effective(k)' = IF IsSet(r, k) /\ ~Final(k)
                            THEN Effective(k) \cup {n + 1} ELSE Effective(k)
         /\ \A j \in 1 .. n : Collected(k, j)' = Collected(k, j)
         /\ Collected(k, n + 1)' = {Subst(v, e.result) : v \in r.keys[k].vals}
<1>1. k \in Single
  BY DEF Perms, Single
<1> QED
  BY <1>1, ListStep

LEMMA PermStep ==
  ASSUME RulesInv, ~udev.ignore_device, rulebuf' = rulebuf, call = "get_name",
         NEW e \in Applied, applied' = Append(applied, e), NEW r, r = rulebuf[e.rule],
         PermGiven(udev', udev, r, e.result)
  PROVE  PermInv'
<1> USE DEF PermGiven
<1>1. PICK n : n = Len(applied)
  OBVIOUS
<1>2. RulesTypeOK /\ PermInv /\ r \in RuleT
  BY AppendFacts, <1>1 DEF RulesInv, CollectedInv
<1>3. n \in Nat
  BY <1>1, <1>2, AppendFacts
<1>4. ASSUME NEW k \in Perms
      PROVE  /\ udev'.final[k] <=> Final(k)'
             /\ \A j \in Effective(k)' : (\A i \in Effective(k)' : i <= j) =>
                  udev'.perm[k] \in Collected(k, j)'
  <2>1. k \in Single
    BY DEF Perms, Single
  <2>2. /\ Final(k)' <=> Final(k) \/ r.keys[k].op = ":="
        /\ Effective(k)' = IF IsSet(r, k) /\ ~Final(k)
                           THEN Effective(k) \cup {n + 1} ELSE Effective(k)
        /\ \A j \in 1 .. n : Collected(k, j)' = Collected(k, j)
        /\ Collected(k, n + 1)' = {Subst(v, e.result) : v \in r.keys[k].vals}
    BY <1>1, <1>2, PermList
  <2>3. Effective(k) \subseteq 1 .. n
    BY <1>1, <1>2 DEF Effective, RulesTypeOK
  <2>4. /\ udev.final[k] <=> Final(k)
        /\ \A j \in Effective(k) : (\A i \in Effective(k) : i <= j) =>
             udev.perm[k] \in Collected(k, j)
    BY <1>2 DEF PermInv
  <2>5. udev'.final[k] <=> Final(k)'
    BY <2>2, <2>4
  <2>6. CASE IsSet(r, k) /\ ~Final(k)
    <3>1. udev'.perm[k] \in Collected(k, n + 1)'
      BY <1>2, <2>1, <2>2, <2>4, <2>6, ValueGiven
    <3>2. \A j \in Effective(k)' : (\A i \in Effective(k)' : i <= j) => j = n + 1
      BY <1>3, <2>2, <2>3, <2>6
    <3> QED
      BY <2>5, <3>1, <3>2, Zenon
  <2>7. CASE ~(IsSet(r, k) /\ ~Final(k))
    <3>1. udev'.perm[k] = udev.perm[k] /\ Effective(k)' = Effective(k)
      BY <2>2, <2>4, <2>7
    <3> QED
      BY <2>2, <2>3, <2>4, <2>5, <3>1
  <2> QED
    BY <2>6, <2>7, Zenon
<1> QED
  BY <1>4 DEF PermInv

LEMMA NameStep ==
  ASSUME RulesInv, ~udev.ignore_device, rulebuf' = rulebuf, call = "get_name",
         ~done',
         NEW e \in Applied, applied' = Append(applied, e), NEW r, r = rulebuf[e.rule],
         ~(udev.name_set /\ Assigns(r.keys["NAME"].op)),
         NameGiven(udev', udev, r, e.result)
  PROVE  NameInv'
<1> USE DEF NameGiven
<1>1. PICK n : n = Len(applied)
  OBVIOUS
<1>2. RulesTypeOK /\ NameInv /\ r \in RuleT
  BY AppendFacts, <1>1 DEF RulesInv
<1>3. /\ n \in Nat /\ DOMAIN applied = 1 .. n /\ DOMAIN applied' = 1 .. n + 1
      /\ \A j \in 1 .. n : Written(j)' = Written(j)
      /\ Written(n + 1)' = r
  BY <1>1, <1>2, AppendFacts
<1>4. "NAME" \in Single
  BY DEF Single
<1>5. /\ \A j \in 1 .. n : Collected("NAME", j)' = Collected("NAME", j)
      /\ Collected("NAME", n + 1)' = {Subst(v, e.result) : v \in r.keys["NAME"].vals}
  BY <1>1, <1>2, <1>4, ListStep, Zenon
<1>6. Named' = IF Assigns(r.keys["NAME"].op) THEN Named \cup {n + 1} ELSE Named
  BY <1>3 DEF Named
<1>7. CASE Assigns(r.keys["NAME"].op)
  <2>1. ~udev.name_set /\ Named = {}
    BY <1>2, <1>7 DEF NameInv
  <2>2. Named' = {n + 1}
    BY <1>6, <1>7, <2>1
  <2>3. IsSet(r, "NAME")
    BY <1>7 DEF IsSet, Assigns
  <2>4. udev'.name \in Collected("NAME", n + 1)' /\ udev'.name_set
    BY <1>2, <1>4, <1>5, <1>7, <2>3, ValueGiven
  <2> QED
    BY <2>2, <2>4 DEF NameInv
<1>8. CASE ~Assigns(r.keys["NAME"].op)
  <2>1. Named' = Named /\ Named \subseteq 1 .. n
    BY <1>3, <1>6, <1>8 DEF Named
  <2> QED
    BY <1>2, <1>5, <1>8, <2>1 DEF NameInv
<1> QED
  BY <1>7, <1>8, Zenon

\* A rule that is applied.
LEMMA ApplyStep ==
  ASSUME RulesInv, ApplyRule
  PROVE  RulesInv'
<1>1. /\ ~done /\ current <= Len(rulebuf) /\ ~Ignored(Rule)
      /\ rulebuf' = rulebuf /\ call' = call
  BY DEF ApplyRule
<1>2. RulesTypeOK /\ IsEvent(udev) /\ ~udev.ignore_device
  BY <1>1 DEF RulesInv, RulesTypeOK
<1>3. PICK r : r = rulebuf[current] /\ r = Rule
  BY DEF Rule
<1>4. PICK m \in MatchRule(r, udev) :
        /\ m[2]
        /\ applied' = Append(applied, [rule |-> current, result |-> m[1].result])
        /\ IF "ignore_device" \in r.options
           THEN /\ udev' = [m[1] EXCEPT !.ignore_device = TRUE]
                /\ done' = TRUE /\ UNCHANGED current
           ELSE /\ udev' = Apply(r, m[1])
                /\ current' = IF LastRule(r, Apply(r, m[1])) THEN Len(rulebuf) + 1
                              ELSE IF IsSet(r, "GOTO") THEN Jump(r, current + 1)
                              ELSE current + 1
                /\ UNCHANGED done
  BY <1>3, Zenon DEF ApplyRule
<1>5. PICK w : w = m[1]
  OBVIOUS
<1>0. IsEvent(w) /\ Like(w, udev)
  BY <1>2, <1>4, <1>5, MatchKeeps, LikeFacts
<1>6. /\ IsEvent(w)
      /\ w.name = udev.name /\ w.name_set = udev.name_set
      /\ w.links = udev.links /\ w.links_final = udev.links_final
      /\ w.run = udev.run /\ w.run_final = udev.run_final
      /\ w.perm = udev.perm /\ w.final = udev.final
      /\ w.ignore_device = udev.ignore_device
  BY <1>0, <1>2, LikeFacts
<1>7. PICK e : e = [rule |-> current, result |-> w.result]
  OBVIOUS
<1>8. w.result \in Results
  BY <1>6 DEF IsEvent
<1>9. e \in Applied /\ e.rule = current /\ e.result = w.result
  BY <1>1, <1>2, <1>7, <1>8 DEF Applied, RulesTypeOK
<1>10. applied' = Append(applied, e)
  BY <1>4, <1>5, <1>7, Zenon
<1>11. PICK n : n = Len(applied)
  OBVIOUS
<1>12. r \in RuleT
  BY <1>2, <1>3, <1>9, <1>10, <1>1, <1>11, AppendFacts
<1>13. applied' \in Seq(Applied)'
  <2>1. Applied' = Applied
    BY <1>1 DEF Applied
  <2>2. applied' \in Seq(Applied)
    BY <1>2, <1>9, <1>10 DEF RulesTypeOK
  <2> QED
    BY <2>1, <2>2, Zenon
<1>14. OrderAsWritten'
  BY <1>1, <1>7, <1>8, <1>10, OrderStep
<1>15. CASE "ignore_device" \in r.options
  <2>1. udev' = [w EXCEPT !.ignore_device = TRUE] /\ done' = TRUE /\ current' = current
    BY <1>4, <1>5, <1>15, Zenon
  <2>2. IsEvent(udev)' /\ udev'.ignore_device
    BY <1>6, <2>1 DEF IsEvent
  <2>3. RulesTypeOK'
    BY <1>1, <1>2, <1>13, <2>1, <2>2 DEF RulesTypeOK
  <2>4. NextInv' /\ NameInv' /\ CollectedInv'
    BY <2>1, <2>2 DEF NextInv, NameInv, CollectedInv
  <2> QED
    BY <1>14, <2>3, <2>4 DEF RulesInv
<1>16. CASE "ignore_device" \notin r.options
  <2>1. /\ udev' = Apply(r, w) /\ done' = done
        /\ current' = IF LastRule(r, Apply(r, w)) THEN Len(rulebuf) + 1
                      ELSE IF IsSet(r, "GOTO") THEN Jump(r, current + 1)
                      ELSE current + 1
    BY <1>4, <1>5, <1>16, Zenon
  <2>2. /\ IsEvent(udev)' /\ udev'.ignore_device = w.ignore_device
        /\ RunGiven(udev', w, r)
    <3>1. CASE call = "get_name"
      <4>1. PICK v : v = udev'
        OBVIOUS
      <4>2. v = AddRun(r, SetName(r, AddLinks(r, Permit(r, Options(r, w)))))
        BY <2>1, <3>1, <4>1 DEF Apply
      <4>3. /\ IsEvent(v) /\ v.ignore_device = w.ignore_device
            /\ RunGiven(v, w, r)
        BY <1>6, <1>12, <4>2, ApplyFacts, Zenon
      <4>4. IsEvent(udev)'
        BY <4>1, <4>3 DEF IsEvent
      <4> QED
        BY <4>1, <4>3, <4>4, Zenon
    <3>2. CASE call # "get_name"
      <4>1. PICK v : v = udev'
        OBVIOUS
      <4>2. v = AddRun(r, w)
        BY <2>1, <3>2, <4>1 DEF Apply
      <4>3. /\ IsEvent(v) /\ v.ignore_device = w.ignore_device
            /\ RunGiven(v, w, r)
        BY <1>6, <1>12, <4>2, AddRunFacts, Zenon
      <4>4. IsEvent(udev)'
        BY <4>1, <4>3 DEF IsEvent
      <4> QED
        BY <4>1, <4>3, <4>4, Zenon
    <3> QED
      BY <3>1, <3>2, Zenon
  <2>9. RunGiven(udev', udev, r)
    BY <1>6, <2>2 DEF RunGiven
  <2>3. call = "get_name" =>
        /\ LinksGiven(udev', w, r, w.result)
        /\ NameGiven(udev', w, r, w.result)
        /\ PermGiven(udev', w, r, w.result)
    <3> SUFFICES ASSUME call = "get_name" PROVE
        /\ LinksGiven(udev', w, r, w.result)
        /\ NameGiven(udev', w, r, w.result)
        /\ PermGiven(udev', w, r, w.result)
      OBVIOUS
    <3>1. call = "get_name"
      BY <1>1, <1>2 DEF RulesTypeOK
    <3>2. udev' = AddRun(r, SetName(r, AddLinks(r, Permit(r, Options(r, w)))))
      BY <2>1, <3>1 DEF Apply
    <3> QED
      BY <1>6, <1>12, <3>2, ApplyFacts, Zenon
  <2>10. call = "get_name" =>
        /\ LinksGiven(udev', udev, r, e.result)
        /\ NameGiven(udev', udev, r, e.result)
        /\ PermGiven(udev', udev, r, e.result)
    BY <1>6, <1>9, <2>3 DEF LinksGiven, NameGiven, PermGiven
  <2>4. current' \in Nat \ {0}
    <3>1. current + 1 \in Nat \ {0} /\ Len(rulebuf) + 1 \in Nat \ {0}
      BY <1>2 DEF RulesTypeOK
    <3>2. Jump(r, current + 1) \in Nat \ {0}
      BY <1>2, <3>1, JumpFacts DEF RulesTypeOK
    <3> QED
      BY <2>1, <3>1, <3>2
  <2>5. RulesTypeOK'
    BY <1>1, <1>2, <1>6, <1>13, <2>1, <2>2, <2>4 DEF RulesTypeOK
  <2>6. NextInv'
    <3>1. applied'[Len(applied')].rule = current /\ current \in Nat
      BY <1>2, <1>9, <1>10, <1>11, AppendFacts DEF RulesTypeOK
    <3>2. /\ current < current'
          /\ current' <= Len(rulebuf) =>
               /\ "last_rule" \notin r.options
               /\ IsSet(r, "GOTO") =>
                    \E i \in current + 1 .. current' :
                      LabelOf(rulebuf[i]) = r.keys["GOTO"].vals
      <4>1. Len(rulebuf) \in Nat /\ current + 1 \in Nat \ {0}
        BY <1>2 DEF RulesTypeOK
      <4>2. CASE LastRule(r, Apply(r, w))
        BY <1>1, <2>1, <3>1, <4>1, <4>2
      <4>3. CASE ~LastRule(r, Apply(r, w)) /\ IsSet(r, "GOTO")
        <5>1. current' = Jump(r, current + 1)
          BY <2>1, <4>3
        <5>2. "last_rule" \notin r.options
          BY <4>3 DEF LastRule
        <5>3. /\ current' \in Nat
              /\ current' <= Len(rulebuf) =>
                   /\ current + 1 <= current'
                   /\ LabelOf(rulebuf[current']) = r.keys["GOTO"].vals
          BY <1>2, <4>1, <5>1, JumpFacts DEF RulesTypeOK
        <5> QED
          BY <1>1, <3>1, <4>1, <5>2, <5>3
      <4>4. CASE ~LastRule(r, Apply(r, w)) /\ ~IsSet(r, "GOTO")
        <5>1. current' = current + 1
          BY <2>1, <4>4
        <5>2. "last_rule" \notin r.options
          BY <4>4 DEF LastRule
        <5> QED
          BY <3>1, <4>4, <5>1, <5>2
      <4> QED
        BY <4>2, <4>3, <4>4, Zenon
    <3> QED
      BY <1>1, <1>3, <3>1, <3>2 DEF NextInv, LabelOf, IsSet
  <2>7. NameInv'
    <3> SUFFICES ASSUME call = "get_name" PROVE NameInv'
      BY <1>1 DEF NameInv
    <3>1. ~(udev.name_set /\ Assigns(r.keys["NAME"].op))
      BY <1>1, <1>2, <1>3 DEF Ignored, RulesTypeOK
    <3>2. ~done'
      BY <1>1, <2>1
    <3> QED
      BY <1>1, <1>2, <1>3, <1>6, <1>9, <1>10, <2>10, <3>1, <3>2, NameStep, Zenon
  <2>8. CollectedInv'
    <3>1. RunInv'
      BY <1>1, <1>2, <1>3, <1>6, <1>9, <1>10, <2>9, RunStep, Zenon
    <3>2. LinksInv'
      <4> SUFFICES ASSUME call = "get_name" PROVE LinksInv'
        BY <1>1 DEF LinksInv
      <4> QED
        BY <1>1, <1>2, <1>3, <1>6, <1>9, <1>10, <2>10, LinksStep, Zenon
    <3>3. PermInv'
      <4> SUFFICES ASSUME call = "get_name" PROVE PermInv'
        BY <1>1 DEF PermInv
      <4> QED
        BY <1>1, <1>2, <1>3, <1>6, <1>9, <1>10, <2>10, PermStep, Zenon
    <3> QED
      BY <3>1, <3>2, <3>3 DEF CollectedInv
  <2> QED
    BY <1>14, <2>5, <2>6, <2>7, <2>8 DEF RulesInv
<1> QED
  BY <1>15, <1>16, Zenon

\* An event begins with nothing, or with what the database has of its device.
LEMMA InitOK ==
  RulesInit => RulesInv
<1> SUFFICES ASSUME RulesInit PROVE RulesInv
  OBVIOUS
<1>1. rulebuf \in Seq(RuleT)
  BY RuleAssumption, ParseFileType DEF RulesInit
<1>2. /\ call \in {"get_name", "get_run"} /\ done = FALSE /\ current = 1 /\ applied = <<>>
  BY DEF RulesInit
<1>9. PICK known : known = [Fresh EXCEPT !.name = Chain[1].KERNEL]
  OBVIOUS
<1>10. \/ udev = Fresh
       \/ call # "get_name" /\ (udev = Restored \/ udev = known)
  BY <1>9 DEF RulesInit, Begins
<1>3. /\ IsEvent(udev) /\ ~udev.name_set /\ ~udev.ignore_device
      /\ ~udev.links_final /\ ~udev.run_final /\ udev.run = {}
      /\ call = "get_name" => udev.links = {}
      /\ \A k \in Perms : ~udev.final[k]
  <2>1. [k \in Perms |-> FALSE] \in [Perms -> BOOLEAN] /\ "" \in Results
    BY DEF Results
  <2>2. PICK perm : perm = [k \in Perms |-> ""]
    OBVIOUS
  <2>3. PICK fin : fin = [k \in Perms |-> FALSE]
    OBVIOUS
  <2>4. PICK env : env = [env_list |-> <<>>, environ |-> [k \in EnvKeys |-> Uevent[k]]]
    OBVIOUS
  <2>5. fin \in [Perms -> BOOLEAN] /\ \A k \in Perms : ~fin[k]
    BY <2>3
  <2>6. Fresh = [name |-> "", name_set |-> FALSE, links |-> {}, links_final |-> FALSE,
          run |-> {}, run_final |-> FALSE, result |-> "", perm |-> perm, final |-> fin,
          ignore_device |-> FALSE, ignore_remove |-> FALSE, prio |-> "", env |-> env]
    BY <2>2, <2>3, <2>4, Zenon DEF Fresh
  <2>7. IsEvent(Fresh)
    BY <2>1, <2>5, <2>6 DEF IsEvent
  <2>8. CASE udev = Fresh
    BY <2>5, <2>6, <2>7, <2>8
  <2>9. CASE udev = Restored /\ call # "get_name"
    <3>1. PICK nm, ln, en :
            Restored = [Fresh EXCEPT !.name = nm, !.links = ln, !.env = en]
      BY Zenon DEF Restored
    <3>2. PICK w : w = Restored
      OBVIOUS
    <3>3. w = [name |-> nm, name_set |-> FALSE, links |-> ln, links_final |-> FALSE,
          run |-> {}, run_final |-> FALSE, result |-> "", perm |-> perm, final |-> fin,
          ignore_device |-> FALSE, ignore_remove |-> FALSE, prio |-> "", env |-> en]
      BY <2>6, <3>1, <3>2
    <3>4. IsEvent(w)
      BY <2>1, <2>5, <3>3 DEF IsEvent
    <3>5. /\ ~w.name_set /\ ~w.ignore_device /\ ~w.links_final /\ ~w.run_final
          /\ w.run = {} /\ w.final = fin
      BY <3>3
    <3>6. udev = w /\ call # "get_name"
      BY <2>9, <3>2
    <3> QED
      BY <2>5, <3>4, <3>5, <3>6, Zenon
  <2>10. CASE udev = known /\ call # "get_name"
    <3>1. PICK nm : nm = Chain[1].KERNEL
      OBVIOUS
    <3>2. PICK w : w = [Fresh EXCEPT !.name = nm]
      OBVIOUS
    <3>3. w = [name |-> nm, name_set |-> FALSE, links |-> {}, links_final |-> FALSE,
          run |-> {}, run_final |-> FALSE, result |-> "", perm |-> perm, final |-> fin,
          ignore_device |-> FALSE, ignore_remove |-> FALSE, prio |-> "", env |-> env]
      BY <2>6, <3>2
    <3>4. IsEvent(w)
      BY <2>1, <2>5, <3>3 DEF IsEvent
    <3>5. /\ ~w.name_set /\ ~w.ignore_device /\ ~w.links_final /\ ~w.run_final
          /\ w.run = {} /\ w.final = fin
      BY <3>3
    <3>6. udev = w /\ call # "get_name"
      BY <1>9, <2>10, <3>1, <3>2
    <3> QED
      BY <2>5, <3>4, <3>5, <3>6, Zenon
  <2> QED
    BY <1>10, <2>8, <2>9, <2>10, Zenon
<1>4. RulesTypeOK
  <2>1. done \in BOOLEAN /\ (~done => ~udev.ignore_device) /\ IsEvent(udev)
    BY <1>2, <1>3, Zenon
  <2>2. applied \in Seq(Applied) /\ current \in Nat \ {0}
    BY <1>2
  <2> QED
    BY <1>1, <1>2, <2>1, <2>2, Zenon DEF RulesTypeOK
<1>5. OrderAsWritten /\ NextInv
  BY <1>2 DEF OrderAsWritten, NextInv
<1>6. DOMAIN applied = {}
  BY <1>2
<1>7. NameInv
  BY <1>2, <1>3, <1>6 DEF NameInv, Named
<1>8. CollectedInv
  <2>1. \A k : ~Final(k) /\ Effective(k) = {} /\ Lasting(k) = {}
    BY <1>6 DEF Final, Effective, Lasting
  <2> QED
    BY <1>3, <2>1 DEF CollectedInv, LinksInv, RunInv, PermInv
<1> QED
  BY <1>4, <1>5, <1>7, <1>8 DEF RulesInv

LEMMA StepOK ==
  RulesInv /\ [RulesNext]_rulevars => RulesInv'
<1> SUFFICES ASSUME RulesInv, [RulesNext]_rulevars PROVE RulesInv'
  OBVIOUS
<1>1. CASE SkipRule
  <2>1. Like(udev', udev)
    BY <1>1, LikeSteps DEF SkipRule, RulesInv, RulesTypeOK
  <2> QED
    BY <1>1, <2>1, QuietStep DEF SkipRule
<1>2. CASE NoMatch
  <2>1. Like(udev', udev)
    BY <1>2, MatchKeeps DEF NoMatch, RulesInv, RulesTypeOK
  <2> QED
    BY <1>2, <2>1, QuietStep DEF NoMatch
<1>3. CASE ApplyRule
  BY <1>3, ApplyStep
<1>4. CASE RulesDone
  BY <1>4, DoneStep
<1>5. CASE UNCHANGED rulevars
  <2>1. UNCHANGED <<rulebuf, action, call, done, current, udev, applied>>
    BY <1>5 DEF rulevars
  <2>2. RulesTypeOK'
    BY <2>1 DEF RulesInv, RulesTypeOK, Applied, IsEvent
  <2>3. OrderAsWritten' /\ NextInv'
    BY <2>1, SameLists DEF RulesInv, NextInv, LabelOf, IsSet
  <2>4. NameInv'
    BY <2>1, SameLists DEF RulesInv, NameInv
  <2>5. CollectedInv'
    <3>1. CASE udev.ignore_device
      BY <2>1, <3>1 DEF CollectedInv
    <3>2. CASE ~udev.ignore_device
      BY <2>1, <3>2, SameCollected DEF RulesInv
    <3> QED
      BY <3>1, <3>2, Zenon
  <2> QED
    BY <2>2, <2>3, <2>4, <2>5 DEF RulesInv
<1> QED
  BY <1>1, <1>2, <1>3, <1>4, <1>5 DEF RulesNext

LEMMA RulesInductive ==
  RulesSpec => []RulesInv
<1> QED
  BY InitOK, StepOK, PTL DEF RulesSpec

\* The rules apply in the order of the files, none twice; none applies after one
\* with last_rule, and none that a GOTO passes over.
THEOREM RulesKeepTheirOrder ==
  RulesSpec => []OrderAsWritten
<1>1. RulesInv => OrderAsWritten
  BY DEF RulesInv
<1> QED
  BY <1>1, RulesInductive, PTL

\* The name of a device is what the first rule applied that assigns one says, no
\* other rule that assigns one is applied, and without one it is the kernel's.
THEOREM TheFirstNameHolds ==
  RulesSpec => []NameIsFirst
<1>1. RulesInv => NameIsFirst
  BY DEF RulesInv, NameInv, Named, NameIsFirst, Finished
<1> QED
  BY <1>1, RulesInductive, PTL

\* The symlinks and programs are those of the rules applied since the last reset
\* and up to a final assignment, and a permission is that of the last rule which
\* may still say something.
THEOREM NothingIsMissed ==
  RulesSpec => []CollectedAsWritten
<1>1. RulesInv => CollectedAsWritten
  BY DEF RulesInv, CollectedInv, LinksInv, RunInv, PermInv, CollectedAsWritten, Finished
<1> QED
  BY <1>1, RulesInductive, PTL
--------------------------------------------------------------------------------
(* The environment: of a variable whose name is no beginning of another one  *)
(* the list has at most one entry, which says what getenv says; without one   *)
(* getenv knows what the kernel's event says, or nothing.                     *)

Text     == STRING \cup {""}
EntryT   == [key : EnvKeys, val : Text, put : BOOLEAN]
EnvironT == [env_list : Seq(EntryT), environ : [EnvKeys -> Text]]

Once(list, k) == \A i, j \in DOMAIN list : list[i].key = k /\ list[j].key = k => i = j
Says(list, k, v) ==
  /\ \A i \in DOMAIN list : list[i].key = k => v = list[i].val
  /\ (\A i \in DOMAIN list : list[i].key # k) => v \in {"", Uevent[k]}
Sound == {e \in EnvironT : \A k \in EnvKeys : Alone(k) =>
            Once(e.env_list, k) /\ Says(e.env_list, k, e.environ[k])}

\* What a change of the list and setenv make of an environment.
LEMMA ListFacts ==
  ASSUME NEW e \in EnvironT, NEW list \in Seq(EntryT)
  PROVE  /\ [e EXCEPT !.env_list = list] \in EnvironT
         /\ [e EXCEPT !.env_list = list].env_list = list
         /\ [e EXCEPT !.env_list = list].environ = e.environ
BY DEF EnvironT

\* setenv.
LEMMA SetenvFacts ==
  ASSUME NEW e \in EnvironT, NEW k \in EnvKeys, NEW v \in Text
  PROVE  /\ Setenv(e, k, v) \in EnvironT
         /\ Setenv(e, k, v).env_list = e.env_list
         /\ Setenv(e, k, v).environ = [e.environ EXCEPT ![k] = v]
BY DEF EnvironT, Setenv

\* The least of the entries that a search finds is one of them.
LEMMA FirstHit ==
  ASSUME NEW hits \in SUBSET Nat, hits # {}
  PROVE  Min(hits) \in hits
<1>1. \E m \in hits : \A y \in hits : m <= y
  BY LeastOf, Zenon
<1> QED
  BY <1>1, Zenon DEF Min

\* A key that is added replaces the only entry of it or is the only one.
LEMMA KeyAddSound ==
  ASSUME NEW e \in Sound, NEW k \in EnvKeys, NEW v \in Text, NEW put \in BOOLEAN
  PROVE  KeyAdd(e, k, v, put) \in Sound
<1> DEFINE list == e.env_list
           hits == {i \in DOMAIN list : Starts(list[i].key, k)}
           x == Entry(k, v, put)
<1>1. e \in EnvironT /\ list \in Seq(EntryT) /\ e.environ \in [EnvKeys -> Text]
  BY DEF Sound, EnvironT
<1>2. x \in EntryT /\ x.key = k /\ x.val = v
  BY DEF Entry, EntryT
<1>3. DOMAIN list = 1 .. Len(list) /\ Len(list) \in Nat /\ \A i \in DOMAIN list : list[i] \in EntryT
  BY <1>1
<1>4. \A i \in DOMAIN list : list[i].key \in EnvKeys
  BY <1>3 DEF EntryT
<1>5. \A m \in EnvKeys : Alone(m) => Once(list, m) /\ Says(list, m, e.environ[m])
  BY DEF Sound
<1>6. CASE hits = {}
  <2> DEFINE more == Append(list, x)
             w == Setenv([e EXCEPT !.env_list = more], k, v)
  <2>1. KeyAdd(e, k, v, put) = w
    BY <1>6 DEF KeyAdd
  <2>2. /\ more \in Seq(EntryT) /\ DOMAIN more = 1 .. Len(list) + 1
        /\ \A i \in DOMAIN list : more[i] = list[i]
        /\ more[Len(list) + 1] = x
    BY <1>1, <1>2
  <2> HIDE DEF x, more
  <2>3. w \in EnvironT /\ w.env_list = more /\ w.environ = [e.environ EXCEPT ![k] = v]
    <3>1. PICK f : f = [e EXCEPT !.env_list = more]
      OBVIOUS
    <3>2. f \in EnvironT /\ f.env_list = more /\ f.environ = e.environ
      BY <1>1, <2>2, <3>1, ListFacts
    <3>3. w = Setenv(f, k, v)
      BY <3>1
    <3> HIDE DEF w, hits
    <3> QED
      BY <3>2, <3>3, SetenvFacts
  <2> HIDE DEF w
  <2>4. ASSUME NEW m \in EnvKeys, Alone(m)
        PROVE  Once(more, m) /\ Says(more, m, w.environ[m])
    <3>1. Once(list, m) /\ Says(list, m, e.environ[m])
      BY <1>5, <2>4
    <3>2. CASE m = k
      <4>1. \A i \in DOMAIN list : list[i].key # k
        BY <1>4, <1>6, EnvAssumption
      <4>2. w.environ[m] = v
        BY <1>1, <2>3, <3>2
      <4>3. \A i \in DOMAIN more : more[i].key = k => i = Len(list) + 1
        BY <1>3, <2>2, <4>1
      <4>4. Len(list) + 1 \in DOMAIN more
        BY <1>3, <2>2
      <4> QED
        BY <1>2, <2>2, <3>2, <4>2, <4>3, <4>4 DEF Once, Says
    <3>3. CASE m # k
      <4>1. w.environ[m] = e.environ[m]
        BY <1>1, <2>3, <3>3
      <4>2. \A i \in DOMAIN more : more[i].key = m => i \in DOMAIN list /\ list[i].key = m /\ more[i] = list[i]
        BY <1>2, <1>3, <2>2, <3>3
      <4>3. DOMAIN list \subseteq DOMAIN more
        BY <1>3, <2>2
      <4> QED
        BY <2>2, <3>1, <4>1, <4>2, <4>3 DEF Once, Says
    <3> QED
      BY <3>2, <3>3
  <2> QED
    BY <2>1, <2>3, <2>4 DEF Sound
<1>7. CASE hits # {}
  <2> DEFINE i == Min(hits)
             lost == list[i].put /\ list[i].key # k
             more == [list EXCEPT ![i] = x]
             z == IF lost THEN "" ELSE e.environ[list[i].key]
             w == Setenv([e EXCEPT !.env_list = more,
                                   !.environ[list[i].key] = z], k, v)
  <2>1. KeyAdd(e, k, v, put) = w
    BY <1>7 DEF KeyAdd
  <2>2. i \in DOMAIN list /\ Starts(list[i].key, k)
    <3>1. hits \in SUBSET Nat
      BY <1>3
    <3> HIDE DEF hits
    <3>2. i \in hits
      BY <1>7, <3>1, FirstHit
    <3> QED
      BY <3>2 DEF hits
  <2> HIDE DEF i
  <2>3. /\ more \in Seq(EntryT) /\ DOMAIN more = DOMAIN list /\ more[i] = x
        /\ \A j \in DOMAIN list : j # i => more[j] = list[j]
    BY <1>1, <1>2, <2>2
  <2>0. PICK y : y = list[i].key
    OBVIOUS
  <2>4. y \in EnvKeys /\ z \in Text
    <3>1. list[i].key \in EnvKeys
      BY <1>4, <2>2
    <3>2. e.environ[list[i].key] \in Text
      BY <1>1, <3>1
    <3>3. "" \in Text
      BY DEF Text
    <3> HIDE DEF lost
    <3> QED
      BY <2>0, <3>1, <3>2, <3>3, Zenon
  <2> HIDE DEF x, more, z
  <2>5. /\ w \in EnvironT /\ w.env_list = more
        /\ w.environ = [[e.environ EXCEPT ![y] = z] EXCEPT ![k] = v]
    <3>1. PICK f : f = [e EXCEPT !.env_list = more, !.environ[y] = z]
      OBVIOUS
    <3>2. f \in EnvironT /\ f.env_list = more /\ f.environ = [e.environ EXCEPT ![y] = z]
      BY <1>1, <2>3, <2>4, <3>1 DEF EnvironT
    <3>3. w = Setenv(f, k, v)
      BY <2>0, <3>1
    <3> HIDE DEF w, hits
    <3> QED
      BY <3>2, <3>3, SetenvFacts
  <2> HIDE DEF w
  <2>6. ASSUME NEW m \in EnvKeys, Alone(m)
        PROVE  Once(more, m) /\ Says(more, m, w.environ[m])
    <3>1. Once(list, m) /\ Says(list, m, e.environ[m])
      BY <1>5, <2>6
    <3>2. CASE m = k
      <4>1. list[i].key = k
        <5>1. list[i].key \in EnvKeys \ {k} => ~Starts(list[i].key, k)
          BY <2>6, <3>2 DEF Alone
        <5> QED
          BY <2>0, <2>2, <2>4, <5>1
      <4>2. w.environ[m] = v
        BY <1>1, <2>4, <2>5, <3>2
      <4>3. \A j \in DOMAIN more : more[j].key = k => j = i
        BY <2>2, <2>3, <3>1, <3>2, <4>1 DEF Once
      <4> QED
        BY <1>2, <2>2, <2>3, <3>2, <4>2, <4>3 DEF Once, Says
    <3>3. CASE m # k
      <4>1. y # m
        <5>1. m # k => ~Starts(m, k)
          BY <2>6 DEF Alone
        <5> QED
          BY <2>0, <2>2, <3>3, <5>1
      <4>2. w.environ[m] = e.environ[m]
        BY <1>1, <2>4, <2>5, <3>3, <4>1
      <4>3. \A j \in DOMAIN list : list[j].key = m <=> more[j].key = m
        BY <1>2, <2>0, <2>3, <3>3, <4>1
      <4>4. \A j \in DOMAIN list : list[j].key = m => more[j] = list[j]
        BY <2>0, <2>3, <4>1
      <4> QED
        BY <2>3, <3>1, <4>2, <4>3, <4>4 DEF Once, Says
    <3> QED
      BY <3>2, <3>3
  <2> QED
    BY <2>1, <2>5, <2>6 DEF Sound
<1> QED
  BY <1>6, <1>7

\* What RemoveAt leaves of a sequence.
LEMMA RemoveFacts ==
  ASSUME NEW T, NEW s \in Seq(T), NEW i \in DOMAIN s
  PROVE  /\ RemoveAt(s, i) \in Seq(T)
         /\ DOMAIN RemoveAt(s, i) = 1 .. Len(s) - 1
         /\ \A j \in DOMAIN RemoveAt(s, i) :
              RemoveAt(s, i)[j] = IF j < i THEN s[j] ELSE s[j + 1]
<1>1. i \in 1 .. Len(s) /\ Len(s) \in Nat
  OBVIOUS
<1>2. PICK u : u = SubSeq(s, 1, i - 1)
  OBVIOUS
<1>3. PICK v : v = SubSeq(s, i + 1, Len(s))
  OBVIOUS
<1>4. u \in Seq(T) /\ Len(u) = i - 1 /\ \A j \in 1 .. i - 1 : u[j] = s[j]
  BY <1>1, <1>2
<1>5. v \in Seq(T) /\ Len(v) = Len(s) - i /\ \A j \in 1 .. Len(s) - i : v[j] = s[i + j]
  BY <1>1, <1>3
<1>6. RemoveAt(s, i) = u \o v
  BY <1>2, <1>3 DEF RemoveAt
<1>7. /\ u \o v \in Seq(T) /\ Len(u \o v) = Len(u) + Len(v)
      /\ \A j \in 1 .. Len(u) + Len(v) :
           (u \o v)[j] = IF j <= Len(u) THEN u[j] ELSE v[j - Len(u)]
  BY <1>4, <1>5
<1>8. DOMAIN (u \o v) = 1 .. Len(s) - 1
  BY <1>1, <1>4, <1>5, <1>7
<1>9. ASSUME NEW j \in 1 .. Len(s) - 1
      PROVE  (u \o v)[j] = IF j < i THEN s[j] ELSE s[j + 1]
  <2>1. CASE j < i
    <3>1. j \in 1 .. i - 1 /\ j <= Len(u) /\ j \in 1 .. Len(u) + Len(v)
      BY <1>1, <1>4, <1>5, <2>1
    <3> QED
      BY <1>4, <1>7, <2>1, <3>1
  <2>2. CASE ~(j < i)
    <3>1. /\ j - Len(u) \in 1 .. Len(s) - i /\ ~(j <= Len(u))
          /\ j \in 1 .. Len(u) + Len(v) /\ i + (j - Len(u)) = j + 1
      BY <1>1, <1>4, <1>5, <2>2
    <3>2. v[j - Len(u)] = s[j + 1]
      BY <1>5, <3>1
    <3> QED
      BY <1>7, <2>2, <3>1, <3>2
  <2> QED
    BY <2>1, <2>2
<1> QED
  BY <1>6, <1>7, <1>8, <1>9

\* A key that is removed takes its only entry with it.
LEMMA KeyRemoveSound ==
  ASSUME NEW e \in Sound, NEW k \in EnvKeys
  PROVE  KeyRemove(e, k) \in Sound
<1> DEFINE list == e.env_list
           hits == {i \in DOMAIN list : list[i].key = k}
<1>1. e \in EnvironT /\ list \in Seq(EntryT) /\ e.environ \in [EnvKeys -> Text]
  BY DEF Sound, EnvironT
<1>2. "" \in Text
  BY DEF Text
<1>3. DOMAIN list = 1 .. Len(list) /\ Len(list) \in Nat
  BY <1>1
<1>4. \A m \in EnvKeys : Alone(m) => Once(list, m) /\ Says(list, m, e.environ[m])
  BY DEF Sound
<1>5. CASE hits = {}
  <2>0. PICK w : w = Setenv(e, k, "")
    OBVIOUS
  <2>1. KeyRemove(e, k) = w
    BY <1>5, <2>0 DEF KeyRemove
  <2>2. w \in EnvironT /\ w.env_list = list /\ w.environ = [e.environ EXCEPT ![k] = ""]
    BY <1>1, <1>2, <2>0, SetenvFacts
  <2>3. ASSUME NEW m \in EnvKeys, Alone(m)
        PROVE  Once(list, m) /\ Says(list, m, w.environ[m])
    <3>1. Once(list, m) /\ Says(list, m, e.environ[m])
      BY <1>4, <2>3
    <3>2. CASE m = k
      <4>1. w.environ[m] = ""
        BY <1>1, <2>2, <3>2
      <4> QED
        BY <1>5, <3>1, <3>2, <4>1 DEF Says
    <3>3. CASE m # k
      <4>1. w.environ[m] = e.environ[m]
        BY <1>1, <2>2, <3>3
      <4> QED
        BY <3>1, <4>1
    <3> QED
      BY <3>2, <3>3
  <2> QED
    BY <2>1, <2>2, <2>3 DEF Sound
<1>6. CASE hits # {}
  <2>0. PICK i : i = Min(hits)
    OBVIOUS
  <2>1. i \in DOMAIN list /\ list[i].key = k
    <3>1. hits \in SUBSET Nat
      BY <1>3
    <3> HIDE DEF hits
    <3>2. i \in hits
      BY <1>6, <2>0, <3>1, FirstHit
    <3> QED
      BY <3>2 DEF hits
  <2>2. PICK rest : rest = RemoveAt(list, i)
    OBVIOUS
  <2>3. /\ rest \in Seq(EntryT) /\ DOMAIN rest = 1 .. Len(list) - 1
        /\ \A j \in DOMAIN rest : rest[j] = IF j < i THEN list[j] ELSE list[j + 1]
    BY <1>1, <1>3, <2>1, <2>2, RemoveFacts
  <2>4. PICK f : f = [e EXCEPT !.env_list = rest]
    OBVIOUS
  <2>5. f \in EnvironT /\ f.env_list = rest /\ f.environ = e.environ
    BY <1>1, <2>3, <2>4, ListFacts
  <2>6. PICK w : w = Setenv(f, k, "")
    OBVIOUS
  <2>7. KeyRemove(e, k) = w
    BY <1>6, <2>0, <2>2, <2>4, <2>6 DEF KeyRemove
  <2>8. w \in EnvironT /\ w.env_list = rest /\ w.environ = [e.environ EXCEPT ![k] = ""]
    <3>1. /\ Setenv(f, k, "") \in EnvironT
          /\ Setenv(f, k, "").env_list = f.env_list
          /\ Setenv(f, k, "").environ = [f.environ EXCEPT ![k] = ""]
      BY <1>2, <2>5, SetenvFacts
    <3> QED
      BY <2>5, <2>6, <3>1, Zenon
  <2>9. /\ \A j \in DOMAIN rest : \E l \in DOMAIN list \ {i} :
             rest[j] = list[l] /\ (j < i => l = j) /\ (~(j < i) => l = j + 1)
        /\ \A l \in DOMAIN list \ {i} : \E j \in DOMAIN rest : rest[j] = list[l]
    <3>1. i \in Nat
      BY <1>3, <2>1
    <3>2. ASSUME NEW j \in DOMAIN rest
          PROVE  \E l \in DOMAIN list \ {i} :
             rest[j] = list[l] /\ (j < i => l = j) /\ (~(j < i) => l = j + 1)
      <4>1. CASE j < i
        BY <1>3, <2>3, <3>1, <4>1
      <4>2. CASE ~(j < i)
        <5>1. j + 1 \in DOMAIN list \ {i} /\ rest[j] = list[j + 1]
          BY <1>3, <2>3, <3>1, <4>2
        <5> QED
          BY <4>2, <5>1
      <4> QED
        BY <4>1, <4>2
    <3>3. ASSUME NEW l \in DOMAIN list \ {i}
          PROVE  \E j \in DOMAIN rest : rest[j] = list[l]
      <4>1. CASE l < i
        <5>1. l \in DOMAIN rest
          BY <1>3, <2>1, <2>3, <4>1
        <5> QED
          BY <2>3, <4>1, <5>1
      <4>2. CASE ~(l < i)
        <5>1. l - 1 \in DOMAIN rest /\ ~(l - 1 < i) /\ (l - 1) + 1 = l
          BY <1>3, <2>1, <2>3, <4>2
        <5>2. rest[l - 1] = list[(l - 1) + 1]
          BY <2>3, <5>1
        <5> QED
          BY <5>1, <5>2
      <4> QED
        BY <4>1, <4>2
    <3> QED
      BY <3>2, <3>3
  <2>10. ASSUME NEW m \in EnvKeys, Alone(m)
         PROVE  Once(rest, m) /\ Says(rest, m, w.environ[m])
    <3>1. Once(list, m) /\ Says(list, m, e.environ[m])
      BY <1>4, <2>10
    <3>2. CASE m = k
      <4>1. w.environ[m] = ""
        BY <1>1, <2>8, <3>2
      <4>2. \A j \in DOMAIN rest : rest[j].key # m
        BY <2>1, <2>9, <3>1, <3>2 DEF Once
      <4> QED
        BY <4>1, <4>2 DEF Once, Says
    <3>3. CASE m # k
      <4>1. w.environ[m] = e.environ[m]
        BY <1>1, <2>8, <3>3
      <4>2. Once(rest, m)
        <5> SUFFICES ASSUME NEW j \in DOMAIN rest, NEW h \in DOMAIN rest,
                            rest[j].key = m, rest[h].key = m
                     PROVE  j = h
          BY DEF Once
        <5>1. PICK l \in DOMAIN list \ {i} :
               rest[j] = list[l] /\ (j < i => l = j) /\ (~(j < i) => l = j + 1)
          BY <2>9
        <5>2. PICK g \in DOMAIN list \ {i} :
               rest[h] = list[g] /\ (h < i => g = h) /\ (~(h < i) => g = h + 1)
          BY <2>9
        <5>3. l = g
          BY <3>1, <5>1, <5>2 DEF Once
        <5> QED
          BY <1>3, <2>1, <2>3, <5>1, <5>2, <5>3
      <4>3. \A j \in DOMAIN rest : rest[j].key = m => e.environ[m] = rest[j].val
        BY <2>9, <3>1 DEF Says
      <4>4. (\A j \in DOMAIN rest : rest[j].key # m) => e.environ[m] \in {"", Uevent[m]}
        <5> SUFFICES ASSUME \A j \in DOMAIN rest : rest[j].key # m
                     PROVE  \A l \in DOMAIN list : list[l].key # m
          BY <3>1 DEF Says
        <5> QED
          BY <2>1, <2>9, <3>3
      <4> QED
        BY <4>1, <4>2, <4>3, <4>4 DEF Says
    <3> QED
      BY <3>2, <3>3
  <2> QED
    BY <2>7, <2>8, <2>10 DEF Sound
<1> QED
  BY <1>5, <1>6

\* A function that is defined along a sequence, in a set its steps do not leave.
Runs(f, op, a, s) == f = [n \in 0 .. Len(s) |-> IF n = 0 THEN a ELSE op[<<f[n - 1], s[n]>>]]
LEMMA RunExists ==
  ASSUME NEW S, NEW T, NEW op, \A x \in S, y \in T : op[<<x, y>>] \in S,
         NEW a \in S, NEW s \in Seq(T)
  PROVE  \E f \in [0 .. Len(s) -> S] : Runs(f, op, a, s)
<1>1. PICK f \in [0 .. Len(s) -> S] : Along(f, op, a, s)
  BY AlongExists, Zenon
<1>2. \A n \in 0 .. Len(s) : n # 0 => n \in 1 .. Len(s)
  OBVIOUS
<1>3. \A n \in 0 .. Len(s) : f[n] = IF n = 0 THEN a ELSE op[<<f[n - 1], s[n]>>]
  BY <1>1, <1>2, Zenon DEF Along
<1>4. f = [n \in 0 .. Len(s) |-> f[n]]
  BY <1>1
<1>5. Runs(f, op, a, s)
  BY <1>3, <1>4, Zenon DEF Runs
<1> QED
  BY <1>1, <1>5

\* Imported keys are added one by one.
LEMMA ImportKeysSound ==
  ASSUME NEW e \in Sound, NEW keys \in Imports
  PROVE  ImportKeys(e, keys) \in Sound
<1> DEFINE op == [x \in Sound \X Var |-> KeyAdd(x[1], x[2].key, x[2].val, FALSE)]
           Is(f) == f = [n \in 0 .. Len(keys) |->
                           IF n = 0 THEN e
                           ELSE KeyAdd(f[n - 1], keys[n].key, keys[n].val, FALSE)]
<1>1. keys \in Seq(Var)
  BY EnvAssumption
<1>2. Len(keys) \in Nat /\ \A n \in 1 .. Len(keys) : keys[n] \in Var
  BY <1>1
<1>3. ASSUME NEW x \in Sound, NEW y \in Var
      PROVE  KeyAdd(x, y.key, y.val, FALSE) \in Sound
  <2>1. y.key \in EnvKeys /\ y.val \in Text /\ FALSE \in BOOLEAN
    BY DEF Var, Text
  <2> QED
    BY <2>1, KeyAddSound
<1>4. \A x \in Sound, y \in Var : op[<<x, y>>] \in Sound
  BY <1>3
<1>5. PICK f \in [0 .. Len(keys) -> Sound] : Runs(f, op, e, keys)
  <2> HIDE DEF op
  <2> QED
    BY <1>1, <1>4, RunExists, Zenon
<1>6. Is(f)
  <2>1. ASSUME NEW n \in 0 .. Len(keys)
        PROVE  n # 0 => op[<<f[n - 1], keys[n]>>] =
                          KeyAdd(f[n - 1], keys[n].key, keys[n].val, FALSE)
    <3> SUFFICES ASSUME n # 0 PROVE op[<<f[n - 1], keys[n]>>] =
                          KeyAdd(f[n - 1], keys[n].key, keys[n].val, FALSE)
      OBVIOUS
    <3>0. n - 1 \in 0 .. Len(keys) /\ n \in 1 .. Len(keys)
      BY <1>2
    <3>1. f[n - 1] \in Sound /\ keys[n] \in Var
      <4> HIDE DEF op
      <4> QED
        BY <1>2, <1>5, <3>0, Zenon
    <3> QED
      BY <3>1
  <2>2. f = [n \in 0 .. Len(keys) |-> IF n = 0 THEN e ELSE op[<<f[n - 1], keys[n]>>]]
    BY <1>5 DEF Runs
  <2>3. [n \in 0 .. Len(keys) |-> IF n = 0 THEN e ELSE op[<<f[n - 1], keys[n]>>]]
        = [n \in 0 .. Len(keys) |-> IF n = 0 THEN e
             ELSE KeyAdd(f[n - 1], keys[n].key, keys[n].val, FALSE)]
    <3> HIDE DEF op
    <3> QED
      BY <2>1, Zenon
  <2> QED
    BY <2>2, <2>3, Zenon
<1>7. ImportKeys(e, keys) = (CHOOSE g : Is(g))[Len(keys)]
  BY DEF ImportKeys
<1>8. PICK g : Is(g) /\ ImportKeys(e, keys) = g[Len(keys)]
  <2> HIDE DEF Is
  <2> QED
    BY <1>6, <1>7
<1>9. \A n \in 0 .. Len(keys) :
        g[n] = IF n = 0 THEN e ELSE KeyAdd(g[n - 1], keys[n].key, keys[n].val, FALSE)
  BY <1>8, Zenon
<1>10. g[0] = e /\ \A n \in 1 .. Len(keys) :
         g[n] = KeyAdd(g[n - 1], keys[n].key, keys[n].val, FALSE)
  <2>1. 0 \in 0 .. Len(keys) /\ \A n \in 1 .. Len(keys) : n \in 0 .. Len(keys) /\ n # 0
    BY <1>2
  <2> QED
    BY <1>9, <2>1, Zenon
<1>11. g[0] \in Sound /\ \A n \in 1 .. Len(keys) : g[n - 1] \in Sound => g[n] \in Sound
  BY <1>2, <1>3, <1>10, Zenon
<1>12. g[Len(keys)] \in Sound
  BY <1>2, <1>11, AlongStays, Zenon
<1> QED
  BY <1>8, <1>12

\* The ENV assignments of a rule add and remove keys one by one.
LEMMA AssignEnvSound ==
  ASSUME NEW r \in RuleT, NEW u, u.env \in Sound, u.result \in Results
  PROVE  AssignEnv(r, u) \in Sound
<1> DEFINE pairs == r.pairs["ENV"]
           Do(e, p) == Assign(e, p, Value(p, u.result))
           op == [x \in Sound \X EnvT |-> Do(x[1], x[2])]
           Is(f) == f = [n \in 0 .. Len(pairs) |->
                           IF n = 0 THEN u.env ELSE Do(f[n - 1], pairs[n])]
<1>1. pairs \in Seq(EnvT)
  BY DEF RuleT, PairsT
<1>3. ASSUME NEW e \in Sound, NEW p \in EnvT
      PROVE  Do(e, p) \in Sound
  <2>1. p.attr \in EnvKeys /\ p.vals \in SUBSET STRING /\ p.vals # {} /\ TRUE \in BOOLEAN
    BY DEF EnvT, PairT
  <2>2. Value(p, u.result) \in Text
    <3>1. PICK v \in p.vals : v = CHOOSE x \in p.vals : TRUE
      BY <2>1, Zenon
    <3>2. Subst(v, u.result) \in Text
      BY <2>1, DeviceAssumption DEF Subst, Text, Results
    <3> QED
      BY <3>1, <3>2, Zenon DEF Value
  <2>3. PICK v \in Text : v = Value(p, u.result)
    BY <2>2
  <2>4. KeyAdd(e, p.attr, v, TRUE) \in Sound /\ KeyRemove(e, p.attr) \in Sound
    BY <2>1, KeyAddSound, KeyRemoveSound
  <2> QED
    BY <2>3, <2>4, Zenon DEF Assign
<1> HIDE DEF Do, pairs
<1>2. Len(pairs) \in Nat /\ \A n \in 1 .. Len(pairs) : pairs[n] \in EnvT
  BY <1>1
<1>4. \A x \in Sound, y \in EnvT : op[<<x, y>>] \in Sound
  BY <1>3
<1>5. PICK f \in [0 .. Len(pairs) -> Sound] : Runs(f, op, u.env, pairs)
  <2> HIDE DEF op
  <2> QED
    BY <1>1, <1>4, RunExists, Zenon
<1>6. Is(f)
  <2>1. ASSUME NEW n \in 0 .. Len(pairs)
        PROVE  n # 0 => op[<<f[n - 1], pairs[n]>>] = Do(f[n - 1], pairs[n])
    <3> SUFFICES ASSUME n # 0 PROVE op[<<f[n - 1], pairs[n]>>] = Do(f[n - 1], pairs[n])
      OBVIOUS
    <3>1. f[n - 1] \in Sound /\ pairs[n] \in EnvT
      BY <1>2, <1>5
    <3> QED
      BY <3>1
  <2>2. f = [n \in 0 .. Len(pairs) |-> IF n = 0 THEN u.env ELSE op[<<f[n - 1], pairs[n]>>]]
    BY <1>5 DEF Runs
  <2>3. [n \in 0 .. Len(pairs) |-> IF n = 0 THEN u.env ELSE op[<<f[n - 1], pairs[n]>>]]
        = [n \in 0 .. Len(pairs) |-> IF n = 0 THEN u.env ELSE Do(f[n - 1], pairs[n])]
    <3> HIDE DEF op
    <3> QED
      BY <2>1, Zenon
  <2> QED
    BY <2>2, <2>3, Zenon
<1>7. AssignEnv(r, u) = (CHOOSE g : Is(g))[Len(pairs)]
  BY DEF AssignEnv, Do, pairs
<1>8. PICK g : Is(g) /\ AssignEnv(r, u) = g[Len(pairs)]
  <2> HIDE DEF Is
  <2> QED
    BY <1>6, <1>7
<1>9. \A n \in 0 .. Len(pairs) : g[n] = IF n = 0 THEN u.env ELSE Do(g[n - 1], pairs[n])
  BY <1>8, Zenon
<1>10. g[0] = u.env /\ \A n \in 1 .. Len(pairs) : g[n] = Do(g[n - 1], pairs[n])
  <2>1. 0 \in 0 .. Len(pairs) /\ \A n \in 1 .. Len(pairs) : n \in 0 .. Len(pairs) /\ n # 0
    BY <1>2
  <2> QED
    BY <1>9, <2>1, Zenon
<1>11. g[0] \in Sound /\ \A n \in 1 .. Len(pairs) : g[n - 1] \in Sound => g[n] \in Sound
  BY <1>2, <1>3, <1>10, Zenon
<1>12. g[Len(pairs)] \in Sound
  BY <1>2, <1>11, AlongStays, Zenon
<1> QED
  BY <1>8, <1>12

\* The loop over env_list in udev_device_event: a variable that the list has at
\* most once gets the value of its entry, and one that it does not have keeps what
\* the kernel's event says.
LEMMA PutAllFacts ==
  ASSUME NEW e \in EnvironT, e.environ = Fresh.env.environ
  PROVE  /\ PutAll(e) \in EnvironT /\ PutAll(e).env_list = e.env_list
         /\ \A k \in EnvKeys : Once(e.env_list, k) =>
              /\ Says(e.env_list, k, PutAll(e).environ[k])
              /\ (\A i \in DOMAIN e.env_list : e.env_list[i].key # k) =>
                   PutAll(e).environ[k] = Uevent[k]
<1> DEFINE list == e.env_list
           Do(x, y) == Setenv(x, y.key, y.val)
           op == [x \in EnvironT \X EntryT |-> Do(x[1], x[2])]
           Is(f) == f = [n \in 0 .. Len(list) |-> IF n = 0 THEN e ELSE Do(f[n - 1], list[n])]
<1>1. list \in Seq(EntryT) /\ e.environ \in [EnvKeys -> Text]
  BY DEF EnvironT
<1>0. \A k \in EnvKeys : e.environ[k] = Uevent[k]
  BY DEF Fresh
<1>3. ASSUME NEW x \in EnvironT, NEW y \in EntryT
      PROVE  /\ Do(x, y) \in EnvironT /\ Do(x, y).env_list = x.env_list
             /\ Do(x, y).environ = [x.environ EXCEPT ![y.key] = y.val]
  <2>1. y.key \in EnvKeys /\ y.val \in Text
    BY DEF EntryT
  <2> QED
    BY <2>1, SetenvFacts
<1> HIDE DEF Do, list
<1>2. Len(list) \in Nat /\ \A n \in 1 .. Len(list) : list[n] \in EntryT
  BY <1>1
<1>4. \A x \in EnvironT, y \in EntryT : op[<<x, y>>] \in EnvironT
  BY <1>3
<1>5. PICK f \in [0 .. Len(list) -> EnvironT] : Runs(f, op, e, list)
  <2> HIDE DEF op
  <2> QED
    BY <1>1, <1>4, RunExists, Zenon
<1>6. Is(f)
  <2>1. ASSUME NEW n \in 0 .. Len(list)
        PROVE  n # 0 => op[<<f[n - 1], list[n]>>] = Do(f[n - 1], list[n])
    <3> SUFFICES ASSUME n # 0 PROVE op[<<f[n - 1], list[n]>>] = Do(f[n - 1], list[n])
      OBVIOUS
    <3>0. n - 1 \in 0 .. Len(list) /\ n \in 1 .. Len(list)
      BY <1>2
    <3>1. f[n - 1] \in EnvironT /\ list[n] \in EntryT
      <4> HIDE DEF op
      <4> QED
        BY <1>2, <1>5, <3>0, Zenon
    <3> QED
      BY <3>1
  <2>2. f = [n \in 0 .. Len(list) |-> IF n = 0 THEN e ELSE op[<<f[n - 1], list[n]>>]]
    BY <1>5 DEF Runs
  <2>3. [n \in 0 .. Len(list) |-> IF n = 0 THEN e ELSE op[<<f[n - 1], list[n]>>]]
        = [n \in 0 .. Len(list) |-> IF n = 0 THEN e ELSE Do(f[n - 1], list[n])]
    <3> HIDE DEF op
    <3> QED
      BY <2>1, Zenon
  <2> QED
    BY <2>2, <2>3, Zenon
<1>7. PutAll(e) = (CHOOSE g : Is(g))[Len(list)]
  BY DEF PutAll, Do, list
<1>8. PICK g : Is(g) /\ PutAll(e) = g[Len(list)]
  <2> HIDE DEF Is
  <2> QED
    BY <1>6, <1>7
<1>9. \A n \in 0 .. Len(list) : g[n] = IF n = 0 THEN e ELSE Do(g[n - 1], list[n])
  BY <1>8, Zenon
<1>10. g[0] = e /\ \A n \in 1 .. Len(list) : g[n] = Do(g[n - 1], list[n])
  <2>1. 0 \in 0 .. Len(list) /\ \A n \in 1 .. Len(list) : n \in 0 .. Len(list) /\ n # 0
    BY <1>2
  <2> QED
    BY <1>9, <2>1, Zenon
<1> DEFINE \* What the environment is after n entries.
           After(n) == /\ g[n] \in EnvironT /\ g[n].env_list = list
                       /\ \A k \in EnvKeys :
                            /\ (\A i \in 1 .. n : list[i].key # k) => g[n].environ[k] = Uevent[k]
                            /\ \A i \in 1 .. n :
                                 list[i].key = k /\ (\A j \in i + 1 .. n : list[j].key # k)
                                 => g[n].environ[k] = list[i].val
           P == {n \in 0 .. Len(list) : After(n)}
<1>11. 0 \in P
  <2>1. g[0] \in EnvironT /\ g[0].env_list = list
    BY <1>10 DEF list
  <2>2. \A k \in EnvKeys : g[0].environ[k] = Uevent[k]
    BY <1>0, <1>10
  <2>3. \A i : i \notin 1 .. 0
    OBVIOUS
  <2>4. After(0)
    BY <2>1, <2>2, <2>3, Zenon
  <2>5. 0 \in 0 .. Len(list)
    BY <1>2
  <2> HIDE DEF After
  <2> QED
    BY <2>4, <2>5
<1>12. ASSUME NEW n \in 1 .. Len(list), n - 1 \in P PROVE n \in P
  <2>1. PICK x : x = g[n - 1]
    OBVIOUS
  <2>2. PICK y \in EntryT : y = list[n]
    BY <1>2
  <2>3. PICK w : w = g[n]
    OBVIOUS
  <2>4. After(n - 1)
    BY <1>12
  <2>5. x \in EnvironT /\ x.env_list = list
    BY <2>1, <2>4
  <2>6. w \in EnvironT /\ w.env_list = list /\ w.environ = [x.environ EXCEPT ![y.key] = y.val]
    <3>1. w = Do(x, y)
      BY <1>10, <2>1, <2>2, <2>3, Zenon
    <3> QED
      BY <1>3, <2>5, <3>1, Zenon
  <2>7. x.environ \in [EnvKeys -> Text] /\ y.key \in EnvKeys
    BY <2>2, <2>5 DEF EnvironT, EntryT
  <2>8. ASSUME NEW k \in EnvKeys, \A i \in 1 .. n : list[i].key # k PROVE w.environ[k] = Uevent[k]
    <3>1. y.key # k /\ \A i \in 1 .. n - 1 : list[i].key # k
      BY <2>2, <2>8
    <3> QED
      BY <2>1, <2>4, <2>6, <2>7, <3>1
  <2>9. ASSUME NEW k \in EnvKeys, NEW i \in 1 .. n, list[i].key = k,
               \A j \in i + 1 .. n : list[j].key # k
        PROVE  w.environ[k] = list[i].val
    <3>1. CASE i = n
      BY <2>2, <2>6, <2>7, <2>9, <3>1
    <3>2. CASE i # n
      <4>1. i \in 1 .. n - 1 /\ n \in i + 1 .. n /\ i + 1 .. n - 1 \subseteq i + 1 .. n
        BY <3>2
      <4>2. y.key # k /\ \A j \in i + 1 .. n - 1 : list[j].key # k
        BY <2>2, <2>9, <4>1
      <4>3. x.environ[k] = list[i].val
        BY <2>1, <2>4, <2>9, <4>1, <4>2
      <4> QED
        BY <2>6, <2>7, <4>2, <4>3
    <3> QED
      BY <3>1, <3>2
  <2>10. After(n)
    BY <2>3, <2>6, <2>8, <2>9
  <2> HIDE DEF After
  <2> QED
    BY <1>2, <2>10
<1>13. After(Len(list))
  <2>1. P \in SUBSET Nat
    <3> HIDE DEF After
    <3> QED
      BY <1>2
  <2> HIDE DEF P
  <2>2. 0 .. Len(list) \subseteq P
    BY <1>2, <1>11, <1>12, <2>1, UpTo, Zenon
  <2>3. Len(list) \in P
    BY <1>2, <2>2
  <2> HIDE DEF After
  <2> QED
    BY <2>3 DEF P
<1>14. PICK w : w = g[Len(list)]
  OBVIOUS
<1>15. DOMAIN list = 1 .. Len(list)
  BY <1>1
<1>16. ASSUME NEW k \in EnvKeys, Once(list, k)
       PROVE  /\ Says(list, k, w.environ[k])
              /\ (\A i \in DOMAIN list : list[i].key # k) => w.environ[k] = Uevent[k]
  <2>1. (\A i \in DOMAIN list : list[i].key # k) => w.environ[k] = Uevent[k]
    BY <1>13, <1>14, <1>15
  <2>2. ASSUME NEW i \in DOMAIN list, list[i].key = k PROVE w.environ[k] = list[i].val
    <3>1. \A j \in i + 1 .. Len(list) : j \in DOMAIN list /\ j # i
      BY <1>2, <1>15
    <3>2. \A j \in i + 1 .. Len(list) : list[j].key # k
      BY <1>16, <2>2, <3>1 DEF Once
    <3> QED
      BY <1>13, <1>14, <1>15, <2>2, <3>2
  <2> QED
    BY <2>1, <2>2 DEF Says
<1> QED
  BY <1>8, <1>13, <1>14, <1>16 DEF list

\* match_rule leaves an environment that is sound, unless it imports the parent's.
LEMMA MatchSound ==
  ASSUME NEW r \in RuleT, r.import # "parent", NEW u, IsEvent(u), u.env \in Sound,
         NEW m \in MatchRule(r, u)
  PROVE  m[1].env \in Sound
<1>1. ASSUME NEW p \in Programmed(r, u) PROVE IsEvent(p[1]) /\ p[1].env = u.env
  <2>1. PICK b, v : p = <<v, b>> /\ (v = u \/ \E res \in Results : v = [u EXCEPT !.result = res])
    <3> DEFINE no  == r.keys["PROGRAM"].op = "!="
               yes == r.keys["PROGRAM"].op # "!="
    <3>1. \/ p = <<u, TRUE>> \/ p = <<[u EXCEPT !.result = ""], no>>
          \/ \E out \in Outputs : p = <<[u EXCEPT !.result = out], yes>>
      BY Zenon DEF Programmed
    <3>2. "" \in Results /\ \A out \in Outputs : out \in Results
      BY DEF Results
    <3> HIDE DEF no, yes
    <3> QED
      BY <3>1, <3>2, Zenon
  <2>2. IsEvent(v) /\ v.env = u.env
    BY <2>1 DEF IsEvent
  <2> QED
    BY <2>1, <2>2
<1>2. ASSUME NEW v, IsEvent(v), v.env \in Sound, NEW i \in Imported(r, v)
      PROVE  IsEvent(i[1]) /\ i[1].env \in Sound
  <2>1. PICK b, w : i = <<w, b>> /\ (w = v \/ \E e \in Sound : w = [v EXCEPT !.env = e])
    <3> DEFINE no == r.keys["IMPORT"].op = "!="
               Env(keys) == IF r.import = "parent" THEN ImportParent(v.env, keys)
                            ELSE ImportKeys(v.env, keys)
    <3>1. \/ i = <<v, TRUE>> \/ i = <<v, no>>
          \/ \E keys \in Imports : i = <<[v EXCEPT !.env = Env(keys)], TRUE>>
      BY Zenon DEF Imported
    <3>2. \A keys \in Imports : Env(keys) \in Sound
      BY <1>2, ImportKeysSound
    <3> HIDE DEF no, Env
    <3> QED
      BY <3>1, <3>2, Zenon
  <2>2. IsEvent(w) /\ w.env \in Sound
    BY <1>2, <2>1 DEF IsEvent
  <2> QED
    BY <2>1, <2>2
<1> DEFINE Imp(i) == IF i[2] THEN <<[i[1] EXCEPT !.env = AssignEnv(r, i[1])], TRUE>>
                     ELSE <<i[1], FALSE>>
           Prog(p) == IF ~p[2] \/ ~KeyMatches(r.keys["RESULT"], p[1].result)
                      THEN {<<p[1], FALSE>>}
                      ELSE {Imp(i) : i \in Imported(r, p[1])}
           Dev(exists, found) == IF ~MatchesDevice(r, u, exists, found) THEN {<<u, FALSE>>}
                                 ELSE UNION {Prog(p) : p \in Programmed(r, u)}
<1>3. MatchRule(r, u) = UNION {Dev(exists, found) : exists, found \in BOOLEAN}
  BY DEF MatchRule
<1>4. \/ m = <<u, FALSE>>
      \/ \E p \in Programmed(r, u) : m \in Prog(p)
  <2> HIDE DEF Prog
  <2>1. PICK exists, found \in BOOLEAN : m \in Dev(exists, found)
    <3> HIDE DEF Dev
    <3> QED
      BY <1>3
  <2> QED
    BY <2>1, Zenon
<1>5. CASE m = <<u, FALSE>>
  BY <1>5
<1>6. ASSUME NEW p \in Programmed(r, u), m \in Prog(p)
      PROVE  m[1].env \in Sound
  <2>1. IsEvent(p[1]) /\ p[1].env \in Sound
    BY <1>1
  <2>2. m = <<p[1], FALSE>> \/ \E i \in Imported(r, p[1]) : m = Imp(i)
    <3> HIDE DEF Imp
    <3> QED
      BY <1>6
  <2>3. CASE m = <<p[1], FALSE>>
    BY <2>1, <2>3
  <2>4. ASSUME NEW i \in Imported(r, p[1]), m = Imp(i)
        PROVE  m[1].env \in Sound
    <3>1. IsEvent(i[1]) /\ i[1].env \in Sound
      BY <1>2, <2>1
    <3>2. PICK v : v = i[1]
      OBVIOUS
    <3>3. v.result \in Results
      BY <3>1, <3>2 DEF IsEvent
    <3>4. PICK e \in Sound : e = AssignEnv(r, v)
      BY <3>1, <3>2, <3>3, AssignEnvSound
    <3>5. PICK w : w = [v EXCEPT !.env = e]
      OBVIOUS
    <3>6. m = <<w, TRUE>> \/ m = <<v, FALSE>>
      BY <2>4, <3>2, <3>4, <3>5, Zenon
    <3>7. w.env = e
      BY <3>1, <3>2, <3>5 DEF IsEvent
    <3>8. m[1] = w \/ m[1] = v
      <4> HIDE DEF Imp, Prog, Dev
      <4>1. CASE m = <<w, TRUE>>
        BY <4>1
      <4>2. CASE m = <<v, FALSE>>
        BY <4>2
      <4> QED
        BY <3>6, <4>1, <4>2, Zenon
    <3> QED
      BY <3>1, <3>2, <3>7, <3>8, Zenon
  <2> QED
    BY <2>2, <2>3, <2>4, Zenon
<1> QED
  BY <1>4, <1>5, <1>6, Zenon

\* What a rule gives the event is not the environment.
LEMMA ApplyEnv ==
  ASSUME NEW r \in RuleT, NEW u, IsEvent(u)
  PROVE  Apply(r, u).env = u.env
<1>1. ASSUME NEW v, IsEvent(v) PROVE AddRun(r, v).env = v.env
  BY <1>1 DEF AddRun, IsEvent
<1>2. ASSUME NEW v, IsEvent(v) PROVE SetName(r, v).env = v.env
  BY <1>2 DEF SetName, IsEvent
<1>3. ASSUME NEW v, IsEvent(v) PROVE AddLinks(r, v).env = v.env
  BY <1>3 DEF AddLinks, IsEvent
<1>4. ASSUME NEW v, IsEvent(v) PROVE Permit(r, v).env = v.env
  <2>1. PICK f, g : Permit(r, v) = [v EXCEPT !.perm = f, !.final = g]
    BY DEF Permit
  <2> QED
    BY <1>4, <2>1 DEF IsEvent
<1>5. ASSUME NEW v, IsEvent(v) PROVE Options(r, v).env = v.env
  BY <1>5 DEF Options, IsEvent
<1>6. CASE call = "get_name"
  <2>1. PICK a : a = Options(r, u)
    OBVIOUS
  <2>2. PICK b : b = Permit(r, a)
    OBVIOUS
  <2>3. PICK c : c = AddLinks(r, b)
    OBVIOUS
  <2>4. PICK d : d = SetName(r, c)
    OBVIOUS
  <2>5. IsEvent(a) /\ a.env = u.env
    BY <1>5, <2>1, OptionsFacts
  <2>6. IsEvent(b) /\ b.env = u.env
    BY <1>4, <2>2, <2>5, PermitFacts
  <2>7. IsEvent(c) /\ c.env = u.env
    BY <1>3, <2>3, <2>6, AddLinksFacts
  <2>8. IsEvent(d) /\ d.env = u.env
    BY <1>2, <2>4, <2>7, SetNameFacts
  <2> QED
    BY <1>1, <1>6, <2>1, <2>2, <2>3, <2>4, <2>8 DEF Apply
<1>7. CASE call # "get_name"
  BY <1>1, <1>7 DEF Apply
<1> QED
  BY <1>6, <1>7

\* The environment of the event is sound when no rule imports the parent's.
EnvInv == (\A i \in DOMAIN rulebuf : rulebuf[i].import # "parent") => udev.env \in Sound

\* It is when the event begins, with what the database has of a device removed.
LEMMA InitEnv ==
  RulesInit => EnvInv
<1> SUFFICES ASSUME RulesInit PROVE udev.env \in Sound
  BY DEF EnvInv
<1>1. PICK f : f = Fresh.env.environ
  OBVIOUS
<1>2. f \in [EnvKeys -> Text] /\ \A k \in EnvKeys : f[k] = Uevent[k]
  BY <1>1, EnvAssumption DEF Fresh, Text
<1>3. PICK e : e = Fresh.env
  OBVIOUS
<1>0. PICK none : none = <<>>
  OBVIOUS
<1>4. e = [env_list |-> none, environ |-> f]
  BY <1>0, <1>1, <1>3 DEF Fresh
<1>9. none \in Seq(EntryT) /\ DOMAIN none = {}
  BY <1>0
<1>5. e \in EnvironT /\ e.env_list = none /\ e.environ = f
  BY <1>2, <1>4, <1>9 DEF EnvironT
<1>6. e \in Sound
  <2>1. \A k \in EnvKeys : Once(none, k) /\ Says(none, k, f[k])
    BY <1>2, <1>9 DEF Once, Says
  <2> QED
    BY <1>5, <2>1 DEF Sound
<1>7. CASE udev = Fresh
  BY <1>3, <1>6, <1>7
<1>8. CASE udev = Restored
  <2>1. PICK l : l = [i \in DOMAIN Stored.env_list |->
               Entry(Stored.env_list[i].key, Stored.env_list[i].val, TRUE)]
    OBVIOUS
  <2>0. PICK s : s = Stored.env_list
    OBVIOUS
  <2>2. /\ s \in Seq(Var)
        /\ \A i, j \in DOMAIN s : s[i].key = s[j].key /\ Alone(s[i].key) => i = j
    BY <2>0, EnvAssumption
  <2>3. /\ DOMAIN s = 1 .. Len(s) /\ Len(s) \in Nat
        /\ \A i \in DOMAIN s : s[i].key \in EnvKeys /\ s[i].val \in Text
    <3>1. \A i \in DOMAIN s : s[i] \in Var
      BY <2>2
    <3>2. \A y \in Var : y.key \in EnvKeys /\ y.val \in Text
      BY DEF Var, Text
    <3>3. DOMAIN s = 1 .. Len(s) /\ Len(s) \in Nat
      BY <2>2
    <3> QED
      BY <3>1, <3>2, <3>3, Zenon
  <2>4. l = [i \in 1 .. Len(s) |-> Entry(s[i].key, s[i].val, TRUE)]
    BY <2>0, <2>1, <2>3
  <2>5. ASSUME NEW i \in DOMAIN s
        PROVE  Entry(s[i].key, s[i].val, TRUE) \in EntryT /\ l[i].key = s[i].key
    BY <2>3, <2>4 DEF Entry, EntryT
  <2>6. l \in Seq(EntryT) /\ DOMAIN l = DOMAIN s
    <3>1. \A i \in 1 .. Len(s) : Entry(s[i].key, s[i].val, TRUE) \in EntryT
      BY <2>3, <2>5
    <3>2. [i \in 1 .. Len(s) |-> Entry(s[i].key, s[i].val, TRUE)] \in [1 .. Len(s) -> EntryT]
      BY <3>1, Zenon
    <3>3. l \in [1 .. Len(s) -> EntryT]
      BY <2>4, <3>2, Zenon
    <3>4. l \in Seq(EntryT)
      BY <2>3, <3>3
    <3> QED
      BY <2>3, <3>3, <3>4
  <2>7. PICK g : g = [e EXCEPT !.env_list = l]
    OBVIOUS
  <2>8. g \in EnvironT /\ g.env_list = l /\ g.environ = f
    BY <1>5, <2>6, <2>7, ListFacts
  <2>9. PICK w : w = PutAll(g)
    OBVIOUS
  <2>10. /\ w \in EnvironT /\ w.env_list = l
         /\ \A k \in EnvKeys : Once(l, k) => Says(l, k, w.environ[k])
    BY <1>1, <2>8, <2>9, PutAllFacts
  <2>11. \A k \in EnvKeys : Alone(k) => Once(l, k)
    BY <2>2, <2>5, <2>6 DEF Once
  <2>12. w \in Sound
    BY <2>10, <2>11 DEF Sound
  <2>13. udev.env = w
    <3>1. Restored = [Fresh EXCEPT !.name = Stored.name, !.links = Stored.links, !.env = w]
      BY <1>3, <2>1, <2>7, <2>9 DEF Restored
    <3>2. [Fresh EXCEPT !.name = Stored.name, !.links = Stored.links, !.env = w].env = w
      BY DEF Fresh
    <3> QED
      BY <1>8, <3>1, <3>2
  <2> QED
    BY <2>12, <2>13
<1>10. CASE udev = [Fresh EXCEPT !.name = Chain[1].KERNEL]
  <2>1. [Fresh EXCEPT !.name = Chain[1].KERNEL].env = e
    BY <1>3 DEF Fresh
  <2> QED
    BY <1>6, <1>10, <2>1
<1> QED
  BY <1>7, <1>8, <1>10 DEF RulesInit, Begins

\* Every step of the event keeps it.
LEMMA StepEnv ==
  RulesInv /\ EnvInv /\ [RulesNext]_rulevars => EnvInv'
<1> SUFFICES ASSUME RulesInv, EnvInv, [RulesNext]_rulevars,
                    \A i \in DOMAIN rulebuf : rulebuf[i].import # "parent",
                    rulebuf' = rulebuf
             PROVE  udev'.env \in Sound
  BY DEF EnvInv, RulesNext, SkipRule, NoMatch, ApplyRule, RulesDone, rulevars, Sound, EnvironT,
         EntryT, Once, Says
<1>1. IsEvent(udev) /\ udev.env \in Sound /\ rulebuf \in Seq(RuleT) /\ current \in Nat \ {0}
  BY DEF EnvInv, RulesInv, RulesTypeOK
<1>2. ASSUME current <= Len(rulebuf), NEW m \in MatchRule(Rule, udev)
      PROVE  Rule \in RuleT /\ IsEvent(m[1]) /\ m[1].env \in Sound
  <2>1. current \in DOMAIN rulebuf
    BY <1>1, <1>2
  <2>2. Rule \in RuleT /\ Rule.import # "parent"
    BY <1>1, <2>1 DEF Rule
  <2> QED
    BY <1>1, <1>2, <2>2, MatchSound, MatchKeeps, LikeFacts
<1>3. CASE SkipRule
  BY <1>1, <1>3 DEF SkipRule
<1>4. CASE NoMatch
  BY <1>2, <1>4 DEF NoMatch
<1>5. CASE ApplyRule
  <2>1. current <= Len(rulebuf)
    BY <1>5 DEF ApplyRule
  <2>2. PICK m \in MatchRule(Rule, udev) :
          udev' = [m[1] EXCEPT !.ignore_device = TRUE] \/ udev' = Apply(Rule, m[1])
    BY <1>5, Zenon DEF ApplyRule
  <2>3. PICK u : u = m[1]
    OBVIOUS
  <2>4. Rule \in RuleT /\ IsEvent(u) /\ u.env \in Sound
    BY <1>2, <2>1, <2>3
  <2>5. [u EXCEPT !.ignore_device = TRUE].env = u.env
    BY <2>4 DEF IsEvent
  <2>6. Apply(Rule, u).env = u.env
    BY <2>4, ApplyEnv
  <2> QED
    BY <2>2, <2>3, <2>4, <2>5, <2>6
<1>6. CASE RulesDone
  <2>1. PICK n : udev' = [udev EXCEPT !.name = n]
    BY <1>6, Zenon DEF RulesDone
  <2> QED
    BY <1>1, <2>1 DEF IsEvent
<1>7. CASE UNCHANGED rulevars
  BY <1>1, <1>7 DEF rulevars
<1> QED
  BY <1>3, <1>4, <1>5, <1>6, <1>7 DEF RulesNext

\* What the database is given of the environment restores it at the remove event,
\* for every variable whose name is no beginning of another one and which no rule
\* has unset against the kernel's event, when no rule imports the environment of
\* the parent.
THEOREM EnvironmentIsKept ==
  RulesSpec => []EnvIsKept
<1>1. EnvInv => EnvIsKept
  <2> SUFFICES ASSUME udev.env \in Sound, NEW k \in EnvKeys, Alone(k),
                      Uevent[k] = "" \/ udev.env.environ[k] # ""
               PROVE  PutAll([udev.env EXCEPT !.environ = Fresh.env.environ]).environ[k] =
                        udev.env.environ[k]
    BY DEF EnvInv, EnvIsKept
  <2>1. PICK e : e = udev.env
    OBVIOUS
  <2>2. PICK f : f = Fresh.env.environ
    OBVIOUS
  <2>3. f \in [EnvKeys -> Text]
    BY <2>2, EnvAssumption DEF Fresh, Text
  <2>4. e \in EnvironT /\ Once(e.env_list, k) /\ Says(e.env_list, k, e.environ[k])
    BY <2>1 DEF Sound
  <2>5. PICK g : g = [e EXCEPT !.environ = f]
    OBVIOUS
  <2>6. g \in EnvironT /\ g.env_list = e.env_list /\ g.environ = f
    BY <2>3, <2>4, <2>5 DEF EnvironT
  <2>7. /\ Says(e.env_list, k, PutAll(g).environ[k])
        /\ (\A i \in DOMAIN e.env_list : e.env_list[i].key # k) =>
             PutAll(g).environ[k] = Uevent[k]
    <3>1. g.environ = Fresh.env.environ
      BY <2>2, <2>6
    <3>2. Once(g.env_list, k) =>
            /\ Says(g.env_list, k, PutAll(g).environ[k])
            /\ (\A i \in DOMAIN g.env_list : g.env_list[i].key # k) =>
                 PutAll(g).environ[k] = Uevent[k]
      BY <2>6, <3>1, PutAllFacts, Zenon
    <3>3. PICK l : l = e.env_list /\ l = g.env_list
      BY <2>6
    <3> QED
      BY <2>4, <3>2, <3>3, Zenon
  <2>8. PutAll(g).environ[k] = e.environ[k]
    <3>1. PICK w : w = PutAll(g)
      OBVIOUS
    <3>2. CASE \A i \in DOMAIN e.env_list : e.env_list[i].key # k
      <4>1. w.environ[k] = Uevent[k] /\ e.environ[k] \in {"", Uevent[k]}
        BY <2>4, <2>7, <3>1, <3>2, Zenon DEF Says
      <4>2. Uevent[k] = "" \/ e.environ[k] # ""
        BY <2>1
      <4> QED
        BY <3>1, <4>1, <4>2
    <3>3. CASE \E i \in DOMAIN e.env_list : e.env_list[i].key = k
      BY <2>4, <2>7, <3>1, <3>3 DEF Says
    <3> QED
      BY <3>2, <3>3, Zenon
  <2> QED
    BY <2>1, <2>2, <2>5, <2>8
<1> QED
  BY <1>1, InitEnv, StepEnv, RulesInductive, PTL DEF RulesSpec
=============================================================================
