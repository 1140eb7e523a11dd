------------------------- MODULE ConfigurationProofs -------------------------
(***************************************************************************)
(* Proofs about Configuration: what a generated file means, and the order  *)
(* in which ConfigMap and StatefulSet reach a server.                      *)
(***************************************************************************)
EXTENDS Configuration, FiniteSetTheorems, WellFoundedInduction, TLAPS

(* A nonempty set of line numbers has a last one.                          *)
LEMMA LastExists ==
    ASSUME NEW n \in Nat, NEW S \in SUBSET (1 .. n), S # {}
    PROVE  \E i \in S : \A j \in S : j <= i
<1> DEFINE T == {n - i : i \in S}
<1>1. T \subseteq Nat /\ T # {}
  <2>1. ASSUME NEW i \in S PROVE n - i \in Nat
    <3>1. i \in 1 .. n
      OBVIOUS
    <3> QED BY <3>1
  <2>2. T \subseteq Nat
    BY <2>1
  <2>3. T # {}
    <3>1. PICK i \in S : TRUE
      OBVIOUS
    <3>2. n - i \in T
      OBVIOUS
    <3> QED BY <3>2
  <2> QED BY <2>2, <2>3
<1> DEFINE R == OpToRel(<, Nat)
<1>2. IsWellFoundedOn(R, Nat)
  BY NatLessThanWellFounded
<1>3. PICK x \in T : \A y \in T : ~(<<y, x>> \in R)
  <2> HIDE DEF T, R
  <2> QED BY <1>1, <1>2, WFMin
<1>4. \A y \in T : ~(y < x)
  BY <1>1, <1>3 DEF OpToRel
<1>5. PICK i \in S : x = n - i
  OBVIOUS
<1>6. \A j \in S : n - j \in T
  OBVIOUS
<1>7. ASSUME NEW j \in S PROVE j <= i
  <2> HIDE DEF T
  <2> QED BY <1>4, <1>5, <1>6
<1> QED BY <1>7

(* The value of an option that a line gives is that of its last line.      *)
LEMMA EffectiveIsLast ==
    ASSUME NEW n \in Nat, NEW file, DOMAIN file = 1 .. n, NEW option,
           linesFor(file, option) # {}
    PROVE  \E i \in linesFor(file, option) :
             /\ \A j \in linesFor(file, option) : j <= i
             /\ effective(file, option) = file[i].value
<1> DEFINE S == linesFor(file, option)
           last == CHOOSE i \in S : \A j \in S : j <= i
<1>1. S \in SUBSET (1 .. n)
  BY DEF linesFor
<1>2. \E i \in S : \A j \in S : j <= i
  BY <1>1, LastExists
<1>3. last \in S /\ \A j \in S : j <= last
  BY <1>2
<1>4. effective(file, option) = file[last].value
  BY DEF effective
<1> QED BY <1>3, <1>4

-----------------------------------------------------------------------------
(* A file is what the role writes and what the users gave.                 *)

LEMMA ConcatLines ==
    ASSUME NEW X, NEW base \in Seq(X), NEW given \in Seq(X), NEW option
    PROVE  /\ base \o given \in Seq(X)
           /\ linesFor(base \o given, option) =
                linesFor(base, option)
                \cup {Len(base) + i : i \in linesFor(given, option)}
<1>1. \A i \in 1 .. Len(base) : (base \o given)[i] = base[i]
  OBVIOUS
<1>2. \A i \in 1 .. Len(given) : (base \o given)[Len(base) + i] = given[i]
  OBVIOUS
<1>3. DOMAIN (base \o given) = 1 .. Len(base) + Len(given)
  OBVIOUS
<1>4. \A k \in 1 .. Len(base) + Len(given) :
        k \in 1 .. Len(base) \/ \E i \in 1 .. Len(given) : k = Len(base) + i
  <2>1. ASSUME NEW k \in 1 .. Len(base) + Len(given), k \notin 1 .. Len(base)
        PROVE  k - Len(base) \in 1 .. Len(given) /\ k = Len(base) + (k - Len(base))
    BY <2>1
  <2> QED BY <2>1
<1>5. DOMAIN base = 1 .. Len(base) /\ DOMAIN given = 1 .. Len(given)
  OBVIOUS
<1>6. base \o given \in Seq(X)
  OBVIOUS
<1>7. linesFor(base \o given, option) \subseteq
        linesFor(base, option) \cup {Len(base) + i : i \in linesFor(given, option)}
  <2> SUFFICES ASSUME NEW k \in 1 .. Len(base) + Len(given),
                      (base \o given)[k].option = option
               PROVE  k \in linesFor(base, option)
                        \cup {Len(base) + i : i \in linesFor(given, option)}
    BY <1>3 DEF linesFor
  <2>1. CASE k \in 1 .. Len(base)
    BY <2>1, <1>1, <1>5 DEF linesFor
  <2>2. ASSUME NEW i \in 1 .. Len(given), k = Len(base) + i PROVE i \in linesFor(given, option)
    BY <2>2, <1>2, <1>5 DEF linesFor
  <2> QED BY <2>1, <2>2, <1>4
<1>8. linesFor(base, option) \subseteq linesFor(base \o given, option)
  <2> SUFFICES ASSUME NEW k \in 1 .. Len(base), base[k].option = option
               PROVE  k \in linesFor(base \o given, option)
    BY <1>5 DEF linesFor
  <2>1. k \in 1 .. Len(base) + Len(given)
    OBVIOUS
  <2> QED BY <2>1, <1>1, <1>3 DEF linesFor
<1>9. ASSUME NEW i \in linesFor(given, option)
      PROVE  Len(base) + i \in linesFor(base \o given, option)
  <2>1. i \in 1 .. Len(given) /\ given[i].option = option
    BY <1>5 DEF linesFor
  <2>2. Len(base) + i \in 1 .. Len(base) + Len(given)
    BY <2>1
  <2> QED BY <2>1, <2>2, <1>2, <1>3 DEF linesFor
<1> QED BY <1>6, <1>7, <1>8, <1>9

(* An option that the second part gives one value has it.                  *)
LEMMA EffectiveGiven ==
    ASSUME NEW X, NEW base \in Seq(X), NEW given \in Seq(X), NEW option, NEW value,
           linesFor(given, option) # {},
           \A i \in linesFor(given, option) : given[i].value = value
    PROVE  effective(base \o given, option) = value
<1> DEFINE file == base \o given
           n == Len(base) + Len(given)
<1>0. linesFor(file, option) =
        linesFor(base, option) \cup {Len(base) + i : i \in linesFor(given, option)}
  BY ConcatLines
<1>1. n \in Nat /\ DOMAIN file = 1 .. n
  OBVIOUS
<1>2. \A k \in linesFor(base, option) : k \in 1 .. Len(base)
  BY DEF linesFor
<1>3. \A i \in linesFor(given, option) :
        i \in 1 .. Len(given) /\ file[Len(base) + i].value = value
  BY DEF linesFor
<1>4. linesFor(file, option) # {}
  <2>1. PICK i \in linesFor(given, option) : TRUE
    OBVIOUS
  <2>2. Len(base) + i \in linesFor(file, option)
    BY <1>0, <2>1
  <2> QED BY <2>2
<1>5. PICK k \in linesFor(file, option) :
        /\ \A j \in linesFor(file, option) : j <= k
        /\ effective(file, option) = file[k].value
  <2> HIDE DEF n, file
  <2> QED BY <1>1, <1>4, EffectiveIsLast
<1>6. k \notin linesFor(base, option)
  <2>1. PICK i \in linesFor(given, option) : TRUE
    OBVIOUS
  <2>2. Len(base) + i \in linesFor(file, option) /\ i >= 1 /\ i \in Nat
    BY <1>0, <1>3
  <2>3. Len(base) + i <= k
    BY <1>5, <2>2
  <2> QED BY <2>2, <2>3, <1>2
<1>7. PICK i \in linesFor(given, option) : k = Len(base) + i
  BY <1>0, <1>6
<1> QED BY <1>3, <1>5, <1>7

(* An option that the second part does not give has the value of the first. *)
LEMMA EffectiveBase ==
    ASSUME NEW X, NEW base \in Seq(X), NEW given \in Seq(X), NEW option,
           linesFor(given, option) = {}
    PROVE  effective(base \o given, option) = effective(base, option)
<1> DEFINE file == base \o given
<1>0. linesFor(file, option) =
        linesFor(base, option) \cup {Len(base) + i : i \in linesFor(given, option)}
  BY ConcatLines
<1>1. linesFor(file, option) = linesFor(base, option)
  BY <1>0
<1>2. CASE linesFor(base, option) = {}
  BY <1>1, <1>2 DEF effective
<1>3. CASE linesFor(base, option) # {}
  <2> DEFINE last == CHOOSE i \in linesFor(base, option) :
                        \A j \in linesFor(base, option) : j <= i
  <2>1. Len(base) \in Nat /\ DOMAIN base = 1 .. Len(base)
    OBVIOUS
  <2>2. \E i \in linesFor(base, option) : \A j \in linesFor(base, option) : j <= i
    BY <1>3, <2>1, LastExists DEF linesFor
  <2>3. last \in linesFor(base, option)
    BY <2>2
  <2>4. last \in 1 .. Len(base)
    BY <2>1, <2>3 DEF linesFor
  <2>5. file[last] = base[last]
    BY <2>4
  <2>6. effective(base, option) = base[last].value
    BY <1>3 DEF effective
  <2>7. effective(file, option) = file[last].value
    BY <1>1, <1>3 DEF effective
  <2> QED BY <2>5, <2>6, <2>7
<1> QED BY <1>2, <1>3

-----------------------------------------------------------------------------
(* What the role writes, and what the users gave.                          *)

Lines == [option : Options, spelling : Spellings,
          value : Values \cup {"mysql-bin", "ON", "0", "1", "2"}]

Defaulted == {"innodb_flush_log_at_trx_commit", "sync_binlog"}

LEMMA LineFields ==
    ASSUME NEW option, NEW value
    PROVE  /\ Line(option, value).option = option
           /\ Line(option, value).value = value
           /\ option \in Options /\ value \in {"mysql-bin", "ON", "0", "1", "2"} =>
                Line(option, value) \in Lines
BY ConfigurationAssumption DEF Line, Lines

LEMMA NoLine == << >> \in Seq(Lines) /\ \A option : linesFor(<< >>, option) = {}
<1>1. << >> \in Seq(Lines) /\ DOMAIN << >> = {}
  OBVIOUS
<1> QED BY <1>1 DEF linesFor

LEMMA OneLine ==
    ASSUME NEW a \in Lines
    PROVE  /\ << a >> \in Seq(Lines) /\ << a >>[1] = a
           /\ linesFor(<< a >>, a.option) = {1}
           /\ \A option : option # a.option => linesFor(<< a >>, option) = {}
<1>1. << a >> \in Seq(Lines) /\ << a >>[1] = a
  OBVIOUS
<1>2. DOMAIN << a >> = 1 .. 1
  OBVIOUS
<1>3. \A i : i \in 1 .. 1 <=> i = 1
  OBVIOUS
<1>4. ASSUME NEW option, NEW i
      PROVE  i \in linesFor(<< a >>, option) <=> i = 1 /\ a.option = option
  BY <1>1, <1>2, <1>3 DEF linesFor
<1> QED BY <1>1, <1>4

LEMMA TwoLines ==
    ASSUME NEW a \in Lines, NEW b \in Lines, a.option # b.option
    PROVE  /\ << a, b >> \in Seq(Lines)
           /\ effective(<< a, b >>, a.option) = a.value
           /\ effective(<< a, b >>, b.option) = b.value
           /\ \A option : option \notin {a.option, b.option} =>
                effective(<< a, b >>, option) = "unset"
<1> DEFINE file == << a, b >>
<1>1. file \in Seq(Lines) /\ file[1] = a /\ file[2] = b
  OBVIOUS
<1>2. DOMAIN file = 1 .. 2
  OBVIOUS
<1>3. \A i : i \in 1 .. 2 <=> i = 1 \/ i = 2
  OBVIOUS
<1> HIDE DEF file
<1>4. ASSUME NEW option, NEW i
      PROVE  i \in linesFor(file, option)
               <=> (i = 1 /\ a.option = option) \/ (i = 2 /\ b.option = option)
  BY <1>1, <1>2, <1>3 DEF linesFor
<1>5. \A option : linesFor(file, option) # {} =>
        \E i \in linesFor(file, option) : effective(file, option) = file[i].value
  BY <1>2, EffectiveIsLast
<1>6. effective(file, a.option) = a.value
  BY <1>1, <1>4, <1>5
<1>7. effective(file, b.option) = b.value
  BY <1>1, <1>4, <1>5
<1>8. ASSUME NEW option, option \notin {a.option, b.option}
      PROVE  effective(file, option) = "unset"
  <2>1. linesFor(file, option) = {}
    BY <1>4, <1>8
  <2> QED BY <2>1 DEF effective
<1> QED BY <1>1, <1>6, <1>7, <1>8 DEF file

LEMMA FixedLines ==
    ASSUME NEW r \in {"primary", "secondary"}
    PROVE  /\ fixedLines(r) \in Seq(Lines)
           /\ \A option \in Options \ Defaulted :
                effective(fixedLines(r), option) = roleValue(r, option)
<1>1. CASE r = "primary"
  <2> DEFINE a == Line("log_bin", "mysql-bin")
             b == Line("server_id", "1")
  <2>1. /\ a \in Lines /\ a.option = "log_bin" /\ a.value = "mysql-bin"
        /\ b \in Lines /\ b.option = "server_id" /\ b.value = "1"
    BY LineFields DEF Options
  <2>2. fixedLines(r) = << a, b >>
    BY <1>1 DEF fixedLines
  <2> HIDE DEF a, b
  <2>3. /\ << a, b >> \in Seq(Lines)
        /\ effective(<< a, b >>, "log_bin") = "mysql-bin"
        /\ effective(<< a, b >>, "server_id") = "1"
        /\ \A option : option \notin {"log_bin", "server_id"} =>
             effective(<< a, b >>, option) = "unset"
    BY <2>1, TwoLines
  <2> QED BY <1>1, <2>2, <2>3 DEF roleValue, Defaulted
<1>2. CASE r = "secondary"
  <2> DEFINE a == Line("server_id", "2")
             b == Line("read_only", "ON")
  <2>1. /\ a \in Lines /\ a.option = "server_id" /\ a.value = "2"
        /\ b \in Lines /\ b.option = "read_only" /\ b.value = "ON"
    BY LineFields DEF Options
  <2>2. fixedLines(r) = << a, b >>
    BY <1>2 DEF fixedLines
  <2> HIDE DEF a, b
  <2>3. /\ << a, b >> \in Seq(Lines)
        /\ effective(<< a, b >>, "server_id") = "2"
        /\ effective(<< a, b >>, "read_only") = "ON"
        /\ \A option : option \notin {"server_id", "read_only"} =>
             effective(<< a, b >>, option) = "unset"
    BY <2>1, TwoLines
  <2> QED BY <1>2, <2>2, <2>3 DEF roleValue, Defaulted
<1> QED BY <1>1, <1>2

(* A default is there exactly when no parameter has its name.              *)
LEMMA DefaultLine ==
    ASSUME NEW r \in {"primary", "secondary"}, NEW name \in Defaulted, NEW params
    PROVE  /\ defaultLine(r, name, params) \in Seq(Lines)
           /\ \A option \in Options \ {name} :
                linesFor(defaultLine(r, name, params), option) = {}
           /\ <<name, "underscore">> \notin DOMAIN params =>
                /\ linesFor(defaultLine(r, name, params), name) = {1}
                /\ defaultLine(r, name, params)[1].value = roleValue(r, name)
<1> DEFINE line == Line(name, defaultValue(r, name))
<1>1. line \in Lines /\ line.option = name /\ line.value = roleValue(r, name)
  <2>1. defaultValue(r, name) = roleValue(r, name)
    BY DEF defaultValue, roleValue, Defaulted
  <2>2. roleValue(r, name) \in {"0", "1", "2"} /\ name \in Options
    BY DEF roleValue, Defaulted, Options
  <2> QED BY <2>1, <2>2, LineFields
<1>2. CASE <<name, "underscore">> \in DOMAIN params
  <2>1. defaultLine(r, name, params) = << >>
    BY <1>2 DEF defaultLine
  <2> QED BY <1>2, <2>1, NoLine
<1>3. CASE <<name, "underscore">> \notin DOMAIN params
  <2>1. defaultLine(r, name, params) = << line >>
    BY <1>3 DEF defaultLine
  <2> HIDE DEF line
  <2> QED BY <1>1, <2>1, OneLine
<1> QED BY <1>2, <1>3

LEMMA RoleLines ==
    ASSUME NEW r \in {"primary", "secondary"}, NEW params
    PROVE  /\ roleLines(r, params) \in Seq(Lines)
           /\ \A option \in Options :
                <<option, "underscore">> \notin DOMAIN params =>
                    effective(roleLines(r, params), option) = roleValue(r, option)
<1> DEFINE fixed == fixedLines(r)
           flush == defaultLine(r, "innodb_flush_log_at_trx_commit", params)
           sync  == defaultLine(r, "sync_binlog", params)
<1>1. fixed \in Seq(Lines) /\ flush \in Seq(Lines) /\ sync \in Seq(Lines)
  BY FixedLines, DefaultLine DEF Defaulted
<1>2. fixed \o flush \in Seq(Lines) /\ (fixed \o flush) \o sync \in Seq(Lines)
  <2> HIDE DEF fixed, flush, sync
  <2> QED BY <1>1
<1>3. roleLines(r, params) = (fixed \o flush) \o sync
  BY DEF roleLines
<1>4. ASSUME NEW option \in Options, <<option, "underscore">> \notin DOMAIN params
      PROVE  effective((fixed \o flush) \o sync, option) = roleValue(r, option)
  <2>1. CASE option = "sync_binlog"
    <3>1. linesFor(sync, option) = {1} /\ sync[1].value = roleValue(r, option)
      BY <1>4, <2>1, DefaultLine DEF Defaulted
    <3>2. /\ linesFor(sync, option) # {}
          /\ \A i \in linesFor(sync, option) : sync[i].value = roleValue(r, option)
      <4> HIDE DEF sync
      <4> QED BY <3>1
    <3> HIDE DEF fixed, flush, sync
    <3> QED BY <1>1, <1>2, <3>2, EffectiveGiven
  <2>2. CASE option # "sync_binlog"
    <3>1. linesFor(sync, option) = {}
      BY <2>2, DefaultLine DEF Defaulted
    <3>2. effective((fixed \o flush) \o sync, option) = effective(fixed \o flush, option)
      <4> HIDE DEF fixed, flush, sync
      <4> QED BY <1>1, <1>2, <3>1, EffectiveBase
    <3>3. CASE option = "innodb_flush_log_at_trx_commit"
      <4>1. linesFor(flush, option) = {1} /\ flush[1].value = roleValue(r, option)
        BY <1>4, <3>3, DefaultLine DEF Defaulted
      <4> HIDE DEF fixed, flush, sync
      <4>2. /\ linesFor(flush, option) # {}
            /\ \A i \in linesFor(flush, option) : flush[i].value = roleValue(r, option)
        BY <4>1
      <4>3. effective(fixed \o flush, option) = roleValue(r, option)
        BY <1>1, <4>2, EffectiveGiven
      <4> QED BY <3>2, <4>3
    <3>4. CASE option # "innodb_flush_log_at_trx_commit"
      <4>1. linesFor(flush, option) = {}
        BY <3>4, DefaultLine DEF Defaulted
      <4>2. effective(fixed, option) = roleValue(r, option)
        BY <2>2, <3>4, FixedLines DEF Defaulted
      <4> HIDE DEF fixed, flush, sync
      <4> QED BY <1>1, <3>2, <4>1, <4>2, EffectiveBase
    <3> QED BY <3>3, <3>4
  <2> QED BY <2>1, <2>2
<1> QED BY <1>2, <1>3, <1>4

(* However the map is iterated, each parameter has one line, of its value. *)
LEMMA GivenLines ==
    ASSUME Spellings = {"underscore"},
           NEW params \in Parameters, NEW lines \in givenLines(params)
    PROVE  /\ lines \in Seq(Lines)
           /\ \A option : \A i \in linesFor(lines, option) :
                /\ <<option, "underscore">> \in DOMAIN params
                /\ lines[i].value = params[<<option, "underscore">>]
           /\ \A option : <<option, "underscore">> \in DOMAIN params =>
                linesFor(lines, option) # {}
<1> DEFINE K == DOMAIN params
           n == Cardinality(K)
<1>1. K \in SUBSET Keys /\ \A k \in K : params[k] \in Values
  BY DEF Parameters
<1>2. n \in Nat
  <2>1. IsFiniteSet(Keys)
    BY ConfigurationAssumption, FS_Product DEF Keys
  <2>2. IsFiniteSet(K)
    BY <1>1, <2>1, FS_Subset
  <2> QED BY <2>2, FS_CardinalityType
<1>3. PICK order \in Iterations(K) :
        lines = [i \in DOMAIN order |->
                    [option |-> order[i][1], spelling |-> order[i][2],
                     value |-> params[order[i]]]]
  BY DEF givenLines
<1>4. /\ order \in [1 .. n -> K]
      /\ \A k \in K : \E i \in 1 .. n : order[i] = k
  BY DEF Iterations
<1>5. \A i \in 1 .. n : /\ order[i][1] \in Edited /\ order[i][2] = "underscore"
                        /\ order[i] = <<order[i][1], "underscore">>
  BY <1>1, <1>4 DEF Keys
<1>6. DOMAIN lines = 1 .. n
  BY <1>3, <1>4
<1>7. \A i \in 1 .. n : /\ lines[i] \in Lines
                        /\ lines[i].option = order[i][1]
                        /\ lines[i].value = params[order[i]]
  BY <1>1, <1>3, <1>4, <1>5 DEF Lines, Options
<1>8. lines \in Seq(Lines)
  <2> HIDE DEF n
  <2>1. lines = [i \in 1 .. n |-> lines[i]]
    BY <1>3, <1>4
  <2>2. lines \in [1 .. n -> Lines]
    BY <1>7, <2>1
  <2> QED BY <1>2, <2>2
<1>9. ASSUME NEW option, NEW i \in linesFor(lines, option)
      PROVE  <<option, "underscore">> \in K /\ lines[i].value = params[<<option, "underscore">>]
  <2>1. i \in 1 .. n /\ lines[i].option = option
    BY <1>6 DEF linesFor
  <2> QED BY <1>4, <1>5, <1>7, <2>1
<1>10. ASSUME NEW option, <<option, "underscore">> \in K
       PROVE  linesFor(lines, option) # {}
  <2>1. PICK i \in 1 .. n : order[i] = <<option, "underscore">>
    BY <1>4, <1>10
  <2>2. lines[i].option = option
    BY <1>7, <2>1
  <2> QED BY <1>6, <2>2 DEF linesFor
<1> QED BY <1>8, <1>9, <1>10

-----------------------------------------------------------------------------
(* Type correctness.                                                       *)

LEMMA MergedType ==
    ASSUME NEW s \in Specs
    PROVE  mergeMySQLConfigs(s) \in Parameters
<1>1. s.common.params \in Parameters /\ s.specific.params \in Parameters
  BY DEF Specs, Configs
<1>2. PICK K \in SUBSET Keys : s.common.params \in [K -> Values]
  BY <1>1 DEF Parameters
<1>3. PICK L \in SUBSET Keys : s.specific.params \in [L -> Values]
  BY <1>1 DEF Parameters
<1>4. mergeMySQLConfigs(s) \in [K \cup L -> Values]
  BY <1>2, <1>3 DEF mergeMySQLConfigs
<1> QED BY <1>4 DEF Parameters

LEMMA EditsType ==
    ASSUME NEW config \in Configs, NEW edited \in Edits(config)
    PROVE  edited \in Configs
<1>1. PICK K \in SUBSET Keys : config.params \in [K -> Values]
  BY DEF Configs, Parameters
<1>2. /\ config.image \in Images \cup {"unset"} /\ config.secret \in Secrets \cup {"unset"}
      /\ config = [params |-> config.params, image |-> config.image, secret |-> config.secret]
  BY DEF Configs
<1>3. ASSUME NEW k \in Keys, NEW v \in Values PROVE SetParameter(config, k, v) \in Configs
  <2> DEFINE params == [l \in DOMAIN config.params \cup {k} |->
                          IF l = k THEN v ELSE config.params[l]]
  <2>1. params \in [K \cup {k} -> Values]
    BY <1>1, <1>3
  <2>2. params \in Parameters
    BY <2>1, <1>3 DEF Parameters
  <2>3. SetParameter(config, k, v) = [config EXCEPT !.params = params]
    BY DEF SetParameter
  <2> QED BY <1>2, <2>2, <2>3 DEF Configs
<1>4. ASSUME NEW k \in DOMAIN config.params PROVE DropParameter(config, k) \in Configs
  <2> DEFINE params == [l \in DOMAIN config.params \ {k} |-> config.params[l]]
  <2>1. params \in [K \ {k} -> Values]
    BY <1>1
  <2>2. params \in Parameters
    BY <2>1 DEF Parameters
  <2>3. DropParameter(config, k) = [config EXCEPT !.params = params]
    BY DEF DropParameter
  <2> QED BY <1>2, <2>2, <2>3 DEF Configs
<1>5. \A i \in Images \cup {"unset"} : [config EXCEPT !.image = i] \in Configs
  BY <1>2 DEF Configs
<1>6. \A s \in Secrets \cup {"unset"} : [config EXCEPT !.secret = s] \in Configs
  BY <1>2 DEF Configs
<1> QED BY <1>3, <1>4, <1>5, <1>6 DEF Edits

LEMMA EditedSpecs ==
    ASSUME TypeOK, EditSpec
    PROVE  /\ specs' \in Seq(Specs) /\ Len(specs') = Len(specs) + 1
           /\ \A i \in 1 .. Len(specs) : specs'[i] = specs[i]
<1>1. specs \in Seq(Specs) /\ Len(specs) \in 1 .. MaxEdits + 1 /\ Len(specs) \in Nat
  BY ConfigurationAssumption DEF TypeOK
<1>2. specs[Len(specs)] \in Specs
  BY <1>1
<1>3. \E spec \in Specs : specs' = Append(specs, spec)
  <2>1. ASSUME NEW scope \in {"common", "specific"},
               NEW config \in Edits(specs[Len(specs)][scope])
        PROVE  [specs[Len(specs)] EXCEPT ![scope] = config] \in Specs
    <3>1. config \in Configs
      BY <1>2, <2>1, EditsType DEF Specs
    <3> QED BY <1>2, <2>1, <3>1 DEF Specs
  <2>2. \A user \in Users \cup {"unset"} : [specs[Len(specs)] EXCEPT !.user = user] \in Specs
    BY <1>2 DEF Specs
  <2> HIDE DEF Edits
  <2> QED BY <2>1, <2>2 DEF EditSpec
<1> QED BY <1>1, <1>3

LEMMA TypeInit == Init => TypeOK
<1> SUFFICES ASSUME Init PROVE TypeOK
  OBVIOUS
<1>1. NoParameters \in Parameters
  <2>1. NoParameters \in [{} -> Values]
    BY DEF NoParameters
  <2> QED BY <2>1 DEF Parameters
<1>2. NoConfig \in Configs
  BY <1>1 DEF NoConfig, Configs
<1>3. FirstSpec \in Specs
  BY <1>2 DEF FirstSpec, Specs
<1>4. specs \in Seq(Specs) /\ Len(specs) = 1
  BY <1>3 DEF Init
<1> QED BY <1>4, ConfigurationAssumption
        DEF Init, TypeOK, ConfigMapOK, StatefulSetOK, NoConfigMap, NoStatefulSet, NoPod

LEMMA TypeNext == TypeOK /\ [Next]_vars => TypeOK'
<1> SUFFICES ASSUME TypeOK, [Next]_vars PROVE TypeOK'
  OBVIOUS
<1> USE ConfigurationAssumption
<1>1. CASE Start
  <2>1. /\ pc' = "configMap" /\ local' = specCache /\ found' = stsCache
        /\ UNCHANGED <<role, specs, specCache, cm, cmCache, sts, stsCache, pod,
                       disturbances>>
    BY <1>1 DEF Start
  <2>2. local <= local' /\ local \in Nat /\ local' \in Nat /\ local' \in 1 .. specCache'
    BY <2>1 DEF TypeOK
  <2>3. /\ \A c : ConfigMapOK(c, local) => ConfigMapOK(c, local')
        /\ \A s : StatefulSetOK(s, local) => StatefulSetOK(s, local')
    BY <2>2 DEF ConfigMapOK, StatefulSetOK
  <2> QED BY <2>1, <2>2, <2>3 DEF TypeOK
<1>2. CASE createOrUpdateConfigMap
  <2>1. /\ pc' \in {"idle", "statefulSet"} /\ disturbances' \in 0 .. MaxDisturbances
        /\ UNCHANGED <<role, specs, specCache, cmCache, sts, stsCache, local, found, pod>>
        /\ cm' = cm \/ \E file : cm' = configMapFor(file)
    BY <1>2 DEF createOrUpdateConfigMap, WriteConfigMap, Disturb, TypeOK
  <2>2. ASSUME NEW file PROVE ConfigMapOK(configMapFor(file), local)
    BY DEF TypeOK, ConfigMapOK, configMapFor
  <2>3. ConfigMapOK(cm', local)
    BY <2>1, <2>2 DEF TypeOK
  <2> QED BY <2>1, <2>3 DEF TypeOK
<1>3. CASE reconcileInstanceStatefulSet
  <2>1. /\ pc' = "idle" /\ disturbances' \in 0 .. MaxDisturbances
        /\ UNCHANGED <<role, specs, specCache, cm, cmCache, stsCache, local, found, pod>>
        /\ sts' = sts \/ sts' = desired
    BY <1>3 DEF reconcileInstanceStatefulSet, Disturb, TypeOK
  <2>2. specs[local] \in Specs
    BY DEF TypeOK
  <2>3. imageOf(specs[local]) \in Images \cup {"mariadb:10.5"}
    BY <2>2 DEF imageOf, firstSet, Specs, Configs
  <2>4. /\ desired.exists = TRUE /\ desired.from = local
        /\ desired.image \in Images \cup {"mariadb:10.5"}
    BY <2>3 DEF desired
  <2>5. StatefulSetOK(sts', local)
    <3>1. StatefulSetOK(desired, local)
      <4>1. local \in 0 .. local
        BY DEF TypeOK
      <4> QED BY <2>4, <4>1 DEF StatefulSetOK
    <3> QED BY <2>1, <3>1 DEF TypeOK
  <2>6. sts.from \in 0 .. local /\ desired.from = local /\ pod.from \in 0 .. sts.from
    BY <2>4 DEF TypeOK, StatefulSetOK
  <2>7. pod.from \in 0 .. sts'.from
    BY <2>1, <2>6 DEF TypeOK
  <2> QED BY <2>1, <2>5, <2>7 DEF TypeOK
<1>4. CASE Crash
  BY <1>4 DEF Crash, Disturb, TypeOK
<1>5. CASE SyncSpec
  BY <1>5 DEF SyncSpec, TypeOK
<1>6. CASE SyncConfigMap
  BY <1>6 DEF SyncConfigMap, TypeOK
<1>7. CASE SyncStatefulSet
  BY <1>7 DEF SyncStatefulSet, TypeOK
<1>8. CASE EditSpec
  <2>1. /\ Len(specs) <= MaxEdits
        /\ UNCHANGED <<role, specCache, cm, cmCache, sts, stsCache, pc, local, found, pod,
                       disturbances>>
    BY <1>8 DEF EditSpec
  <2>2. specs' \in Seq(Specs) /\ Len(specs') = Len(specs) + 1
    BY <1>8, EditedSpecs
  <2> QED BY <2>1, <2>2 DEF TypeOK
<1>9. CASE RollOut \/ Restart
  <2>1. /\ pod' = template
        /\ UNCHANGED <<role, specs, specCache, cm, cmCache, sts, stsCache, pc, local,
                       found, disturbances>>
    BY <1>9 DEF RollOut, Restart
  <2>2. pod'.running \in BOOLEAN /\ pod'.from \in 0 .. sts.from
    BY <2>1 DEF template, TypeOK, StatefulSetOK
  <2> QED BY <2>1, <2>2 DEF TypeOK
<1>10. CASE UNCHANGED vars
  BY <1>10 DEF vars, TypeOK
<1> QED BY <1>1, <1>2, <1>3, <1>4, <1>5, <1>6, <1>7, <1>8, <1>9, <1>10
        DEF Next, Handler, Environment

(* The types of all variables, for any options, values and spellings: the  *)
(* versions an object is written for never run ahead of the handler, nor a *)
(* pod ahead of its StatefulSet, and each StatefulSet has an image.        *)
THEOREM ConfigurationTypeCorrect == Spec => []TypeOK
BY TypeInit, TypeNext, PTL DEF Spec

-----------------------------------------------------------------------------
(* What a generated file means.                                            *)

LEMMA GeneratedMeans ==
    ASSUME Spellings = {"underscore"}, NEW r \in {"primary", "secondary"},
           NEW s \in Specs, NEW file \in generateMariaDBConfig(r, mergeMySQLConfigs(s))
    PROVE  Means(r, file, s)
<1> DEFINE params == mergeMySQLConfigs(s)
           base == roleLines(r, params)
<1>1. params \in Parameters
  BY MergedType
<1>2. PICK lines \in givenLines(params) : file = base \o lines
  BY DEF generateMariaDBConfig
<1>3. base \in Seq(Lines)
  BY RoleLines
<1>4. lines \in Seq(Lines)
  BY <1>1, GivenLines
<1>5. ASSUME NEW option \in Options PROVE effective(file, option) = meant(r, s, option)
  <2> DEFINE key == <<option, "underscore">>
  <2>1. CASE key \in DOMAIN params
    <3>1. /\ linesFor(lines, option) # {}
          /\ \A i \in linesFor(lines, option) : lines[i].value = params[key]
      BY <1>1, <2>1, GivenLines
    <3>2. effective(file, option) = params[key]
      <4> HIDE DEF params, base, key
      <4> QED BY <1>2, <1>3, <1>4, <3>1, EffectiveGiven
    <3>3. params[key] = meant(r, s, option)
      <4> HIDE DEF key
      <4> QED BY <2>1 DEF mergeMySQLConfigs, meant, key
    <3> QED BY <3>2, <3>3
  <2>2. CASE key \notin DOMAIN params
    <3>1. linesFor(lines, option) = {}
      BY <1>1, <2>2, GivenLines
    <3>2. effective(file, option) = effective(base, option)
      <4> HIDE DEF params, base, key
      <4> QED BY <1>2, <1>3, <1>4, <3>1, EffectiveBase
    <3>3. effective(base, option) = roleValue(r, option)
      BY <2>2, RoleLines
    <3>4. meant(r, s, option) = roleValue(r, option)
      <4>1. key \notin DOMAIN s.specific.params /\ key \notin DOMAIN s.common.params
        BY <2>2 DEF mergeMySQLConfigs
      <4> QED BY <4>1 DEF meant
    <3> QED BY <3>2, <3>3, <3>4
  <2> QED BY <2>1, <2>2
<1> QED BY <1>5 DEF Means

(* The copy of a ConfigMap is an earlier version of it, and each version   *)
(* was generated from the spec it is written for.                          *)
Generated(c) ==
    c.exists => c.from \in 1 .. local /\
                c.file \in generateMariaDBConfig(role, mergeMySQLConfigs(specs[c.from]))

FilesGenerated ==
    /\ Generated(cm) /\ Generated(cmCache)
    /\ cmCache.exists => cm.exists /\ cmCache.from <= cm.from

(* While the StatefulSet is written, the ConfigMap means what the handler  *)
(* works on; what the template was written for, or a later version, is     *)
(* what it means at any other time.                                        *)
MeansSince(file, first) ==
    \E n \in 1 .. Len(specs) : first <= n /\ Means(role, file, specs[n])

Since(first) == \E n \in 1 .. local : first <= n /\ Means(role, cm.file, specs[n])

ConfigMapFirst ==
    NeverReturns =>
        /\ pc = "statefulSet" => cm.exists /\ Means(role, cm.file, specs[local])
        /\ sts.exists => cm.exists /\ Since(sts.from)
        /\ pod.running => MeansSince(pod.file, pod.from)

PodHasTemplate == pod.running => sts.exists

ConfigInv == TypeOK /\ PodHasTemplate /\ FilesGenerated /\ ConfigMapFirst

LEMMA ConfigInit == Init => ConfigInv
<1> SUFFICES ASSUME Init PROVE ConfigInv
  OBVIOUS
<1>1. TypeOK
  BY TypeInit
<1>2. FilesGenerated
  BY DEF Init, FilesGenerated, Generated, NoConfigMap
<1>3. ConfigMapFirst /\ PodHasTemplate
  BY DEF Init, ConfigMapFirst, NoStatefulSet, NoPod, PodHasTemplate
<1> QED BY <1>1, <1>2, <1>3 DEF ConfigInv

(* Steps that neither write an object nor add a version of the spec.       *)
LEMMA SameFiles ==
    ASSUME TypeOK, FilesGenerated, UNCHANGED <<role, specs, cm>>, cmCache' \in {cm, cmCache},
           local' \in local .. Len(specs)
    PROVE  FilesGenerated'
<1>1. local \in Nat /\ local' \in Nat /\ local <= local'
  BY ConfigurationAssumption DEF TypeOK
<1>2. 1 .. local \subseteq 1 .. local'
  BY <1>1
<1>3. \A c : Generated(c) => (c.exists => c.from \in 1 .. local' /\
         c.file \in generateMariaDBConfig(role, mergeMySQLConfigs(specs[c.from])))
  BY <1>2 DEF Generated
<1>4. cm.exists => cm.from <= cm.from
  BY DEF FilesGenerated, Generated
<1>5. Generated(cm)' /\ Generated(cmCache)'
  BY <1>3 DEF FilesGenerated, Generated
<1> QED BY <1>4, <1>5 DEF FilesGenerated

LEMMA SameOrder ==
    ASSUME TypeOK, ConfigMapFirst, UNCHANGED <<role, specs, cm, sts, pod>>,
           local' \in local .. Len(specs),
           pc' = "statefulSet" => pc = "statefulSet" /\ local' = local
    PROVE  ConfigMapFirst'
<1> SUFFICES ASSUME NeverReturns'
             PROVE  /\ pc' = "statefulSet" => cm.exists /\ Means(role, cm.file, specs[local'])
                    /\ sts.exists => cm.exists /\ \E n \in 1 .. local' :
                                     sts.from <= n /\ Means(role, cm.file, specs[n])
                    /\ pod.running => \E n \in 1 .. Len(specs) :
                                        pod.from <= n /\ Means(role, pod.file, specs[n])
  BY DEF ConfigMapFirst, Since, MeansSince
<1>1. NeverReturns
  BY DEF NeverReturns
<1>2. sts.from \in Nat /\ local \in Nat /\ local' \in Nat /\ local <= local'
  BY ConfigurationAssumption DEF TypeOK, StatefulSetOK
<1>3. 1 .. local \subseteq 1 .. local'
  BY <1>2
<1> QED BY <1>1, <1>3 DEF ConfigMapFirst, Since, MeansSince

(* A cached file that is what the handler wants means what it wants, and   *)
(* so does the stored one, which is of a version in between.               *)
LEMMA KeptMeans ==
    ASSUME Spellings = {"underscore"}, TypeOK, FilesGenerated, NeverReturns, cmCache.exists,
           cmCache.file \in generateMariaDBConfig(role, mergeMySQLConfigs(specs[local]))
    PROVE  cm.exists /\ Means(role, cm.file, specs[local])
<1>1. /\ cm.exists /\ cmCache.from \in 1 .. local /\ cm.from \in 1 .. local
      /\ cmCache.from <= cm.from
      /\ cm.file \in generateMariaDBConfig(role, mergeMySQLConfigs(specs[cm.from]))
      /\ cmCache.file \in generateMariaDBConfig(role, mergeMySQLConfigs(specs[cmCache.from]))
  BY DEF FilesGenerated, Generated
<1>2. /\ role \in {"primary", "secondary"} /\ specs \in Seq(Specs)
      /\ local \in 1 .. Len(specs) /\ Len(specs) \in Nat
  BY ConfigurationAssumption DEF TypeOK
<1>3. /\ cm.from \in 1 .. Len(specs) /\ cmCache.from \in 1 .. Len(specs)
      /\ cm.from \in cmCache.from .. local
  BY <1>1, <1>2
<1>4. specs[local] \in Specs /\ specs[cm.from] \in Specs /\ specs[cmCache.from] \in Specs
  BY <1>2, <1>3
<1>5. /\ Means(role, cmCache.file, specs[cmCache.from])
      /\ Means(role, cmCache.file, specs[local])
      /\ Means(role, cm.file, specs[cm.from])
  BY <1>1, <1>2, <1>4, GeneratedMeans
<1>6. SameMeaning(role, specs[cmCache.from], specs[local])
  BY <1>5 DEF Means, SameMeaning
<1>7. SameMeaning(role, specs[cm.from], specs[local])
  BY <1>2, <1>3, <1>6 DEF NeverReturns
<1> QED BY <1>1, <1>5, <1>7 DEF Means, SameMeaning

(* A pod runs a template of the StatefulSet, which is never deleted.       *)
LEMMA PodHasTemplateNext ==
    ASSUME PodHasTemplate, [Next]_vars
    PROVE  PodHasTemplate'
<1>1. CASE UNCHANGED <<sts, pod>>
  BY <1>1 DEF PodHasTemplate
<1>2. CASE reconcileInstanceStatefulSet
  <2>1. pod' = pod /\ (sts' = sts \/ sts' = desired)
    BY <1>2 DEF reconcileInstanceStatefulSet
  <2>2. desired.exists
    BY DEF desired
  <2> QED BY <2>1, <2>2 DEF PodHasTemplate
<1>3. CASE RollOut \/ Restart
  BY <1>3 DEF PodHasTemplate, RollOut, Restart
<1> QED BY <1>1, <1>2, <1>3
        DEF Next, Handler, Environment, vars, Start, createOrUpdateConfigMap, WriteConfigMap,
            Crash, SyncSpec, SyncConfigMap, SyncStatefulSet, EditSpec

LEMMA ConfigNext ==
    ASSUME Spellings = {"underscore"}
    PROVE  ConfigInv /\ [Next]_vars => ConfigInv'
<1> SUFFICES ASSUME ConfigInv, [Next]_vars PROVE FilesGenerated' /\ ConfigMapFirst'
  BY TypeNext, PodHasTemplateNext DEF ConfigInv
<1> USE ConfigurationAssumption DEF ConfigInv
<1>1. /\ role \in {"primary", "secondary"} /\ specs \in Seq(Specs) /\ Len(specs) \in Nat
      /\ local \in 1 .. Len(specs) /\ specCache \in local .. Len(specs)
      /\ local \in Nat /\ specs[local] \in Specs
      /\ sts.from \in 0 .. local /\ pod.from \in 0 .. sts.from
  BY DEF TypeOK, StatefulSetOK
<1>2. local \in local .. Len(specs) /\ cm.exists => cm.from \in 1 .. local
  BY <1>1 DEF FilesGenerated, Generated
<1>3. CASE Start
  <2>1. /\ pc' = "configMap" /\ local' \in local .. Len(specs)
        /\ UNCHANGED <<role, specs, cm, cmCache, sts, pod>>
    BY <1>1, <1>3 DEF Start
  <2> QED BY <2>1, SameFiles, SameOrder
<1>4. CASE createOrUpdateConfigMap
  <2> DEFINE files == generateMariaDBConfig(role, mergeMySQLConfigs(specs[local]))
  <2>1. UNCHANGED <<role, specs, specCache, cmCache, sts, stsCache, local, found, pod>>
    BY <1>4 DEF createOrUpdateConfigMap
  <2>2. PICK file \in files :
          IF /\ cmCache.exists /\ cmCache.file = file
             /\ cmCache.script = generateInitScript(role, specs[local])
          THEN pc' = "statefulSet" /\ UNCHANGED <<cm, disturbances>>
          ELSE WriteConfigMap(file)
    BY <1>4 DEF createOrUpdateConfigMap
  <2>3. \/ pc' = "statefulSet" /\ cmCache.exists /\ cmCache.file = file /\ cm' = cm
        \/ pc' = "idle" /\ cm' = cm
        \/ cm' = configMapFor(file)
    BY <2>2 DEF WriteConfigMap
  <2>4. CASE pc' = "statefulSet" /\ cmCache.exists /\ cmCache.file = file /\ cm' = cm
    <3>1. FilesGenerated'
      BY <1>2, <1>1, <2>1, <2>4, SameFiles
    <3>2. NeverReturns' => NeverReturns
      BY <2>1 DEF NeverReturns
    <3>3. NeverReturns => cm.exists /\ Means(role, cm.file, specs[local])
      BY <2>2, <2>4, KeptMeans
    <3> QED BY <2>1, <2>4, <3>1, <3>2, <3>3 DEF ConfigMapFirst, Since, MeansSince
  <2>5. CASE pc' = "idle" /\ cm' = cm
    BY <1>1, <1>2, <2>1, <2>5, SameFiles, SameOrder
  <2>6. CASE cm' = configMapFor(file)
    <3>1. cm'.exists /\ cm'.file = file /\ cm'.from = local
      BY <2>6 DEF configMapFor
    <3>2. Means(role, file, specs[local])
      BY <1>1, <2>2, GeneratedMeans
    <3>3. Generated(cm)'
      BY <1>1, <2>1, <2>2, <3>1 DEF Generated
    <3>4. Generated(cmCache)' /\ (cmCache'.exists => cmCache'.from <= cm'.from)
      BY <1>1, <2>1, <3>1 DEF FilesGenerated, Generated
    <3>5. FilesGenerated'
      BY <3>1, <3>3, <3>4 DEF FilesGenerated
    <3>6. NeverReturns' => NeverReturns
      BY <2>1 DEF NeverReturns
    <3>7. local \in 1 .. local /\ sts.from <= local
      BY <1>1
    <3> QED BY <2>1, <3>1, <3>2, <3>5, <3>6, <3>7 DEF ConfigMapFirst, Since, MeansSince
  <2> QED BY <2>3, <2>4, <2>5, <2>6
<1>5. CASE reconcileInstanceStatefulSet
  <2>1. /\ pc = "statefulSet" /\ pc' = "idle"
        /\ UNCHANGED <<role, specs, cm, cmCache, local, pod>>
        /\ sts' = sts \/ sts' = desired
    BY <1>5 DEF reconcileInstanceStatefulSet
  <2>2. FilesGenerated'
    BY <1>1, <1>2, <2>1, SameFiles
  <2>3. CASE sts' = sts
    BY <1>1, <1>2, <2>1, <2>2, <2>3, SameOrder
  <2>4. CASE sts' = desired
    <3>1. sts'.from = local /\ local \in 1 .. local /\ local <= local
      BY <1>1, <2>4 DEF desired
    <3>2. NeverReturns' => NeverReturns
      BY <2>1 DEF NeverReturns
    <3> QED BY <2>1, <2>2, <3>1, <3>2 DEF ConfigMapFirst, Since, MeansSince
  <2> QED BY <2>1, <2>3, <2>4
<1>6. CASE Crash \/ SyncSpec \/ SyncStatefulSet
  <2>1. /\ UNCHANGED <<role, specs, cm, cmCache, sts, local, pod>>
        /\ pc' = "statefulSet" => pc = "statefulSet"
    BY <1>6 DEF Crash, SyncSpec, SyncStatefulSet
  <2> QED BY <1>1, <1>2, <2>1, SameFiles, SameOrder
<1>7. CASE SyncConfigMap
  <2>1. UNCHANGED <<role, specs, cm, sts, local, pod, pc>> /\ cmCache' = cm
    BY <1>7 DEF SyncConfigMap
  <2> QED BY <1>1, <1>2, <2>1, SameFiles, SameOrder
<1>8. CASE EditSpec
  <2>1. /\ UNCHANGED <<role, cm, cmCache, sts, pc, local, pod>>
        /\ Len(specs') = Len(specs) + 1
        /\ \A i \in 1 .. Len(specs) : specs'[i] = specs[i]
    BY <1>8, EditedSpecs DEF EditSpec
  <2>2. Generated(cm)' /\ Generated(cmCache)'
    BY <1>1, <2>1 DEF FilesGenerated, Generated
  <2>3. FilesGenerated'
    BY <2>1, <2>2 DEF FilesGenerated
  <2>4. NeverReturns' => NeverReturns
    <3>1. 1 .. Len(specs) \subseteq 1 .. Len(specs')
      BY <1>1, <2>1
    <3>2. \A i, k \in 1 .. Len(specs) : \A j \in i .. k : j \in 1 .. Len(specs)
      BY <1>1
    <3> QED BY <2>1, <3>1, <3>2 DEF NeverReturns
  <2>5. specs'[local] = specs[local]
    BY <1>1, <2>1
  <2>6. sts.exists /\ NeverReturns => Since(sts.from)'
    <3> SUFFICES ASSUME sts.exists, NeverReturns PROVE Since(sts.from)'
      OBVIOUS
    <3>1. PICK n \in 1 .. local : sts.from <= n /\ Means(role, cm.file, specs[n])
      BY DEF ConfigMapFirst, Since
    <3>2. specs'[n] = specs[n]
      BY <1>1, <2>1, <3>1
    <3> QED BY <2>1, <3>1, <3>2 DEF Since
  <2>7. pod.running /\ NeverReturns => MeansSince(pod.file, pod.from)'
    <3> SUFFICES ASSUME pod.running, NeverReturns PROVE MeansSince(pod.file, pod.from)'
      OBVIOUS
    <3>1. PICK n \in 1 .. Len(specs) : pod.from <= n /\ Means(role, pod.file, specs[n])
      BY DEF ConfigMapFirst, MeansSince
    <3>2. specs'[n] = specs[n] /\ n \in 1 .. Len(specs')
      BY <1>1, <2>1, <3>1
    <3> QED BY <2>1, <3>1, <3>2 DEF MeansSince
  <2> QED BY <2>1, <2>3, <2>4, <2>5, <2>6, <2>7 DEF ConfigMapFirst
<1>9. CASE RollOut \/ Restart
  <2>1. /\ UNCHANGED <<role, specs, cm, cmCache, sts, local, pc>> /\ pod' = template
        /\ sts.exists
    BY <1>9 DEF RollOut, Restart, PodHasTemplate
  <2>2. FilesGenerated'
    BY <1>1, <1>2, <2>1, SameFiles
  <2>3. NeverReturns' => NeverReturns
    BY <2>1 DEF NeverReturns
  <2>4. pod'.from = sts.from /\ pod'.file = cm.file
    BY <2>1 DEF template
  <2>5. NeverReturns => MeansSince(cm.file, sts.from)
    <3> SUFFICES ASSUME NeverReturns PROVE MeansSince(cm.file, sts.from)
      OBVIOUS
    <3>1. PICK n \in 1 .. local : sts.from <= n /\ Means(role, cm.file, specs[n])
      BY <2>1 DEF ConfigMapFirst, Since
    <3>2. n \in 1 .. Len(specs)
      BY <1>1, <3>1
    <3> QED BY <3>1, <3>2 DEF MeansSince
  <2> QED BY <2>1, <2>2, <2>3, <2>4, <2>5 DEF ConfigMapFirst, Since, MeansSince
<1>10. CASE UNCHANGED vars
  <2>1. UNCHANGED <<role, specs, cm, cmCache, sts, local, pod, pc>>
    BY <1>10 DEF vars
  <2> QED BY <1>1, <1>2, <2>1, SameFiles, SameOrder
<1> QED BY <1>3, <1>4, <1>5, <1>6, <1>7, <1>8, <1>9, <1>10 DEF Next, Handler, Environment

LEMMA ConfigInvariance ==
    ASSUME Spellings = {"underscore"} PROVE Spec => []ConfigInv
BY ConfigInit, ConfigNext, PTL DEF Spec

(* With one spelling, each ConfigMap gives every option the value of the   *)
(* spec it was written for, whatever the order in which Go iterates maps:  *)
(* for all options, values and specs.                                      *)
THEOREM FilePriority ==
    ASSUME Spellings = {"underscore"} PROVE Spec => []FileMeansSpec
<1>1. ConfigInv => FileMeansSpec
  <2> SUFFICES ASSUME ConfigInv, cm.exists PROVE Means(role, cm.file, specs[cm.from])
    BY DEF FileMeansSpec
  <2>1. /\ cm.from \in 1 .. local
        /\ cm.file \in generateMariaDBConfig(role, mergeMySQLConfigs(specs[cm.from]))
    BY DEF ConfigInv, FilesGenerated, Generated
  <2>2. role \in {"primary", "secondary"} /\ specs[cm.from] \in Specs
    BY <2>1, ConfigurationAssumption DEF ConfigInv, TypeOK
  <2> QED BY <2>1, <2>2, GeneratedMeans
<1> QED BY <1>1, ConfigInvariance, PTL

(* With one spelling, a server never runs a template with parameters older *)
(* than it, unless an edit brings old parameters back.                     *)
THEOREM RolloutOrdered ==
    ASSUME Spellings = {"underscore"} PROVE Spec => []OrderedRollout
<1>1. ConfigInv => OrderedRollout
  <2> SUFFICES ASSUME ConfigInv, NeverReturns, pod.running
               PROVE  \E n \in pod.from .. Len(specs) : Means(role, pod.file, specs[n])
    BY DEF OrderedRollout
  <2>1. PICK n \in 1 .. Len(specs) : pod.from <= n /\ Means(role, pod.file, specs[n])
    BY DEF ConfigInv, ConfigMapFirst, MeansSince
  <2>2. n \in pod.from .. Len(specs)
    BY <2>1, ConfigurationAssumption DEF ConfigInv, TypeOK, StatefulSetOK
  <2> QED BY <2>1, <2>2
<1> QED BY <1>1, ConfigInvariance, PTL
=============================================================================
