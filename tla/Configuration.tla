---------------------------- MODULE Configuration ----------------------------
(***************************************************************************)
(* How an edit of the configuration of one instance reaches its server:    *)
(* reconcileInstanceStatefulSet for one role (statefulset.go), from the    *)
(* merge of commonConfig and config to the ConfigMap, the StatefulSet and  *)
(* the pod, with informers that lag, failed requests and crashes.          *)
(*                                                                         *)
(*  - A key of configurationParameters is an option and the way it is      *)
(*    spelled: MariaDB takes "-" and "_" in a name for the same.           *)
(*  - mariadb.cnf is the sequence of its lines; init.sql is the account    *)
(*    it creates.  A server executes it once, on an empty data directory.  *)
(*  - Replicas, resources and volumes are as wanted, deletions and         *)
(*    tampering are those of Provisioning.                                 *)
(*  - from, in an object, is the version of the spec it was written for:   *)
(*    the program has no such field, only the properties read it.          *)
(***************************************************************************)
EXTENDS Integers, Sequences, FiniteSets

CONSTANTS
    Edited,            \* options that users set
    Values,            \* values they give them
    Spellings,         \* ways to write the name of an option
    Images, Secrets,   \* images and secrets of the specs
    Users,             \* replication users of the specs
    MaxEdits,          \* bound on the edits of the spec
    MaxDisturbances    \* bound on failed requests and crashes

ASSUME ConfigurationAssumption ==
    /\ Edited # {} /\ IsFiniteSet(Edited) /\ Values # {}
    /\ "underscore" \in Spellings /\ IsFiniteSet(Spellings)
    /\ "unset" \notin Images /\ "unset" \notin Secrets /\ Images # {} /\ Secrets # {}
    /\ "unset" \notin Users /\ MaxEdits \in Nat /\ MaxDisturbances \in Nat

VARIABLES
    role,              \* of the instance
    specs,             \* the versions of the spec; the last one is stored
    specCache,         \* the version the informer has
    cm, cmCache,       \* the ConfigMap, stored and cached
    sts, stsCache,     \* the StatefulSet, stored and cached
    pc,                \* next request of the handler
    local,             \* version of the spec the handler works on
    found,             \* the StatefulSet it has read
    pod,               \* what the server was started with
    disturbances

vars == <<role, specs, specCache, cm, cmCache, sts, stsCache, pc, local, found,
          pod, disturbances>>

-----------------------------------------------------------------------------
(* The spec: two partial configurations and the replication user; a Go     *)
(* string "" or nil pointer is "unset".                                   *)

Keys == Edited \X Spellings
Parameters == UNION {[K -> Values] : K \in SUBSET Keys}
Configs ==
    [params : Parameters, image : Images \cup {"unset"}, secret : Secrets \cup {"unset"}]
Specs == [common : Configs, specific : Configs, user : Users \cup {"unset"}]

NoParameters == [k \in {} |-> "unset"]
NoConfig == [params |-> NoParameters, image |-> "unset", secret |-> "unset"]
FirstSpec == [common |-> NoConfig, specific |-> NoConfig, user |-> "unset"]

(* Mutant: the common configuration is copied over the specific one.       *)
mergeMySQLConfigsCommonLast(spec) ==
    LET common == spec.common.params  specific == spec.specific.params
    IN  [k \in DOMAIN common \cup DOMAIN specific |->
            IF k \in DOMAIN common THEN common[k] ELSE specific[k]]

mergeMySQLConfigs(spec) ==
    LET common == spec.common.params  specific == spec.specific.params
    IN  [k \in DOMAIN common \cup DOMAIN specific |->
            IF k \in DOMAIN specific THEN specific[k] ELSE common[k]]

firstSet(specific, common, default) ==
    IF specific # "unset" THEN specific ELSE IF common # "unset" THEN common ELSE default

(* The template of the pod; the field version is not looked at.            *)
(* Mutant: the image has no default.                                       *)
imageOfGiven(spec) == firstSet(spec.specific.image, spec.common.image, "unset")

imageOf(spec) == firstSet(spec.specific.image, spec.common.image, "mariadb:10.5")
secretOf(spec) == firstSet(spec.specific.secret, spec.common.secret, "unset")

-----------------------------------------------------------------------------
(* The file: what the role fixes, defaults for what is not given, and the  *)
(* parameters in the order in which the map happens to be iterated.        *)

Line(option, value) == [option |-> option, spelling |-> "underscore", value |-> value]

fixedLines(r) ==
    IF r = "primary" THEN << Line("log_bin", "mysql-bin"), Line("server_id", "1") >>
    ELSE << Line("server_id", "2"), Line("read_only", "ON") >>

defaultValue(r, option) ==
    CASE option = "innodb_flush_log_at_trx_commit" -> IF r = "primary" THEN "1" ELSE "2"
      [] option = "sync_binlog" -> IF r = "primary" THEN "1" ELSE "0"

defaultLine(r, option, params) ==
    IF <<option, "underscore">> \in DOMAIN params
    THEN << >> ELSE << Line(option, defaultValue(r, option)) >>

roleLines(r, params) ==
    fixedLines(r) \o defaultLine(r, "innodb_flush_log_at_trx_commit", params)
                  \o defaultLine(r, "sync_binlog", params)

(* The orders in which Go may iterate a set of keys.                       *)
Iterations(K) ==
    {order \in [1 .. Cardinality(K) -> K] :
        \A k \in K : \E i \in 1 .. Cardinality(K) : order[i] = k}

givenLines(params) ==
    {[i \in DOMAIN order |->
        [option |-> order[i][1], spelling |-> order[i][2], value |-> params[order[i]]]] :
     order \in Iterations(DOMAIN params)}

(* Mutant: the lines of the role come last.                                *)
generateMariaDBConfigRoleLast(r, params) ==
    {lines \o roleLines(r, params) : lines \in givenLines(params)}

generateMariaDBConfig(r, params) ==
    {roleLines(r, params) \o lines : lines \in givenLines(params)}

(* init.sql: the primary's creates the replication user.                   *)
generateInitScript(r, spec) ==
    IF r # "primary" THEN "no account"
    ELSE IF spec.user # "unset" THEN spec.user ELSE "replicator"

(* What MariaDB makes of a file: of the lines for one option the last      *)
(* counts.                                                                 *)
linesFor(file, option) == {i \in DOMAIN file : file[i].option = option}

effective(file, option) ==
    LET last == CHOOSE i \in linesFor(file, option) :
                    \A j \in linesFor(file, option) : j <= i
    IN  IF linesFor(file, option) = {} THEN "unset" ELSE file[last].value

-----------------------------------------------------------------------------
NoConfigMap == [exists |-> FALSE, file |-> << >>, script |-> "unset", from |-> 0]
NoStatefulSet == [exists |-> FALSE, image |-> "unset", secret |-> "unset", from |-> 0]
NoPod == [running |-> FALSE, image |-> "unset", secret |-> "unset", from |-> 0, file |-> << >>]

Init ==
    /\ role \in {"primary", "secondary"}
    /\ specs = << FirstSpec >> /\ specCache = 1
    /\ cm = NoConfigMap /\ cmCache = NoConfigMap
    /\ sts = NoStatefulSet /\ stsCache = NoStatefulSet
    /\ pc = "idle" /\ local = 1 /\ found = NoStatefulSet
    /\ pod = NoPod /\ disturbances = 0

ConfigMapOK(c, last) == c.exists \in BOOLEAN /\ c.from \in 0 .. last
StatefulSetOK(s, last) ==
    /\ s.exists \in BOOLEAN /\ s.from \in 0 .. last
    /\ s.exists => s.image \in Images \cup {"mariadb:10.5"}

TypeOK ==
    /\ role \in {"primary", "secondary"}
    /\ specs \in Seq(Specs) /\ Len(specs) \in 1 .. MaxEdits + 1
    /\ specCache \in 1 .. Len(specs) /\ local \in 1 .. specCache
    /\ ConfigMapOK(cm, local) /\ ConfigMapOK(cmCache, local)
    /\ StatefulSetOK(sts, local) /\ StatefulSetOK(stsCache, local)
    /\ StatefulSetOK(found, local)
    /\ pc \in {"idle", "configMap", "statefulSet"}
    /\ pod.running \in BOOLEAN /\ pod.from \in 0 .. sts.from
    /\ disturbances \in 0 .. MaxDisturbances

Disturb ==
    /\ disturbances < MaxDisturbances
    /\ disturbances' = disturbances + 1

(* Reconcile reads the MariaDBHA object, then the StatefulSet.             *)
Start ==
    /\ pc = "idle" /\ pc' = "configMap"
    /\ local' = specCache /\ found' = stsCache
    /\ UNCHANGED <<role, specs, specCache, cm, cmCache, sts, stsCache, pod, disturbances>>

(* A create finds nothing stored, an update the version of the copy; the   *)
(* request may fail, or be executed and its answer lost.                   *)
CanWrite(stored, copy) == IF copy.exists THEN stored = copy ELSE ~stored.exists

configMapFor(file) ==
    [exists |-> TRUE, file |-> file, from |-> local,
     script |-> generateInitScript(role, specs[local])]

(* Mutant: an error is only logged and the StatefulSet is written.         *)
WriteConfigMapErrorLogged(file) ==
    \/ CanWrite(cm, cmCache) /\ cm' = configMapFor(file)
       /\ pc' = "statefulSet" /\ UNCHANGED disturbances
    \/ ~CanWrite(cm, cmCache) /\ UNCHANGED <<cm, disturbances>> /\ pc' = "statefulSet"
    \/ Disturb /\ UNCHANGED cm /\ pc' = "statefulSet"

WriteConfigMap(file) ==
    \/ CanWrite(cm, cmCache) /\ cm' = configMapFor(file)
       /\ \/ pc' = "statefulSet" /\ UNCHANGED disturbances
          \/ pc' = "idle" /\ Disturb
    \/ ~CanWrite(cm, cmCache) /\ UNCHANGED <<cm, disturbances>> /\ pc' = "idle"
    \/ Disturb /\ UNCHANGED cm /\ pc' = "idle"

createOrUpdateConfigMap ==
    /\ pc = "configMap"
    /\ \E file \in generateMariaDBConfig(role, mergeMySQLConfigs(specs[local])) :
         IF /\ cmCache.exists /\ cmCache.file = file
            /\ cmCache.script = generateInitScript(role, specs[local])
         THEN pc' = "statefulSet" /\ UNCHANGED <<cm, disturbances>>
         ELSE WriteConfigMap(file)
    /\ UNCHANGED <<role, specs, specCache, cmCache, sts, stsCache, local, found, pod>>

desired == [exists |-> TRUE, image |-> imageOf(specs[local]),
            secret |-> secretOf(specs[local]), from |-> local]

(* Mutant: the image is not compared.                                      *)
needsUpdateReplicas(current, wanted) == FALSE

(* Of what is edited here needsUpdate compares the image.                  *)
needsUpdate(current, wanted) == current.image # wanted.image

(* A write is followed by a return and a new call, and so is an error.     *)
reconcileInstanceStatefulSet ==
    /\ pc = "statefulSet" /\ pc' = "idle"
    /\ IF found.exists /\ ~needsUpdate(found, desired)
       THEN UNCHANGED <<sts, disturbances>>
       ELSE \/ CanWrite(sts, found) /\ sts' = desired
               /\ (UNCHANGED disturbances \/ Disturb)
            \/ ~CanWrite(sts, found) /\ UNCHANGED <<sts, disturbances>>
            \/ Disturb /\ UNCHANGED sts
    /\ UNCHANGED <<role, specs, specCache, cm, cmCache, stsCache, local, found, pod>>

Handler == Start \/ createOrUpdateConfigMap \/ reconcileInstanceStatefulSet

-----------------------------------------------------------------------------
(* The environment.                                                        *)

Crash ==
    /\ pc # "idle" /\ pc' = "idle" /\ Disturb
    /\ UNCHANGED <<role, specs, specCache, cm, cmCache, sts, stsCache, local, found, pod>>

SyncSpec ==
    /\ specCache < Len(specs) /\ specCache' = specCache + 1
    /\ UNCHANGED <<role, specs, cm, cmCache, sts, stsCache, pc, local, found, pod,
                   disturbances>>

SyncConfigMap ==
    /\ cmCache # cm /\ cmCache' = cm
    /\ UNCHANGED <<role, specs, specCache, cm, sts, stsCache, pc, local, found, pod,
                   disturbances>>

SyncStatefulSet ==
    /\ stsCache # sts /\ stsCache' = sts
    /\ UNCHANGED <<role, specs, specCache, cm, cmCache, sts, pc, local, found, pod,
                   disturbances>>

(* The configurations that differ from config in one field.                *)
SetParameter(config, key, value) ==
    [config EXCEPT !.params =
        [k \in DOMAIN config.params \cup {key} |->
            IF k = key THEN value ELSE config.params[k]]]
DropParameter(config, key) ==
    [config EXCEPT !.params = [k \in DOMAIN config.params \ {key} |-> config.params[k]]]

Edits(config) ==
    {SetParameter(config, k, v) : k \in Keys, v \in Values}
    \cup {DropParameter(config, k) : k \in DOMAIN config.params}
    \cup {[config EXCEPT !.image = i] : i \in Images \cup {"unset"}}
    \cup {[config EXCEPT !.secret = s] : s \in Secrets \cup {"unset"}}

EditSpec ==
    /\ Len(specs) <= MaxEdits
    /\ \/ \E scope \in {"common", "specific"} :
            \E config \in Edits(specs[Len(specs)][scope]) :
              /\ config # specs[Len(specs)][scope]
              /\ specs' = Append(specs, [specs[Len(specs)] EXCEPT ![scope] = config])
       \/ \E user \in (Users \cup {"unset"}) \ {specs[Len(specs)].user} :
              specs' = Append(specs, [specs[Len(specs)] EXCEPT !.user = user])
    /\ UNCHANGED <<role, specCache, cm, cmCache, sts, stsCache, pc, local, found, pod,
                   disturbances>>

template == [running |-> TRUE, image |-> sts.image, secret |-> sts.secret,
             from |-> sts.from, file |-> cm.file]

(* The controller of the StatefulSet replaces a pod of another template;   *)
(* the pod waits for its ConfigMap and mounts that of the moment.          *)
RollOut ==
    /\ sts.exists /\ cm.exists
    /\ ~pod.running \/ pod.image # sts.image \/ pod.secret # sts.secret
    /\ pod' = template
    /\ UNCHANGED <<role, specs, specCache, cm, cmCache, sts, stsCache, pc, local, found,
                   disturbances>>

(* A server that stops for any reason is started again, with the file as   *)
(* it is now; nothing in the operator asks for that.                       *)
Restart ==
    /\ pod.running /\ pod' = template /\ pod' # pod
    /\ UNCHANGED <<role, specs, specCache, cm, cmCache, sts, stsCache, pc, local, found,
                   disturbances>>

Environment ==
    \/ Crash \/ SyncSpec \/ SyncConfigMap \/ SyncStatefulSet \/ EditSpec
    \/ RollOut \/ Restart

Next == Handler \/ Environment

Spec == Init /\ [][Next]_vars

(* The work queue calls Reconcile again, informers and the controller of   *)
(* the StatefulSet catch up; no server has to restart by itself.           *)
Fairness ==
    /\ WF_vars(Handler) /\ WF_vars(RollOut)
    /\ WF_vars(SyncSpec) /\ WF_vars(SyncConfigMap) /\ WF_vars(SyncStatefulSet)

FairSpec == Spec /\ Fairness

-----------------------------------------------------------------------------
(* What the configuration guarantees.                                      *)

Options == Edited \cup {"log_bin", "server_id", "read_only", "sync_binlog",
                        "innodb_flush_log_at_trx_commit"}

roleValue(r, option) ==
    CASE option = "log_bin" -> IF r = "primary" THEN "mysql-bin" ELSE "unset"
      [] option = "server_id" -> IF r = "primary" THEN "1" ELSE "2"
      [] option = "read_only" -> IF r = "primary" THEN "unset" ELSE "ON"
      [] option = "sync_binlog" -> IF r = "primary" THEN "1" ELSE "0"
      [] option = "innodb_flush_log_at_trx_commit" -> IF r = "primary" THEN "1" ELSE "2"
      [] OTHER -> "unset"

(* What a spec means: the instance's own value, else the common one, else  *)
(* that of the role.                                                       *)
meant(r, s, option) ==
    LET key == <<option, "underscore">>
    IN  IF key \in DOMAIN s.specific.params THEN s.specific.params[key]
        ELSE IF key \in DOMAIN s.common.params THEN s.common.params[key]
        ELSE roleValue(r, option)

Means(r, file, s) ==
    \A option \in Options : effective(file, option) = meant(r, s, option)

(* Whatever the iteration order of the maps, the repeated lines and the    *)
(* edits in between, the ConfigMap gives each option the value of the      *)
(* version of the spec it was written for, with config over commonConfig   *)
(* over the role (mariadbha_types.go:60).                                  *)
FileMeansSpec == cm.exists => Means(role, cm.file, specs[cm.from])

SameMeaning(r, s, t) ==
    \A option \in Options : meant(r, s, option) = meant(r, t, option)

(* No edit brings parameters back that an earlier one had replaced.        *)
NeverReturns ==
    \A i, k \in 1 .. Len(specs) : \A j \in i .. k :
        SameMeaning(role, specs[i], specs[k]) => SameMeaning(role, specs[j], specs[k])

(* A server started from the template of an edit runs with the parameters  *)
(* of that edit or a later one: the ConfigMap is always there first,       *)
(* whatever failed or conflicted.                                          *)
OrderedRollout ==
    NeverReturns /\ pod.running =>
        \E n \in pod.from .. Len(specs) : Means(role, pod.file, specs[n])

(* After the last edit the ConfigMap means the last spec and the image     *)
(* reaches the server; its parameters wait for the next start.             *)
ConfigurationConverges ==
    <>[](/\ Means(role, cm.file, specs[Len(specs)])
         /\ cm.script = generateInitScript(role, specs[Len(specs)])
         /\ sts.image = imageOf(specs[Len(specs)])
         /\ pod.running /\ pod.image = sts.image)
=============================================================================
