------------------------ MODULE GaleraUpgradePolicy ------------------------
(***************************************************************************)
(* Whether a new image may follow the running one: CanUpgrade and the      *)
(* rules of an UpgradeConfig (galera_upgrade_config_control.go).           *)
(*                                                                         *)
(* The tag of an image is a version of three parts, each the sequence of   *)
(* its digits; a tag without a version is a sequence of three empty parts. *)
(* The configuration file my.cnf is the set of the options it sets.        *)
(***************************************************************************)
EXTENDS Naturals, Sequences

(* Go compares the parts as strings.                                       *)
StringLess(a, b) ==
    \E i \in 1..Len(b) :
        /\ \A j \in 1..(i - 1) : j <= Len(a) /\ a[j] = b[j]
        /\ i > Len(a) \/ a[i] < b[i]

(* Mutant: the comparison stops after the minor version.                   *)
MajorMinorOnly(current, next) ==
    \A k \in 1..2 : ~StringLess(next[k], current[k])

IsImageGreater(current, next) ==
    \A k \in 1..3 :
        StringLess(next[k], current[k]) => \E j \in 1..(k - 1) : StringLess(current[j], next[j])

(* A rule set targets a major version, a minor version or a patch.         *)
Targets(target, version) == \A k \in 1..Len(target) : target[k] = version[k]

(* checkRemovedRules: a rule that cannot be read or an option that is no   *)
(* longer supported is an error.  Changed defaults only cause an event,    *)
(* for which the rule has to be readable too.                              *)
RulesAllow(rules, readable, cnf) == rules \subseteq readable /\ rules \cap cnf = {}

(* config: the rule sets [target, removed], those rules that exist, and    *)
(* whether the UpgradeConfig, the config map and its my.cnf are found.     *)
ValidateConfig(config, version, cnf) ==
    /\ config.found
    /\ \A set \in config.sets :
          Targets(set.target, version) => RulesAllow(set.removed, config.rules, cnf)

(* The configuration is only looked at for an image that is greater.  An   *)
(* operator started without the name of an UpgradeConfig has none.         *)
CanUpgradeImage(current, next, config, cnf) ==
    IF current = next THEN "yes"
    ELSE IF ~IsImageGreater(current, next) THEN "no"
    ELSE IF ~config.named \/ ValidateConfig(config, next, cnf) THEN "yes"
    ELSE "error"
=============================================================================
