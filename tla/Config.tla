------------------------------- MODULE Config -------------------------------
(***************************************************************************)
(* config.py: from the parsed YAML document to the targets, the discovery  *)
(* sources and the settings of a cycle, or a refusal.  Pure.               *)
(*                                                                         *)
(* An entry (a target, a discovery source, the settings of a group, the    *)
(* defaults, a notifier) is a function on the keys it sets.  Texts are     *)
(* opaque, except where validation looks at them.  None stands for null    *)
(* and for what is not there, in `verify` for all that Python takes for    *)
(* false although it is not False (0, the empty text) as well.  A document *)
(* is a record of                                                          *)
(*   defaults, targets, groups, discover, notifiers   in their order       *)
(*   interval, concurrency, threshold, renotify   numbers, in seconds      *)
(***************************************************************************)
EXTENDS Models, SequencesExt

(* What a field of Target is when no entry sets it; these are also the keys *)
(* an entry may set.                                                        *)
DefaultTarget ==
    [host |-> None, file |-> None, port |-> 443, label |-> None,
     verify |-> TRUE, cafile |-> None, capath |-> None, starttls |-> None,
     days |-> 30, critical_days |-> 15,
     timeout |-> 5, connect_timeout |-> None, read_timeout |-> None, retries |-> 0,
     not_after_max |-> None, cab_forum |-> FALSE,
     require_sct |-> FALSE, require_must_staple |-> FALSE,
     require_revocation_check |-> FALSE, min_tls_version |-> None,
     profile |-> None, expect |-> {}]

TargetKeys      == DOMAIN DefaultTarget
HostOnlyKeys    == {"port", "starttls", "min_tls_version", "require_revocation_check"}

(* Faulty variant: the revocation check is taken to work without a chain. *)
NeedsVerifyKeysFiles == {"cafile", "capath"}

NeedsVerifyKeys == {"cafile", "capath", "require_revocation_check"}
SourceKeys      == {"domain", "discover_timeout"}
ValidProfiles   == {"lenient", "standard", "strict"}

(* {**defaults, **raw}: what an entry sets overrides its defaults. *)
Merged(defaults, raw) ==
    [k \in DOMAIN defaults \cup DOMAIN raw |->
        IF k \in DOMAIN raw THEN raw[k] ELSE defaults[k]]

Truthy(v)       == v \notin {None, FALSE}
Value(entry, k) == IF k \in DOMAIN entry THEN entry[k] ELSE None

(* _validate_policy_keys, on an entry merged with its defaults.  It asks    *)
(* whether `verify` is False: None passes, whatever else is set.            *)
ValidPolicy(merged) ==
    /\ Truthy(Value(merged, "cab_forum")) => Value(merged, "not_after_max") = None
    /\ Value(merged, "verify") = FALSE =>
          \A k \in NeedsVerifyKeys : ~Truthy(Value(merged, k))
    /\ Value(merged, "profile") \in ValidProfiles \cup {None}
    /\ Value(merged, "expect") # None => Value(merged, "expect") \subseteq AlertKinds

(* _build_target: `raw` overrides the defaults.  A file target may inherit  *)
(* host-only keys (they do not apply to it) but not set them itself.        *)
ValidTarget(raw, defaults) ==
    LET merged == Merged(defaults, raw)
    IN  /\ ("host" \in DOMAIN merged) # ("file" \in DOMAIN merged)
        /\ DOMAIN merged \subseteq TargetKeys
        /\ "file" \in DOMAIN merged => HostOnlyKeys \cap DOMAIN raw = {}
        /\ ValidPolicy(merged)

Target(raw, defaults) == Merged(DefaultTarget, Merged(defaults, raw))

(* Target.display_host and Target.name, the key of its state. *)
DisplayHost(t) == IF t.host # None THEN t.host ELSE t.file

NameOf(t) == IF t.file # None THEN <<t.file, t.label>> ELSE <<t.host, t.port, t.label>>

(* _build_discover_source: what is not about the query itself is kept for   *)
(* the targets it finds.                                                    *)
ValidSource(raw, defaults) ==
    LET merged == Merged(defaults, raw)
    IN  /\ "domain" \in DOMAIN raw
        /\ DOMAIN merged \ SourceKeys \subseteq TargetKeys \ {"host", "file"}
        /\ ValidPolicy(merged)
        /\ "discover_timeout" \in DOMAIN merged => merged.discover_timeout # None

Source(raw, defaults) ==
    LET merged == Merged(defaults, raw)
    IN  [domain   |-> merged["domain"],
         settings |-> [k \in DOMAIN merged \ SourceKeys |-> merged[k]]]

(* _build_group_targets: defaults < settings of the group < the entry. *)
GroupDefaults(group, doc) == Merged(doc.defaults, group.settings)

GroupTargets(group, doc) ==
    [i \in DOMAIN group.targets |-> Target(group.targets[i], GroupDefaults(group, doc))]

-----------------------------------------------------------------------------
(* load_config raises an exception unless all of this holds. *)
Valid(doc) ==
    /\ \A i \in DOMAIN doc.targets : ValidTarget(doc.targets[i], doc.defaults)
    /\ \A g \in DOMAIN doc.groups :
          /\ doc.groups[g].targets # <<>>
          /\ \A i \in DOMAIN doc.groups[g].targets :
                ValidTarget(doc.groups[g].targets[i], GroupDefaults(doc.groups[g], doc))
    /\ \A i \in DOMAIN doc.discover : ValidSource(doc.discover[i], doc.defaults)
    /\ ~(doc.targets = <<>> /\ doc.groups = <<>> /\ doc.discover = <<>>)
    /\ \A i \in DOMAIN doc.notifiers : "type" \in DOMAIN doc.notifiers[i]
    /\ doc.interval > 0
    /\ doc.concurrency >= 1

(* load_config: the Config of a valid document.  A renotify_after of 0 counts*)
(* as none (the text "0s", which does not, is left out).                    *)
Loaded(doc) ==
    [targets     |-> [i \in DOMAIN doc.targets |-> Target(doc.targets[i], doc.defaults)]
                     \o FlattenSeq([g \in DOMAIN doc.groups |->
                                        GroupTargets(doc.groups[g], doc)]),
     sources     |-> [i \in DOMAIN doc.discover |-> Source(doc.discover[i], doc.defaults)],
     concurrency |-> doc.concurrency,
     threshold   |-> IF doc.threshold >= 1 THEN doc.threshold ELSE 1,
     renotify    |-> IF doc.renotify = 0 THEN None ELSE doc.renotify]
=============================================================================
