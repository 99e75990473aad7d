-------------------------- MODULE AsteriskInventory --------------------------
(***************************************************************************)
(* What a deployment of Asterisk offers, and the pages that show it        *)
(* (model/asterisk.go, service/asterisk.go).  The state is written once,   *)
(* when the server starts, from its configuration (server.go), which lists *)
(* every capability, and every subsystem that has a backend, as healthy.   *)
(***************************************************************************)
EXTENDS Integers, FiniteSets

CONSTANT Technology    \* the names of channel drivers and endpoint stacks

Capability ==
  {"queues", "conferences", "recordings", "voicemail", "prompts", "music_on_hold", "fax", "xmpp",
   "presence", "dahdi", "browser_calling", "tls", "mail_delivery", "metrics", "scheduler",
   "domain_automation"}

Subsystem == {"fax_backend", "messaging_backend", "tts_engine", "music_on_hold"}

Deployment ==
  [drivers: SUBSET Technology, stacks: SUBSET Technology,
   available: SUBSET Capability, backends: SUBSET Subsystem]

Media == {"recordings", "voicemail", "prompts", "music_on_hold"}
Messaging == {"xmpp", "presence", "mail_delivery"}

HasAny(d, keys) == keys \cap d.available # {}
HasSubsystem(d, key) == key \in d.backends

Always == {"overview", "health", "capabilities", "modules", "apply"}
Gated ==
  {"media", "fax", "messaging", "conferences", "callcenter", "queues", "operator", "hardware",
   "browser"}

\* Mutant: the gates are forgotten.
VisibleUngated(d) == Always \cup Gated

\* The pages every page lists.
VisibleSurfaces(d) ==
  Always \cup {key \in Gated :
    \/ key = "media" /\ HasAny(d, Media)
    \/ key = "fax" /\ (HasAny(d, {"fax"}) \/ HasSubsystem(d, "fax_backend"))
    \/ key = "messaging" /\ (HasAny(d, Messaging) \/ HasSubsystem(d, "messaging_backend"))
    \/ key = "conferences" /\ HasAny(d, {"conferences"})
    \/ key \in {"callcenter", "queues"} /\ HasAny(d, {"queues"})
    \/ key = "operator" /\ d.drivers \cup d.stacks # {}
    \/ key = "hardware" /\ HasAny(d, {"dahdi"})
    \/ key = "browser" /\ HasAny(d, {"browser_calling"})}

-----------------------------------------------------------------------------
(***************************************************************************)
(* The items of a page: what they are about, and whether that is there.    *)
(***************************************************************************)

Fixed(keys) == {[key |-> k, ready |-> TRUE] : k \in keys}

\* The configuration lists capabilities that are not available, too.
CapabilityItems(d, keys) == {[key |-> k, ready |-> k \in d.available] : k \in keys}

SubsystemItems(d, keys) == {[key |-> k, ready |-> TRUE] : k \in keys \cap d.backends}

\* An empty inventory is one item that says so.
ListItems(prefix, values) ==
  IF values = {} THEN {[key |-> prefix, ready |-> FALSE]} ELSE Fixed(values)

\* Surface: the items of the page, or none when there is no such page.
Surface(d, key) ==
  CASE key = "overview" ->
         Fixed({"minimum_supported_version", "detected_version", "health", "visible_surface_count"})
    [] key = "health" -> Fixed({"health", "detection_status"}) \cup SubsystemItems(d, Subsystem)
    [] key = "capabilities" -> CapabilityItems(d, Capability)
    [] key = "modules" ->
         ListItems("channel_driver", d.drivers) \cup ListItems("endpoint_stack", d.stacks)
    [] key = "apply" -> Fixed({"preview", "validation", "diff", "post_apply_checks"})
    [] key = "media" /\ HasAny(d, Media) ->
         CapabilityItems(d, Media) \cup SubsystemItems(d, {"tts_engine", "music_on_hold"})
    [] key = "fax" /\ (HasAny(d, {"fax"}) \/ HasSubsystem(d, "fax_backend")) ->
         CapabilityItems(d, {"fax"}) \cup SubsystemItems(d, {"fax_backend"})
    [] key = "messaging" /\ (HasAny(d, Messaging) \/ HasSubsystem(d, "messaging_backend")) ->
         CapabilityItems(d, Messaging) \cup SubsystemItems(d, {"messaging_backend"})
    [] key = "conferences" /\ HasAny(d, {key}) -> CapabilityItems(d, {key})
    [] key = "queues" /\ HasAny(d, {key}) -> CapabilityItems(d, {key})
    [] key = "hardware" /\ HasAny(d, {"dahdi"}) -> CapabilityItems(d, {"dahdi"})
    [] key = "browser" /\ HasAny(d, {"browser_calling"}) ->
         CapabilityItems(d, {"browser_calling", "tls"})
    [] OTHER -> {}

=============================================================================
