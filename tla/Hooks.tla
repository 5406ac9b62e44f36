------------------------------- MODULE Hooks -------------------------------
(***************************************************************************)
(* The hook client: HookClient of crates/core/src/hook.rs, whose           *)
(* configuration setServerConfig changes while calls are under way, and    *)
(* the flow report task of crates/server/src/main.rs, which sleeps for the *)
(* configured interval and is woken by configuration changes.              *)
(*                                                                         *)
(* The external service answers an attempt with allow or deny, or the      *)
(* attempt fails: no connection, a timeout, or a status other than 200.    *)
(***************************************************************************)
EXTENDS Integers, Sequences

CONSTANTS
  HookUrls,     \* the values of hook.on_publish; NoUrl disables it
  Retries,      \* the values of hook.retry
  Intervals,    \* the values of hook.flow_report_interval_sec asked for
  HookCalls,    \* sessions that call the hook
  Setters,      \* concurrent setServerConfig requests
  MaxSets,      \* settings made in a behaviour
  MaxCalls      \* hook calls made in a behaviour

ASSUME RetriesAssumption == Retries \subseteq Nat

NoUrl == "none"

VARIABLES
  hkConfig,     \* the client's config: [url, retry, interval]
  hkRevision,   \* config_revision
  hkRuntime,    \* the runtime config that getServerConfig reports
  hkSets,       \* per request: [pc, key, value, changed]
  hkSetCount,
  hkCalls,      \* per session: [pc, config, attempt, asked, answer]
  hkCallCount,
  hkFlow        \* the flow report task: [pc, interval, seen]

hkVars == <<hkConfig, hkRevision, hkRuntime, hkSets, hkSetCount, hkCalls, hkCallCount, hkFlow>>

Values == [url : HookUrls, retry : Retries, interval : Intervals]
IdleSet == [pc |-> "idle", key |-> "url", value |-> NoUrl, changed |-> FALSE]
IdleCall == [pc |-> "idle", config |-> 0, attempt |-> 0, asked |-> <<>>, answer |-> "none"]

HkInit ==
  /\ hkConfig \in {v \in Values : v.interval > 0}
  /\ hkRevision = 0
  /\ hkRuntime = hkConfig
  /\ hkSets = [s \in Setters |-> IdleSet]
  /\ hkSetCount = 0
  /\ hkCalls = [c \in HookCalls |-> IdleCall]
  /\ hkCallCount = 0
  /\ hkFlow = [pc |-> "loop", interval |-> 0, seen |-> 0]

-----------------------------------------------------------------------------
(* setServerConfig: set_config_value under the lock, the revision after    *)
(* it, and then the runtime config.                                        *)

\* A value that does not parse is rejected: an interval must be positive.
valid(k, v) == k = "interval" => v > 0

\* Mutant: only a change of the URL raises the revision.
is_changed_url(k, old, new) == k = "url" /\ old # new

is_changed(k, old, new) == old # new

set_config_value(s, k, v) ==
  /\ hkSets[s].pc = "idle"
  /\ hkSetCount < MaxSets
  /\ valid(k, v)
  /\ hkConfig' = [hkConfig EXCEPT ![k] = v]
  /\ hkSets' = [hkSets EXCEPT ![s] = [pc |-> "revise", key |-> k, value |-> v,
                                      changed |-> is_changed(k, hkConfig[k], v)]]
  /\ hkSetCount' = hkSetCount + 1
  /\ UNCHANGED <<hkRevision, hkRuntime, hkCalls, hkCallCount, hkFlow>>

send_revision(s) ==
  /\ hkSets[s].pc = "revise"
  /\ hkRevision' = IF hkSets[s].changed THEN hkRevision + 1 ELSE hkRevision
  /\ hkSets' = [hkSets EXCEPT ![s].pc = "runtime"]
  /\ UNCHANGED <<hkConfig, hkRuntime, hkSetCount, hkCalls, hkCallCount, hkFlow>>

set_runtime_config(s) ==
  /\ hkSets[s].pc = "runtime"
  /\ hkRuntime' = [hkRuntime EXCEPT ![hkSets[s].key] = hkSets[s].value]
  /\ hkSets' = [hkSets EXCEPT ![s] = IdleSet]
  /\ UNCHANGED <<hkConfig, hkRevision, hkSetCount, hkCalls, hkCallCount, hkFlow>>

-----------------------------------------------------------------------------
(* A hook call: on_publish and its like, call_hook and try_call. *)

\* The config is copied once; without a URL the operation is allowed.
on_hook(c) ==
  /\ hkCalls[c].pc \in {"idle", "over"}
  /\ hkCallCount < MaxCalls
  /\ hkCalls' = [hkCalls EXCEPT ![c] =
       [pc |-> IF hkConfig.url = NoUrl THEN "over" ELSE "attempt", config |-> hkConfig,
        attempt |-> 0, asked |-> <<>>, answer |-> "allow"]]
  /\ hkCallCount' = hkCallCount + 1
  /\ UNCHANGED <<hkConfig, hkRevision, hkRuntime, hkSets, hkSetCount, hkFlow>>

config_of(c) == hkCalls[c].config

\* One attempt; an answer that cannot be parsed counts as allow.
try_call(c, answer) ==
  /\ hkCalls[c].pc = "attempt"
  /\ LET call == hkCalls[c]
         asked == Append(call.asked, config_of(c).url)
         last == call.attempt >= config_of(c).retry
     IN hkCalls' = [hkCalls EXCEPT ![c] =
          [call EXCEPT !.asked = asked, !.attempt = @ + 1,
                       !.pc = IF answer # "error" \/ last THEN "over" ELSE "attempt",
                       !.answer = IF answer = "error" THEN "allow" ELSE answer]]
  /\ UNCHANGED <<hkConfig, hkRevision, hkRuntime, hkSets, hkSetCount, hkCallCount, hkFlow>>

-----------------------------------------------------------------------------
(* The flow report task. *)

\* The interval is read, and then the task waits for it or for a new revision.
flow_sleep ==
  /\ hkFlow.pc = "loop"
  /\ hkFlow' = [hkFlow EXCEPT !.pc = "sleep", !.interval = hkConfig.interval]
  /\ UNCHANGED <<hkConfig, hkRevision, hkRuntime, hkSets, hkSetCount, hkCalls, hkCallCount>>

flow_timer ==
  /\ hkFlow.pc = "sleep"
  /\ hkFlow' = [hkFlow EXCEPT !.pc = "report"]
  /\ UNCHANGED <<hkConfig, hkRevision, hkRuntime, hkSets, hkSetCount, hkCalls, hkCallCount>>

flow_changed ==
  /\ hkFlow.pc = "sleep"
  /\ hkFlow.seen # hkRevision
  /\ hkFlow' = [hkFlow EXCEPT !.pc = "loop", !.seen = hkRevision]
  /\ UNCHANGED <<hkConfig, hkRevision, hkRuntime, hkSets, hkSetCount, hkCalls, hkCallCount>>

\* on_flow_report takes its time, with retries; the configuration may change.
flow_reported ==
  /\ hkFlow.pc = "report"
  /\ hkFlow' = [hkFlow EXCEPT !.pc = "loop"]
  /\ UNCHANGED <<hkConfig, hkRevision, hkRuntime, hkSets, hkSetCount, hkCalls, hkCallCount>>

HkNext ==
  \/ \E s \in Setters :
       \/ \E v \in HookUrls : set_config_value(s, "url", v)
       \/ \E v \in Retries : set_config_value(s, "retry", v)
       \/ \E v \in Intervals : set_config_value(s, "interval", v)
       \/ send_revision(s)
       \/ set_runtime_config(s)
  \/ \E c \in HookCalls : on_hook(c) \/ \E a \in {"allow", "deny", "error"} : try_call(c, a)
  \/ flow_sleep \/ flow_timer \/ flow_changed \/ flow_reported

-----------------------------------------------------------------------------
(* Properties. *)

\* A call is decided under the configuration it started with, however often that
\* changes meanwhile: every attempt asks the same URL, there is one more than
\* retries at most, and it denies only at its end, when a service is configured
\* that could have said so (call_hook).
HookOneConfig ==
  \A c \in HookCalls :
    LET call == hkCalls[c]
    IN call.pc # "idle" =>
         /\ Len(call.asked) <= call.config.retry + 1
         /\ \A i \in 1 .. Len(call.asked) : call.asked[i] = call.config.url
         /\ call.answer = "deny" => call.pc = "over" /\ call.config.url # NoUrl

\* The flow report task never sleeps on an interval that was replaced: config
\* revisions wake the timer immediately, including interval changes
\* (main.rs:616), also when the change came while it read the old one.
HookTimerFresh ==
  hkFlow.pc = "sleep" /\ hkFlow.interval # hkConfig.interval =>
    \/ hkFlow.seen # hkRevision
    \/ \E s \in Setters : hkSets[s].pc = "revise"

\* A change of the configuration is neither half in force for a call nor missed by
\* the flow report.
HookConsistent == HookOneConfig /\ HookTimerFresh
=============================================================================
