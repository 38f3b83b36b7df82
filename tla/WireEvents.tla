---------------------------- MODULE WireEvents ----------------------------
(* What becomes of an event between the caller and the wire, in both builds: event.rs,     *)
(* event_v1.rs, client/v0_capture.rs, client/v1_capture.rs, compression.rs, constants.rs   *)
(* and the helpers of client/common.rs. A property value is a record with its JSON type.   *)
EXTENDS Sequences, SequencesExt

Boolean(word) == [type |-> "bool", word |-> word]
Text(word) == [type |-> "string", word |-> word]
Number(word) == [type |-> "number", word |-> word]
True == Boolean("true")
GroupsObject(groups) == [type |-> "object", groups |-> groups]

\* What coerce_bool reads in a string, trimmed and in lower case.
TrueWords == {"true", "1"}
FalseWords == {"false", "0"}

----------------------------------------------------------------------------
\* event.rs: an event and what its caller may do with it. `id` stands for the name, the
\* distinct id and the uuid, which nothing here reads.
NoProps == [k \in {} |-> True]
With(props, key, value) == [k \in DOMAIN props \union {key} |-> IF k = key THEN value ELSE props[k]]
Without(props, keys) == [k \in DOMAIN props \ keys |-> props[k]]

New(id) == [id |-> id, props |-> NoProps, groups |-> {}, timestamp |-> "none", minimal |-> FALSE]
ProcessPerson == "$process_person_profile"
NewAnon(id) == [New(id) EXCEPT !.props = With(NoProps, ProcessPerson, Boolean("false"))]

InsertProp(event, key, value) == [event EXCEPT !.props = With(@, key, value)]
RemoveProp(event, key) == [event EXCEPT !.props = Without(@, {key})]
AddGroup(event, group) ==
  [event EXCEPT !.props = With(@, ProcessPerson, True), !.groups = @ \union {group}]

\* A time of the future is refused and changes nothing.
SetTimestamp(event, time) == IF time = "future" THEN event ELSE [event EXCEPT !.timestamp = time]
EnsureTimestamp(event, now) ==
  IF event.timestamp = "none" THEN [event EXCEPT !.timestamp = now] ELSE event

InsertPropDefault(event, key, value) ==
  IF key \in DOMAIN event.props THEN event ELSE InsertProp(event, key, value)
InsertPropIf(condition, event, key) ==
  IF condition THEN InsertPropDefault(event, key, True) ELSE event

\* mutant: a default replaces the caller's value.
OverridingDefaults(event, defaults) ==
  LET server == IF defaults.server THEN InsertProp(event, "$is_server", True) ELSE event IN
  IF defaults.geoip THEN InsertProp(server, "$geoip_disable", True) ELSE server

\* common.rs: the properties the SDK adds unless they are there.
ApplyCaptureDefaults(event, defaults) ==
  InsertPropIf(defaults.server, InsertPropIf(defaults.geoip, event, "$geoip_disable"), "$is_server")
ApplyRuntimeContext(event) ==
  InsertPropDefault(InsertPropDefault(event, "$os", Text("sdk")), "$os_version", Text("sdk"))

\* The event of a flag access, minimal or not, which then goes the way of any other.
FlagCalledEvent(id, minimal, groups, geoip, server) ==
  LET full == [New(id) EXCEPT !.minimal = minimal,
                              !.props = With(With(NoProps, "$feature_flag", Text("flag")),
                                             "$feature/flag", True)]
      grouped == IF groups = {} THEN full
                 ELSE [full EXCEPT !.groups = groups, !.props = With(@, ProcessPerson, True)]
  IN ApplyCaptureDefaults(grouped, [geoip |-> geoip, server |-> server])

MinimalProperties ==
  {"$feature_flag", "$feature_flag_response", "$feature_flag_has_experiment", "$feature_flag_id",
   "$feature_flag_version", "$feature_flag_reason", "$feature_flag_request_id",
   "$feature_flag_evaluated_at", "$feature_flag_error", "locally_evaluated", "$groups",
   ProcessPerson, "$geoip_disable", "$session_id", "$window_id", "$device_id", "$lib",
   "$lib_version", "$is_server", "$os", "$os_version"}
Minimized(props) == Without(props, DOMAIN props \ MinimalProperties)

----------------------------------------------------------------------------
\* The before_send hooks run in order; one that drops the event or panics ends it. What a
\* hook does is the caller's: these stand for the kinds.
Hooks == {"keep", "drop", "panic", "leak", "option", "mistype", "strip", "fresh"}
Dropped == New("dropped")
HookResult(hook, event) ==
  CASE hook = "keep" -> event
    [] hook \in {"drop", "panic"} -> Dropped
    [] hook = "leak" -> InsertProp(event, "plan", Text("secret"))
    [] hook = "option" -> InsertProp(event, "$cookieless_mode", Text("1"))
    [] hook = "mistype" -> InsertProp(event, "$cookieless_mode", Text("maybe"))
    [] hook = "strip" -> [event EXCEPT !.props = NoProps]
    [] OTHER -> New("fresh")
ApplyBeforeSendHooks(hooks, event) ==
  LET after[i \in 0..Len(hooks)] ==
        IF i = 0 THEN event
        ELSE IF after[i - 1] = Dropped THEN Dropped
        ELSE HookResult(hooks[i], after[i - 1])
  IN after[Len(hooks)]

\* The events no hook dropped, in their order.
Survivors(events) ==
  FlattenSeq([i \in DOMAIN events |-> IF events[i] = Dropped THEN <<>> ELSE <<events[i]>>])

----------------------------------------------------------------------------
\* V0: the SDK's metadata, unless the caller has it; the three version parts go together.
PrepareForV0(event) ==
  LET lib == InsertPropDefault(InsertPropDefault(event, "$lib", Text("sdk")),
                               "$lib_version", Text("sdk"))
      parts == {"$lib_version__major", "$lib_version__minor", "$lib_version__patch"}
      props == lib.props
      versioned == IF "$lib_version__major" \in DOMAIN props THEN props
                   ELSE [k \in DOMAIN props \union parts |->
                           IF k \in parts THEN Number("sdk") ELSE props[k]]
  IN [lib EXCEPT !.props = IF lib.groups = {} THEN versioned
                           ELSE With(versioned, "$groups", GroupsObject(lib.groups))]

PrepareEvent(event, defaults) ==
  PrepareForV0(ApplyRuntimeContext(ApplyCaptureDefaults(event, defaults)))

InnerEvent(event) ==
  [id |-> event.id, props |-> IF event.minimal THEN Minimized(event.props) ELSE event.props,
   timestamp |-> event.timestamp]

\* What survives before_send, in order; an empty batch is not sent.
BuildBatchPayload(events, defaults, hooks) ==
  LET prepared == [i \in DOMAIN events |->
                     ApplyBeforeSendHooks(hooks, PrepareEvent(events[i], defaults))]
      kept == Survivors(prepared)
  IN [i \in DOMAIN kept |-> InnerEvent(kept[i])]

----------------------------------------------------------------------------
\* V1: the properties that leave for the options, with the type the backend wants.
OptionsExtraction ==
  [cookieless_mode |-> [from |-> "$cookieless_mode", kind |-> "bool"],
   disable_skew_correction |-> [from |-> "$ignore_sent_at", kind |-> "bool"],
   product_tour_id |-> [from |-> "$product_tour_id", kind |-> "string"],
   process_person_profile |-> [from |-> ProcessPerson, kind |-> "bool"]]
Lifted == {OptionsExtraction[o].from : o \in DOMAIN OptionsExtraction}

Uninterpretable == [type |-> "none"]
CoerceBool(value) ==
  CASE value.type = "bool" -> value
    [] value.type = "string" /\ value.word \in TrueWords -> True
    [] value.type = "string" /\ value.word \in FalseWords -> Boolean("false")
    [] value.type = "number" -> Boolean(IF value.word = "0" THEN "false" ELSE "true")
    [] OTHER -> Uninterpretable
CoerceString(value) == IF value.type = "string" THEN value ELSE Uninterpretable
CoerceOption(kind, value) == IF kind = "bool" THEN CoerceBool(value) ELSE CoerceString(value)

TextIn(props, key) ==
  IF key \in DOMAIN props /\ props[key].type = "string" THEN props[key].word ELSE "none"

FromEventAt(event, now) ==
  LET props == IF event.groups = {} THEN event.props
               ELSE With(event.props, "$groups", GroupsObject(event.groups))
      from == [o \in DOMAIN OptionsExtraction |-> OptionsExtraction[o].from]
      coerced(o) == CoerceOption(OptionsExtraction[o].kind, props[from[o]])
      options == {o \in DOMAIN from : from[o] \in DOMAIN props /\ coerced(o) # Uninterpretable}
  IN [id |-> event.id,
      props |-> Without(props, Lifted \union {"$session_id", "$window_id"}),
      options |-> [o \in options |-> coerced(o)],
      session_id |-> TextIn(props, "$session_id"), window_id |-> TextIn(props, "$window_id"),
      timestamp |-> IF event.timestamp = "none" THEN now ELSE event.timestamp]

\* mutant: the runtime context is left to V0.
BareEventsAt(events, defaults, now) ==
  [i \in DOMAIN events |->
     LET full == ApplyCaptureDefaults(FromEventAt(events[i], now), defaults)
     IN IF events[i].minimal THEN [full EXCEPT !.props = Minimized(@)] ELSE full]

\* The client's defaults and the runtime context come again after before_send, and the
\* allowlist last.
BuildEventsAt(events, defaults, now) ==
  [i \in DOMAIN events |->
     LET v1 == FromEventAt(ApplyRuntimeContext(events[i]), now)
         full == ApplyCaptureDefaults(v1, defaults)
     IN IF events[i].minimal THEN [full EXCEPT !.props = Minimized(@)] ELSE full]

PrepareImmediate(events, defaults, hooks, now) ==
  LET sent == [i \in DOMAIN events |->
                 ApplyBeforeSendHooks(hooks, ApplyCaptureDefaults(events[i], defaults))]
  IN BuildEventsAt(Survivors(sent), defaults, now)

----------------------------------------------------------------------------
\* compression.rs: what a body ends up encoded with. A V0 build has gzip alone.
Algorithms == {"none", "gzip", "deflate", "br", "zstd"}
Codecs(build) == IF build = "v0" THEN {"gzip"} ELSE Algorithms \ {"none"}
Compress(build, algorithm, works) ==
  IF algorithm \in Codecs(build) /\ works THEN algorithm ELSE "none"

\* A request: how its body is encoded and what it says of that. V0's endpoint reads the
\* query, V1's the header.
EncodeBody(algorithm, works) ==
  LET token == Compress("v0", algorithm, works)
  IN [body |-> token, header |-> token, query |-> token]
MaybeCompress(algorithm, works) ==
  LET token == Compress("v1", algorithm, works)
  IN [body |-> token, header |-> token, query |-> "none"]
=============================================================================
