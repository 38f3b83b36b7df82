--------------------------- MODULE EventPipeline ---------------------------
(* An event from the caller's hands to the body of a request: built by the caller, as a    *)
(* $feature_flag_called event, or by the SDK from an error or a panic; then captured, by   *)
(* way of the queue or immediately; then built for the wire of the client's build.         *)
EXTENDS ExceptionReport, FiniteSets

CONSTANTS
  Keys, Values,     \* what the caller sets
  GroupNames,
  MaxOps,           \* operations of the caller on one event
  Setups,           \* client configurations: [build, geoip, server, hooks, algorithm, works]
  Stacks,           \* stacks an error may be captured on
  PanicStacks,      \* stacks a panic may have
  Policies,         \* error tracking options: [stacktrace, include, exclude]
  Contexts,         \* CaptureExceptionOptions: [person, props, groups, fingerprint, level]
  Depths            \* how many errors are behind an error

ASSUME PipelineAssumption ==
  /\ MaxOps \in Nat
  /\ \A s \in Setups : /\ s.build \in {"v0", "v1"} /\ s.geoip \in BOOLEAN /\ s.server \in BOOLEAN
                       /\ s.hooks \in Seq(Hooks)
                       /\ s.algorithm \in Algorithms /\ s.works \in BOOLEAN
  /\ Depths \subseteq Nat

\* The SDK's own functions at the capture site.
CaptureEntries ==
  {"capture_frames_current_first", "capture_raw_application_frames", "capture_raw_panic_frames"}

\* What a stack at a capture site looks like: nothing of the app runs inside the SDK's capture
\* functions, so the frames whose entry is one of them are of this kind of capture and within
\* the scan of the prefix; the panic runtime's dispatcher does not bear the name of a capture
\* function.
ASSUME StacksAssumption ==
  /\ \A stack \in Stacks \union PanicStacks :
       /\ stack \in Seq({stack[i] : i \in DOMAIN stack})
       /\ \A i \in DOMAIN stack :
            LET layers == stack[i].layers IN
            stack[i].addr \in Nat /\ layers \in Seq({layers[j] : j \in DOMAIN layers})
  /\ \A stack \in Stacks :
       LET frames == CaptureFramesCurrentFirst(stack) IN
       \A i \in DOMAIN frames : frames[i].entry \in CaptureEntries =>
         i <= PrefixScan /\ frames[i].entry # "capture_raw_panic_frames"
  /\ \A stack \in PanicStacks :
       LET frames == CaptureFramesCurrentFirst(stack) IN
       \A i \in DOMAIN frames :
         /\ frames[i].entry \in CaptureEntries =>
              i <= PrefixScan /\ frames[i].entry # "capture_raw_application_frames"
         /\ ~(IsPanicDispatcherFrame(frames[i].name) /\ IsInternalCaptureFrame(frames[i].name))

VARIABLES
  setup,   \* the client's configuration
  stage,   \* "none", "open", "captured", "sent"
  event,   \* the event
  report,  \* what an exception event was made from
  ops,     \* operations of the caller so far
  wire,    \* the batch that was built: its events and the request that carries it
  via      \* "queue" or "immediate"

vars == <<setup, stage, event, report, ops, wire, via>>

NoReport == [of |-> "none"]
NoWire == [events |-> <<>>, request |-> [body |-> "none", header |-> "none", query |-> "none"]]

Init ==
  /\ setup \in Setups
  /\ stage = "none" /\ event = New("unset") /\ report = NoReport /\ ops = 0
  /\ wire = NoWire /\ via = "none"

Defaults == [geoip |-> setup.geoip, server |-> setup.server]

----------------------------------------------------------------------------
Opens ==
  /\ stage = "none" /\ stage' = "open"
  /\ UNCHANGED <<setup, ops, wire, via>>

NewEvent ==
  /\ Opens /\ report' = NoReport
  /\ event' \in {New("event"), NewAnon("event")}

\* The flag access may say otherwise than the client about geoip.
RecordFlagCalled ==
  /\ Opens /\ report' = NoReport
  /\ \E minimal, geoip \in BOOLEAN, groups \in SUBSET GroupNames :
       event' = FlagCalledEvent("called", minimal, groups, geoip, setup.server)

CaptureException ==
  /\ Opens
  /\ \E sources \in Depths, stack \in Stacks, options \in Policies, context \in Contexts :
       /\ event' = BuildExceptionEvent("exception", sources, stack, context, options)
       /\ report' = [of |-> "error", stack |-> stack, options |-> options, sources |-> sources,
                     context |-> context]

\* What a panic has for CaptureExceptionOptions.
PanicContext ==
  [person |-> FALSE, props |-> NoProps, groups |-> {}, fingerprint |-> "none", level |-> "fatal"]

CapturePanic ==
  /\ Opens
  /\ \E stack \in PanicStacks, options \in Policies, located \in BOOLEAN :
       /\ event' = BuildPanicEvent("exception", located, stack, options)
       /\ report' = [of |-> "panic", stack |-> stack, options |-> options, sources |-> 0,
                     context |-> PanicContext]

\* The caller works on an event of its own; the SDK's events go straight on.
Changes(changed) ==
  /\ stage = "open" /\ event.id = "event" /\ ops < MaxOps
  /\ event' = changed /\ ops' = ops + 1
  /\ UNCHANGED <<setup, stage, report, wire, via>>

CallerInserts == \E key \in Keys, value \in Values : Changes(InsertProp(event, key, value))
CallerRemoves == \E key \in DOMAIN event.props : Changes(RemoveProp(event, key))
CallerGroups == \E group \in GroupNames : Changes(AddGroup(event, group))
CallerDates == \E time \in {"past", "future"} : Changes(SetTimestamp(event, time))

\* capture and capture_batch stamp the time of the call; the immediate calls do not. A
\* historical batch differs in its envelope only.
Capture ==
  /\ stage = "open" /\ stage' = "captured"
  /\ \/ /\ via' = "queue" /\ event' = EnsureTimestamp(event, "enqueued")
     \/ /\ event.id = "event"
        /\ via' = "immediate" /\ event' = event
  /\ UNCHANGED <<setup, report, ops, wire>>

WireEventsOf(build, captured) ==
  IF build = "v0" THEN BuildBatchPayload(<<captured>>, Defaults, setup.hooks)
  ELSE PrepareImmediate(<<captured>>, Defaults, setup.hooks, "built")

\* The worker or the immediate call builds the batch; one that before_send emptied is not
\* sent.
Build ==
  /\ stage = "captured" /\ stage' = "sent"
  /\ wire' = [events |-> WireEventsOf(setup.build, event),
              request |-> IF setup.build = "v0" THEN EncodeBody(setup.algorithm, setup.works)
                          ELSE MaybeCompress(setup.algorithm, setup.works)]
  /\ UNCHANGED <<setup, event, report, ops, via>>

Finished == stage = "sent" /\ UNCHANGED vars

Next ==
  \/ NewEvent \/ RecordFlagCalled \/ CaptureException \/ CapturePanic
  \/ CallerInserts \/ CallerRemoves \/ CallerGroups \/ CallerDates
  \/ Capture \/ Build \/ Finished

Spec == Init /\ [][Next]_vars

----------------------------------------------------------------------------
Harmless == \A i \in DOMAIN setup.hooks : setup.hooks[i] = "keep"
Discarded == \E i \in DOMAIN setup.hooks : setup.hooks[i] \in {"drop", "panic"}
Renewed == \E i \in DOMAIN setup.hooks : setup.hooks[i] = "fresh"
Has(props, key, value) == key \in DOMAIN props /\ props[key] = value

\* The caller's properties that the wire format has no other place or use for.
Carried(key) ==
  /\ key = "$groups" => event.groups = {}
  /\ setup.build = "v1" => key \notin Lifted \union {"$session_id", "$window_id"}
  /\ (setup.build = "v0" /\ key \in {"$lib_version__minor", "$lib_version__patch"}) =>
       "$lib_version__major" \in DOMAIN event.props
  /\ event.minimal => key \in MinimalProperties

\* What the SDK adds never replaces what the caller set, except that V0 sets the three parts
\* of its version together: the minor and the patch, too, if the major is not the caller's.
CallerWins(sent) ==
  Harmless => \A key \in DOMAIN event.props : Carried(key) => Has(sent.props, key, event.props[key])

\* A V1 event's options have the type the backend wants, and none of the properties it
\* lifts is left behind, whatever a hook put there: a mistyped one has the batch refused.
OptionsAccepted(sent) ==
  setup.build = "v1" =>
    /\ \A o \in DOMAIN sent.options : sent.options[o].type = OptionsExtraction[o].kind
    /\ DOMAIN sent.props \cap (Lifted \union {"$session_id", "$window_id"}) = {}

\* Nothing outside the allowlist is in the properties of a minimal event, whatever a hook
\* added; a hook that returns an event of its own has made it another. What became an option
\* is MinimalExact's subject.
MinimalOnly(sent) == (event.minimal /\ ~Renewed) => DOMAIN sent.props \subseteq MinimalProperties

\* A queued event says when it was captured, or what the caller said; never when it was sent.
Occurred(sent) ==
  (via = "queue" /\ ~Renewed) => sent.timestamp = event.timestamp /\ sent.timestamp # "built"

\* What a request says of its encoding is how its body is encoded, in the place its endpoint
\* reads, and the build has the codec.
EncodingTold ==
  LET request == wire.request IN
  /\ request.header = request.body
  /\ setup.build = "v0" => request.query = request.body
  /\ request.body = IF setup.works /\ setup.algorithm \in Codecs(setup.build)
                    THEN setup.algorithm ELSE "none"

\* What is on the wire is what the caller captured and the hooks made of it: not one event
\* more or less, its own properties kept, its options acceptable, a minimal one minimal, its
\* time its own, and its encoding as told.
WireFaithful ==
  stage = "sent" =>
    /\ EncodingTold
    /\ Len(wire.events) = IF Discarded THEN 0 ELSE 1
    /\ \A i \in DOMAIN wire.events :
         LET sent == wire.events[i] IN
         CallerWins(sent) /\ OptionsAccepted(sent) /\ MinimalOnly(sent) /\ Occurred(sent)

\* The two builds say the same of an event that no hook takes properties from: each property
\* of a V0 event is one of the V1 event or, coerced, one of its options, and the other way
\* round. Two things are left out of the comparison: what either says of the SDK itself
\* ($lib, $lib_version and its parts), which is in the headers of a V1 request; and the options
\* of a minimal event that its allowlist does not name, which V1 sends and V0 does not
\* (MinimalExact).
BuildsAgree ==
  (stage = "sent" /\ \A i \in DOMAIN setup.hooks : setup.hooks[i] \notin {"strip", "fresh"}) =>
    LET v0 == WireEventsOf("v0", event)
        v1 == WireEventsOf("v1", event)
        lib == {"$lib", "$lib_version", "$lib_version__major", "$lib_version__minor",
                "$lib_version__patch"}
        moved == Lifted \union {"$session_id", "$window_id"}
    IN /\ Len(v0) = Len(v1)
       /\ \A i \in DOMAIN v0 :
            /\ Without(v0[i].props, moved \union lib) = Without(v1[i].props, lib)
            /\ \A o \in DOMAIN OptionsExtraction :
                 LET key == OptionsExtraction[o].from
                     coerced == CoerceOption(OptionsExtraction[o].kind, v0[i].props[key])
                 IN IF key \in DOMAIN v0[i].props
                    THEN IF coerced = Uninterpretable THEN o \notin DOMAIN v1[i].options
                         ELSE Has(v1[i].options, o, coerced)
                    ELSE o \in DOMAIN v1[i].options => event.minimal /\ key \notin MinimalProperties
            /\ v1[i].session_id = TextIn(v0[i].props, "$session_id")
            /\ v1[i].window_id = TextIn(v0[i].props, "$window_id")

\* The claim of MINIMAL_FLAG_CALLED_EVENT_PROPERTIES, "nothing added upstream can leak past it"
\* and "the resulting event carries exactly this set": of a minimal event nothing is on the wire
\* that the allowlist does not name, be it a property or an option that V1 made of one.
MinimalExact ==
  (stage = "sent" /\ event.minimal /\ ~Renewed) =>
    \A i \in DOMAIN wire.events :
      LET sent == wire.events[i] IN
      /\ MinimalOnly(sent)
      /\ setup.build = "v1" =>
           \A o \in DOMAIN sent.options : OptionsExtraction[o].from \in MinimalProperties

----------------------------------------------------------------------------
ListOf(sent) == sent.props["$exception_list"]

\* An inline frame follows its group's lead, which carries the same address.
GroupsWhole(frames) ==
  \A i \in DOMAIN frames : frames[i].inline =>
    \E lead \in 1..i - 1 : /\ ~frames[lead].inline
                           /\ \A j \in lead..i : frames[j].addr = frames[i].addr
                           /\ \A j \in lead + 1..i : frames[j].inline

\* Every address the server is to resolve comes with its module, and no module for nothing:
\* without addresses there are no modules but those the caller says.
ImagesMatch(sent) ==
  LET frames == ListOf(sent).frames
      resolved == {frames[i].image : i \in {j \in DOMAIN frames : frames[j].addr # 0}}
  IN IF resolved = {}
     THEN "$debug_images" \in DOMAIN sent.props =>
            Has(report.context.props, "$debug_images", sent.props["$debug_images"])
     ELSE /\ "$debug_images" \in DOMAIN sent.props
          /\ {m.base : m \in sent.props["$debug_images"].images} = resolved

\* The stack the walk saw, outermost first, before anything is taken away.
Walked == Reverse(CaptureFramesCurrentFirst(report.stack))
Unclassified(frames) == [i \in DOMAIN frames |-> [frames[i] EXCEPT !.in_app = FALSE]]

\* A frame that the SDK can tell to be its own, by address or by name.
AtCapture(frame) == frame.entry \in CaptureEntries \/ IsInternalCaptureFrame(frame.name)

\* Frame i of the walk, inside frame e, is not the app's: it has the name of the SDK's, or it
\* is in one of the SDK's capture functions, or in the hook that the dispatcher e called.
OfTheSdk(i, e) ==
  \/ IsInternalCaptureFrame(Walked[i].name)
  \/ \E j \in e + 1..i : Walked[j].entry \in CaptureEntries
  \/ e > 0 /\ report.of = "panic" /\ IsPanicDispatcherFrame(Walked[e].name)

\* The trace is the part of the stack that ends at some frame e, which the SDK cannot tell to
\* be its own. Inside of e only the SDK's frames are taken away, outside of it only those that
\* are more than MaxFrames from e and the rest of the inline group that this limit cuts. So
\* the trace is empty only if the whole stack is the SDK's or the innermost MaxFrames are
\* inline; and in a stripped build e may be a frame of the SDK's that has no name.
TraceOf(frames) ==
  IF ~report.options.stacktrace THEN frames = <<>>
  ELSE \E e \in 0..Len(Walked) : \E s \in 1..e + 1 :
         /\ Unclassified(frames) = SubSeq(Walked, s, e)
         /\ e > 0 => ~AtCapture(Walked[e])
         /\ \A i \in e + 1..Len(Walked) : OfTheSdk(i, e)
         /\ \A i \in 1..s - 1 : i <= e - MaxFrames \/ Walked[i].inline

\* An excluded frame is never the app's, nor is one that nothing is known of.
InAppAsAsked(frames) ==
  \A i \in DOMAIN frames : frames[i].in_app =>
    /\ frames[i].path # <<>> \/ frames[i].name # <<>>
    /\ \A p \in report.options.exclude :
         ~HasRun(frames[i].path, <<p>>) /\ ~HasRun(frames[i].name, <<p>>)

\* The causes are linked one to the next, from the error to the last of its sources.
Linked(items) ==
  /\ Len(items) = Least(report.sources + 1, MaxSources)
  /\ Len(items) > 1 => \A i \in DOMAIN items : items[i].exception = i - 1 /\ items[i].parent = i - 2

\* The level and the fingerprint are what the options of the capture say, whatever properties
\* its caller gave; a report without a fingerprint says nothing of it (FingerprintOwn).
Marked(sent) ==
  LET context == report.context
      level == IF context.level = "none" THEN "error" ELSE context.level
  IN /\ Has(sent.props, "$exception_level", Text(level))
     /\ context.fingerprint # "none" =>
          Has(sent.props, "$exception_fingerprint", Text(context.fingerprint))

\* A report of an error or a panic, on the wire of either build, is the SDK's own and can be
\* resolved by the server: its list, level and given fingerprint not the caller's, its trace
\* bounded and cut at the right ends, its inline groups whole, its modules those of its frames
\* after trimming.
ReportSound ==
  (stage = "sent" /\ report.of # "none" /\ Harmless) =>
    LET sent == wire.events[1]
        frames == ListOf(sent).frames
    IN /\ "$exception_list" \in DOMAIN sent.props /\ Marked(sent)
       /\ Len(frames) <= MaxFrames /\ GroupsWhole(frames) /\ ImagesMatch(sent)
       /\ TraceOf(frames) /\ InAppAsAsked(frames) /\ Linked(ListOf(sent).items)
       /\ ListOf(sent).traced = report.options.stacktrace

\* The claim of build_exception_event, "Reserved $exception_* properties are written after
\* user-set properties so they can't be overridden": a fingerprint on the wire is one that
\* the options of the capture gave. The code does not keep it: README, section 6.
FingerprintOwn ==
  (stage = "sent" /\ report.of # "none" /\ Harmless) =>
    ("$exception_fingerprint" \in DOMAIN wire.events[1].props =>
       report.context.fingerprint # "none")

\* The claim of trim_to_max_frames, that it "keeps the ones nearest the crash site": a trace
\* that has a frame before it is trimmed ends with the same frame after. The code does not
\* keep it: README, section 6.
CrashKept ==
  (stage = "sent" /\ report.of = "error" /\ Harmless /\ report.options.stacktrace) =>
    LET captured == CaptureRawApplicationFrames(report.stack)
        frames == Unclassified(ListOf(wire.events[1]).frames)
    IN captured # <<>> =>
         frames # <<>> /\ frames[Len(frames)] = captured[Len(captured)]
=============================================================================
