-------------------------- MODULE ExceptionReport --------------------------
(* error_tracking.rs: the $exception event of an error or a panic. A stack walk is given   *)
(* as physical frames, innermost first; a path is the sequence of its directories, the     *)
(* first empty when it is absolute; a function is the sequence of its :: segments, each     *)
(* standing for those that begin with it; <<>> is an absent path or name.                   *)
EXTENDS WireEvents, Integers

CONSTANTS
  MaxFrames,   \* MAX_FRAMES
  MaxSources,  \* MAX_ERROR_SOURCES
  PrefixScan,  \* how far strip_pinned_prefix looks
  PanicScan,   \* how far capture_raw_panic_frames looks for the dispatcher
  Modules      \* the modules mapped into the process: [base, size, build]

ASSUME ReportAssumption ==
  /\ MaxFrames \in Nat \ {0} /\ MaxSources \in Nat \ {0} /\ PrefixScan \in Nat /\ PanicScan \in Nat
  /\ \A m \in Modules : m.base \in Nat \ {0} /\ m.size \in Nat

Least(a, b) == IF a <= b THEN a ELSE b
HasRunAt(path, run, i) == i + Len(run) - 1 <= Len(path) /\ SubSeq(path, i, i + Len(run) - 1) = run
HasRun(path, run) == \E i \in 1..Len(path) : HasRunAt(path, run, i)

----------------------------------------------------------------------------
\* Modules. A PE signature is no debug id.
DebugIdFor(build) == IF build \in {"gnu", "uuid", "pdb"} THEN build ELSE "none"
NoModule == [base |-> 0, size |-> 0, build |-> "none"]
\* The module with the greatest base not above the address, if the address is in it.
FindModule(addr) ==
  LET below == {m \in Modules : m.base <= addr}
      nearest == {m \in below : \A n \in below : n.base <= m.base}
  IN IF \E m \in nearest : addr < m.base + m.size THEN CHOOSE m \in nearest : TRUE ELSE NoModule

----------------------------------------------------------------------------
\* Names: a demangler may leave a crate's hash, generic arguments or a leading <.
Undecorated == [s \in {"std[b887e3750a86e3a0]"} |-> "std"]
Bare(segment) == IF segment \in DOMAIN Undecorated THEN Undecorated[segment] ELSE segment
IsRustSymbolHash(segment) == segment = "h0123456789abcdef"
NormalizeFunctionName(name) ==
  LET plain == [i \in DOMAIN name |-> Bare(name[i])] IN
  IF Len(plain) > 1 /\ IsRustSymbolHash(plain[Len(plain)]) THEN SubSeq(plain, 1, Len(plain) - 1)
  ELSE plain

CaptureFunctions ==
  {<<"capture_frames_current_first">>, <<"capture_raw_frames">>,
   <<"capture_raw_application_frames">>, <<"Exception", "from_error">>, <<"Exception", "from_message">>, <<"build_exception_event">>,
   <<"Client", "capture_exception">>, <<"global", "capture_exception">>}
IsInternalCaptureFrame(name) ==
  (Len(name) > 1 /\ name[1] = "backtrace") \/ \E run \in CaptureFunctions : HasRun(name, run)
IsPanicDispatcherFrame(name) ==
  HasRun(name, <<"rust_panic_with_hook">>) \/ HasRun(name, <<"panicking", "panic_with_hook">>)

----------------------------------------------------------------------------
\* In the app or not.
Dirs == {<<".cargo", "registry">>, <<".cargo", "git">>, <<"rustc">>, <<"library", "alloc", "src">>,
         <<"library", "core", "src">>, <<"library", "proc_macro", "src">>,
         <<"library", "std", "src">>, <<"library", "test", "src">>, <<"toolchains">>, <<"target">>,
         <<"vendor">>}
\* A run of whole directories, a slash on both sides.
HasDir(path, run) == \E i \in 2..Len(path) : HasRunAt(path, run, i) /\ i + Len(run) <= Len(path)
HasCargoHashSuffix(dir) == dir = "github-1ecc6299db9ec823"
IsShortRev(dir) == dir = "0fe9a1c"
InToolchain(path) == \E i \in 2..Len(path) : path[i] = "rustc-1.80.0"

\* Where a run of two directories first begins, or 0.
FirstRun(path, run) ==
  LET at == {i \in 2..Len(path) : HasRunAt(path, run, i) /\ i + Len(run) <= Len(path)} IN
  IF at = {} THEN 0 ELSE CHOOSE i \in at : \A j \in at : i <= j
IsCargoRegistrySrc(path) ==
  LET i == FirstRun(path, <<"registry", "src">>) IN
  i > 0 /\ HasCargoHashSuffix(path[i + 2]) /\ i + 4 <= Len(path)
IsCargoGitCheckout(path) ==
  LET i == FirstRun(path, <<"git", "checkouts">>) IN
  i > 0 /\ i + 4 <= Len(path) /\ HasCargoHashSuffix(path[i + 2]) /\ IsShortRev(path[i + 3])

DefaultInAppPath(path) ==
  ~((\E run \in Dirs : HasDir(path, run)) \/ InToolchain(path)
     \/ IsCargoRegistrySrc(path) \/ IsCargoGitCheckout(path))

LibraryCrates ==
  {"alloc", "anyhow", "backtrace", "color_eyre", "core", "eyre", "futures_core", "futures_util",
   "log", "posthog_rs", "reqwest", "std", "stable_eyre", "tokio", "tracing", "tracing_core"}
StripGenericArgs(segment) ==
  CASE segment = "poll<T>" -> "poll" [] segment = "<alloc" -> "alloc" [] OTHER -> segment
RuntimeSymbols == {"_main", "rust_begin_unwind", "__rust_try", "___rust_try"}
DefaultInAppFunction(name) ==
  /\ name # <<>>
  /\ name[1] \notin RuntimeSymbols
  /\ StripGenericArgs(name[1]) \notin LibraryCrates

BootstrapSymbols ==
  {"main", "_start", "__libc_start_main", "clone", "clone3", "__clone", "__clone3",
   "start_thread", "_pthread_start", "thread_start"}

\* The options' patterns are single directories or segments here.
Matches(patterns, path, name) == \E p \in patterns : HasRun(path, <<p>>) \/ HasRun(name, <<p>>)

\* A path by itself: exclusion first, inclusion if there is any, the defaults last.
IsInAppPath(options, path) ==
  /\ ~Matches(options.exclude, path, <<>>)
  /\ IF options.include # {} THEN Matches(options.include, path, <<>>) ELSE DefaultInAppPath(path)

IsInAppFrame(options, path, name) ==
  /\ ~Matches(options.exclude, path, name)
  /\ IF options.include # {} THEN Matches(options.include, path, name)
     ELSE /\ path # <<>> => IsInAppPath(options, path)
          /\ IF name = <<>> THEN path # <<>>
             ELSE /\ DefaultInAppFunction(name)
                  /\ path = <<>> => ~(Len(name) = 1 /\ name[1] \in BootstrapSymbols)

----------------------------------------------------------------------------
\* Frames as they are sent. A physical frame is [addr, entry, layers], its layers
\* innermost first, each [path, name].
Frame(layer, physical, module, inline) ==
  LET resolvable == DebugIdFor(module.build) # "none" IN
  [path |-> layer.path, name |-> NormalizeFunctionName(layer.name), in_app |-> FALSE,
   addr |-> IF resolvable THEN physical.addr ELSE 0,
   entry |-> IF resolvable THEN physical.entry ELSE "none",
   image |-> IF resolvable THEN module.base ELSE 0,
   inline |-> resolvable /\ inline]

Nameless == [path |-> <<>>, name |-> <<>>]

\* The layers that have a path or a name.
Told(layers) ==
  FlattenSeq([i \in DOMAIN layers |-> IF layers[i] = Nameless THEN <<>> ELSE <<layers[i]>>])

\* The frames of one physical frame: nothing if neither side could name it, one bare
\* address if only the server can, else one for each layer, all but the outermost inline.
Expanded(physical) ==
  LET module == FindModule(physical.addr)
      layers == Told(physical.layers)
  IN IF layers = <<>>
     THEN IF DebugIdFor(module.build) = "none" THEN <<>>
          ELSE <<Frame(Nameless, physical, module, FALSE)>>
     ELSE [i \in DOMAIN layers |-> Frame(layers[i], physical, module, i # Len(layers))]
CaptureFramesCurrentFirst(stack) == FlattenSeq([i \in DOMAIN stack |-> Expanded(stack[i])])

FromIndex(frames, from) == SubSeq(frames, from, Len(frames))

\* By address: through the last of the SDK's own functions in the part looked at.
StripPinnedPrefix(frames, pinned) ==
  LET own == {i \in 1..Least(Len(frames), PrefixScan) : frames[i].entry \in pinned} IN
  IF own = {} THEN frames ELSE FromIndex(frames, 1 + CHOOSE i \in own : \A j \in own : j <= i)
\* By name: while the innermost frame is the SDK's.
StripInternal(frames) ==
  LET others == {i \in DOMAIN frames : ~IsInternalCaptureFrame(frames[i].name)} IN
  IF others = {} THEN <<>> ELSE FromIndex(frames, CHOOSE i \in others : \A j \in others : i <= j)

CaptureRawApplicationFrames(stack) ==
  Reverse(StripInternal(StripPinnedPrefix(CaptureFramesCurrentFirst(stack),
                                          {"capture_frames_current_first",
                                           "capture_raw_application_frames"})))

\* What is inside the panic dispatcher is the hook's; without one in sight, by name.
CaptureRawPanicFrames(stack) ==
  LET frames == StripPinnedPrefix(CaptureFramesCurrentFirst(stack),
                                  {"capture_frames_current_first", "capture_raw_panic_frames"})
      dispatchers == {i \in 1..Least(Len(frames), PanicScan) :
                        IsPanicDispatcherFrame(frames[i].name)}
  IN Reverse(IF dispatchers = {} THEN StripInternal(frames)
             ELSE FromIndex(frames, CHOOSE i \in dispatchers : \A j \in dispatchers : i <= j))

\* mutant: the cut may fall inside an inline group.
CutAnywhere(frames, max) ==
  IF Len(frames) <= max THEN frames ELSE FromIndex(frames, Len(frames) - max + 1)

\* Outermost first now: the outermost go, and what is left of an inline group with them.
TrimToMaxFrames(frames, max) ==
  IF Len(frames) <= max THEN frames
  ELSE LET whole == {i \in Len(frames) - max + 1 .. Len(frames) : ~frames[i].inline} IN
       IF whole = {} THEN <<>> ELSE FromIndex(frames, CHOOSE i \in whole : \A j \in whole : i <= j)

ReferencedImages(modules, frames) ==
  {m \in modules :
     DebugIdFor(m.build) # "none" /\ \E i \in DOMAIN frames : frames[i].image = m.base}

----------------------------------------------------------------------------
\* The chain: an item for the error and one for each source up to the limit.
LinkExceptionChain(count) ==
  [i \in 1..count |-> [mechanism |-> IF i > 1 THEN "chained" ELSE "generic",
                       exception |-> IF count < 2 THEN -1 ELSE i - 1,
                       parent |-> IF i > 1 THEN i - 2 ELSE -1]]

PanicItem == [mechanism |-> "panic", exception |-> -1, parent |-> -1]

\* An error with `sources` errors behind it, and a panic.
FromError(sources, stack, options) ==
  [items |-> LinkExceptionChain(Least(sources + 1, MaxSources)), level |-> "error",
   fingerprint |-> "none", traced |-> options.stacktrace,
   frames |-> IF options.stacktrace THEN CaptureRawApplicationFrames(stack) ELSE <<>>]
FromPanicInfo(stack, options) ==
  [items |-> <<PanicItem>>, level |-> "fatal",
   fingerprint |-> "none", traced |-> options.stacktrace,
   frames |-> IF options.stacktrace THEN CaptureRawPanicFrames(stack) ELSE <<>>]

Classified(frames, options) ==
  [i \in DOMAIN frames |->
     IF frames[i].path = <<>> /\ frames[i].name = <<>> THEN frames[i]
     ELSE [frames[i] EXCEPT !.in_app = IsInAppFrame(options, frames[i].path, frames[i].name)]]

\* The reserved properties, over the caller's; the frames trimmed, then the images.
WriteInto(exception, event, options) ==
  LET frames == TrimToMaxFrames(Classified(exception.frames, options), MaxFrames)
      images == ReferencedImages(ReferencedImages(Modules, exception.frames), frames)
      levelled == InsertProp(event, "$exception_level", Text(exception.level))
      printed == IF exception.fingerprint = "none" THEN levelled
                 ELSE InsertProp(levelled, "$exception_fingerprint", Text(exception.fingerprint))
      imaged == IF images = {} THEN printed
                ELSE InsertProp(printed, "$debug_images", [type |-> "images", images |-> images])
  IN InsertProp(imaged, "$exception_list",
                [type |-> "exceptions", items |-> exception.items,
                 traced |-> exception.traced, frames |-> frames])

\* build_exception_event: `context` is the caller's CaptureExceptionOptions.
BuildExceptionEvent(id, sources, stack, context, options) ==
  LET plain == FromError(sources, stack, options)
      exception == [plain EXCEPT !.fingerprint = context.fingerprint,
                                 !.level = IF context.level = "none" THEN @ ELSE context.level]
      personal == IF context.person THEN New(id) ELSE NewAnon(id)
      said == [personal EXCEPT !.props = [k \in DOMAIN @ \union DOMAIN context.props |->
                 IF k \in DOMAIN context.props THEN context.props[k] ELSE @[k]]]
      grouped == IF context.groups = {} THEN said
                 ELSE [said EXCEPT !.groups = context.groups,
                                   !.props = With(@, ProcessPerson, True)]
  IN WriteInto(exception, grouped, options)

BuildPanicEvent(id, located, stack, options) ==
  LET anon == NewAnon(id)
      at == IF located THEN InsertProp(InsertProp(InsertProp(anon,
              "$exception_panic_file", Text("file")), "$exception_panic_line", Number("line")),
              "$exception_panic_column", Number("column"))
            ELSE anon
  IN WriteInto(FromPanicInfo(stack, options), at, options)
=============================================================================
