-------------------------- MODULE MCEventPipeline --------------------------
(* Constants of EventPipeline for TLC. *)
EXTENDS EventPipeline, TLC

\* A property of the caller's own, one each the SDK would add, and those V1 lifts.
SomeKeys == {"plan", "$lib_version__minor", "$is_server", "$process_person_profile",
             "$product_tour_id", "$session_id", "$groups"}
SomeValues == {True, Text("TRUE?"), Text("0"), Number("0")}

Setup(build, geoip, server, hooks, algorithm, works) ==
  [build |-> build, geoip |-> geoip, server |-> server, hooks |-> hooks,
   algorithm |-> algorithm, works |-> works]
HookLists == {<<"keep">>, <<"leak", "panic">>, <<"drop", "leak">>, <<"leak", "option">>,
              <<"mistype">>, <<"strip">>, <<"fresh">>}
SomeSetups ==
  {Setup(build, TRUE, FALSE, hooks, "gzip", TRUE) : build \in {"v0", "v1"}, hooks \in HookLists}
  \union {Setup(build, FALSE, TRUE, <<>>, algorithm, works) :
            build \in {"v0", "v1"}, algorithm \in {"gzip", "br"}, works \in BOOLEAN}
  \union {Setup(build, TRUE, TRUE, <<"strip">>, "none", TRUE) : build \in {"v0", "v1"}}

----------------------------------------------------------------------------
\* A module of the app, a system library with a debug id, one without.
SomeModules == {[base |-> 10, size |-> 10, build |-> "gnu"],
                [base |-> 20, size |-> 5, build |-> "uuid"],
                [base |-> 30, size |-> 10, build |-> "pe"]}

Layer(path, name) == [path |-> path, name |-> name]
Physical(addr, entry, layers) == [addr |-> addr, entry |-> entry, layers |-> layers]
Main == <<"", "srv", "src", "main.rs">>
Registry == <<"", "opt", "registry", "src", "github-1ecc6299db9ec823", "serde", "lib.rs">>
Checkout == <<"", "opt", "git", "checkouts", "github-1ecc6299db9ec823", "0fe9a1c", "lib.rs">>

\* One frame of each kind: the app's; an inline group of the app, tokio and std, and one too
\* long for a trace; nameless in a module with symbols; inlined dependencies in a module without; nowhere at all; bootstrap.
AppFrames ==
  {Physical(17, "run", <<Layer(Main, <<"my_app", "run", "h0123456789abcdef">>)>>),
   Physical(18, "poll", <<Layer(Main, <<"my_app", "handler">>), Layer(<<>>, <<"poll<T>", "tokio">>),
                          Layer(<<"", "rustc", "core.rs">>, <<"std[b887e3750a86e3a0]", "go">>)>>),
   Physical(18, "deep", [i \in 1..4 |-> Layer(Main, <<"my_app", "deep">>)]),
   Physical(19, "none", <<>>),
   Physical(31, "de", <<Layer(Registry, <<"serde", "de">>), Layer(Checkout, <<"toml", "de">>)>>),
   Physical(50, "none", <<Layer(<<>>, <<>>)>>),
   Physical(21, "none", <<Layer(<<>>, <<"main">>)>>)}

\* The SDK's frames at the capture site: with symbols; stripped; and where the symbol
\* addresses are not the functions' entries.
Sdk(named, pinned) ==
  LET at(addr, entry, name) ==
        Physical(addr, IF pinned THEN entry ELSE "queried",
                 IF named THEN <<Layer(<<>>, name)>> ELSE <<>>)
  IN <<at(11, "trace", <<"backtrace", "trace">>),
       at(12, "capture_frames_current_first", <<"capture_frames_current_first">>),
       at(13, "generic", <<"posthog_rs", "capture_raw_frames">>),
       at(14, "capture_raw_application_frames", <<"posthog_rs", "capture_raw_application_frames">>),
       at(15, "build", <<"build_exception_event">>),
       at(16, "client", <<"Client", "capture_exception">>)>>

AppStacks == UNION {[1..n -> AppFrames] : n \in 1..2}
SomeStacks ==
  {sdk \o app : sdk \in {Sdk(TRUE, TRUE), Sdk(FALSE, TRUE), Sdk(TRUE, FALSE)}, app \in AppStacks}

\* The hook's frames, the dispatcher by name or not, and the runtime's.
Hook(named) ==
  <<Physical(11, "trace", IF named THEN <<Layer(<<>>, <<"backtrace", "trace">>)>> ELSE <<>>),
    Physical(12, "capture_raw_panic_frames", <<>>),
    Physical(13, "closure",
             IF named THEN <<Layer(<<>>, <<"posthog_rs", "install_hook">>)>> ELSE <<>>),
    Physical(22, "dispatch",
             IF named THEN <<Layer(<<>>, <<"std", "rust_panic_with_hook">>)>> ELSE <<>>),
    Physical(22, "begin", <<Layer(<<>>, <<"rust_begin_unwind">>)>>)>>
SomePanicStacks == {Hook(named) \o app : named \in BOOLEAN, app \in AppStacks}

SomePolicies ==
  {[stacktrace |-> FALSE, include |-> {}, exclude |-> {}],
   [stacktrace |-> TRUE, include |-> {}, exclude |-> {}],
   [stacktrace |-> TRUE, include |-> {"my_app", "serde"}, exclude |-> {"handler"}]}

\* Someone who forges what the report will not have, and a person of a group who forges all
\* that is reserved.
SomeContexts ==
  {[person |-> FALSE, groups |-> {}, fingerprint |-> "none", level |-> "none",
    props |-> [k \in {"$exception_fingerprint", "$debug_images"} |-> Text("forged")]],
   [person |-> TRUE, groups |-> GroupNames, fingerprint |-> "print", level |-> "warning",
    props |-> [k \in {"$exception_list", "$exception_level", "$exception_fingerprint",
                      "$debug_images"} |-> Text("forged")]]}
=============================================================================
