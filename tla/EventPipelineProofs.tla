------------------------- MODULE EventPipelineProofs -------------------------
(* What goes over the wire, for events, hooks, stacks and chains of every size. *)
EXTENDS EventPipeline, SequenceTheorems, WellFoundedInduction, TLAPS

\* A set of natural numbers has a least one.
LEMMA NatMinimum ==
  ASSUME NEW T, T \subseteq Nat, T # {}
  PROVE  \E x \in T : \A y \in T : x <= y
<1> DEFINE R == {e \in Nat \X Nat : e[1] < e[2]}
<1>1. IsWellFoundedOn(R, Nat)
  BY NatLessThanWellFounded DEF OpToRel
<1>2. IsWellFoundedOn(R, T)
  <2> HIDE DEF R
  <2> QED BY <1>1, IsWellFoundedOnSubset
<1>3. PICK x \in T : \A y \in T : ~(<<y, x>> \in R)
  <2> HIDE DEF R
  <2> QED BY <1>2, WFMin
<1>4. \A y \in T : <<y, x>> \in R <=> y < x
  OBVIOUS
<1>5. \A y \in T : ~(y < x)
  <2> HIDE DEF R
  <2> QED BY <1>3, <1>4
<1>6. \A y \in T : x <= y
  BY <1>5
<1> QED BY <1>6

\* What holds of 0 and of the next number whenever it holds of one holds up to n: there is
\* no least number of which it does not.
LEMMA UpTo ==
  ASSUME NEW n \in Nat, NEW S, 0 \in S, \A m \in 0..(n - 1) : m \in S => m + 1 \in S
  PROVE  0..n \subseteq S
<1> DEFINE bad == (0..n) \ S
<1>1. CASE bad = {}
  BY <1>1
<1>2. CASE bad # {}
  <2>1. bad \subseteq Nat
    OBVIOUS
  <2>2. PICK m \in bad : \A k \in bad : m <= k
    <3> HIDE DEF bad
    <3> QED BY <1>2, <2>1, NatMinimum
  <2>3. m \in 1..n /\ m \notin S
    BY <2>2
  <2>4. m - 1 \in 0..(n - 1) /\ m - 1 \notin bad
    BY <2>2, <2>3
  <2>5. m - 1 \in S
    BY <2>4
  <2>6. (m - 1) + 1 \in S
    BY <2>4, <2>5
  <2> QED BY <2>3, <2>6
<1> QED BY <1>1, <1>2
-----------------------------------------------------------------------------
(* The before_send hooks, one after the other. *)

After(hook, e) == IF e = Dropped THEN Dropped ELSE HookResult(hook, e)

\* a holds the event after each of the first n hooks.
Runs(a, hooks, first, n) ==
  a = [i \in 0..n |-> IF i = 0 THEN first
                      ELSE IF a[i - 1] = Dropped THEN Dropped
                      ELSE HookResult(hooks[i], a[i - 1])]

LEMMA HooksDef ==
  ASSUME NEW hooks, NEW first
  PROVE  ApplyBeforeSendHooks(hooks, first)
           = (CHOOSE a : Runs(a, hooks, first, Len(hooks)))[Len(hooks)]
BY DEF ApplyBeforeSendHooks, Runs

LEMMA RunsExist ==
  ASSUME NEW hooks, NEW first, NEW n \in Nat
  PROVE  \E a : Runs(a, hooks, first, n)
<1> DEFINE good == {m \in 0..n : \E a : Runs(a, hooks, first, m)}
<1>1. 0 \in good
  <2>1. Runs([i \in 0..0 |-> first], hooks, first, 0)
    BY DEF Runs
  <2> QED BY <2>1
<1>2. ASSUME NEW m \in 0..(n - 1), m \in good
      PROVE  m + 1 \in good
  <2>1. PICK a : Runs(a, hooks, first, m)
    BY <1>2
  <2> DEFINE b == [i \in 0..(m + 1) |-> IF i <= m THEN a[i] ELSE After(hooks[m + 1], a[m])]
  <2>2. \A i \in 0..m : a[i] = IF i = 0 THEN first ELSE After(hooks[i], a[i - 1])
    BY <2>1, Zenon DEF Runs, After
  <2>3. \A i \in 0..(m + 1) : b[i] = IF i = 0 THEN first ELSE After(hooks[i], b[i - 1])
    <3>1. ASSUME NEW i \in 0..m
          PROVE  b[i] = IF i = 0 THEN first ELSE After(hooks[i], b[i - 1])
      BY <2>2
    <3>2. b[m + 1] = After(hooks[m + 1], b[m])
      OBVIOUS
    <3> HIDE DEF b
    <3> QED BY <3>1, <3>2
  <2>4. Runs(b, hooks, first, m + 1)
    <3>1. b = [i \in 0..(m + 1) |-> b[i]]
      OBVIOUS
    <3> HIDE DEF b
    <3>2. b = [i \in 0..(m + 1) |-> IF i = 0 THEN first ELSE After(hooks[i], b[i - 1])]
      BY <2>3, <3>1, Zenon
    <3> QED BY <3>2 DEF Runs, After
  <2> HIDE DEF b
  <2> QED BY <2>4
<1> HIDE DEF good
<1>3. 0..n \subseteq good
  BY <1>1, <1>2, UpTo
<1> QED BY <1>3 DEF good

\* The events between the hooks.
LEMMA HooksRun ==
  ASSUME NEW hooks \in Seq(Hooks), NEW first
  PROVE  \E a : /\ a[0] = first /\ a[Len(hooks)] = ApplyBeforeSendHooks(hooks, first)
                /\ \A i \in 1..Len(hooks) : a[i] = After(hooks[i], a[i - 1])
<1> DEFINE n == Len(hooks)
           a == CHOOSE b : Runs(b, hooks, first, n)
<1>1. n \in Nat
  OBVIOUS
<1>2. Runs(a, hooks, first, n)
  BY <1>1, RunsExist
<1>3. a[n] = ApplyBeforeSendHooks(hooks, first)
  BY HooksDef
<1> HIDE DEF a
<1>4. \A i \in 0..n : a[i] = IF i = 0 THEN first ELSE After(hooks[i], a[i - 1])
  BY <1>2, Zenon DEF Runs, After
<1>5. a[0] = first /\ \A i \in 1..n : a[i] = After(hooks[i], a[i - 1])
  <2> HIDE DEF n
  <2> QED BY <1>1, <1>4
<1> QED BY <1>3, <1>5
-----------------------------------------------------------------------------
(* Properties. The functions that add to them change nothing else of an event. *)

IsEvent(e) ==
  /\ e = [id |-> e.id, props |-> e.props, groups |-> e.groups, timestamp |-> e.timestamp,
          minimal |-> e.minimal]
  /\ e.props = [k \in DOMAIN e.props |-> e.props[k]]

\* An event, or what becomes of one for V1: a record with properties.
IsRecord(e) ==
  /\ e = [f \in DOMAIN e |-> e[f]] /\ "props" \in DOMAIN e
  /\ e.props = [k \in DOMAIN e.props |-> e.props[k]]

\* props, and below them extra.
Under(props, extra) ==
  [k \in DOMAIN props \union DOMAIN extra |-> IF k \in DOMAIN props THEN props[k] ELSE extra[k]]

Only(key, value) == [k \in {key} |-> value]

\* What the SDK adds unless it is there.
CaptureDefaults(d) ==
  [k \in {x \in {"$geoip_disable", "$is_server"} : IF x = "$is_server" THEN d.server ELSE d.geoip}
     |-> True]
RuntimeContext == [k \in {"$os", "$os_version"} |-> Text("sdk")]

LEMMA InsertedRecord ==
  ASSUME NEW e, IsRecord(e), NEW key, NEW value
  PROVE  /\ IsRecord(InsertProp(e, key, value))
         /\ InsertProp(e, key, value).props = With(e.props, key, value)
         /\ DOMAIN InsertProp(e, key, value) = DOMAIN e
         /\ \A f \in DOMAIN e \ {"props"} : InsertProp(e, key, value)[f] = e[f]
BY DEF IsRecord, InsertProp, With

LEMMA DefaultedRecord ==
  ASSUME NEW e, IsRecord(e), NEW key, NEW value
  PROVE  /\ IsRecord(InsertPropDefault(e, key, value))
         /\ InsertPropDefault(e, key, value).props = Under(e.props, Only(key, value))
         /\ DOMAIN InsertPropDefault(e, key, value) = DOMAIN e
         /\ \A f \in DOMAIN e \ {"props"} : InsertPropDefault(e, key, value)[f] = e[f]
<1>1. CASE key \in DOMAIN e.props
  <2>1. Under(e.props, Only(key, value)) = [k \in DOMAIN e.props |-> e.props[k]]
    BY <1>1 DEF Under, Only
  <2> QED BY <1>1, <2>1 DEF InsertPropDefault, IsRecord
<1>2. CASE key \notin DOMAIN e.props
  <2>1. Under(e.props, Only(key, value)) = With(e.props, key, value)
    BY <1>2 DEF Under, Only, With
  <2> QED BY <1>2, <2>1, InsertedRecord DEF InsertPropDefault
<1> QED BY <1>1, <1>2

LEMMA CaptureDefaultsRecord ==
  ASSUME NEW e, IsRecord(e), NEW d, d.geoip \in BOOLEAN, d.server \in BOOLEAN
  PROVE  /\ IsRecord(ApplyCaptureDefaults(e, d))
         /\ ApplyCaptureDefaults(e, d).props = Under(e.props, CaptureDefaults(d))
         /\ DOMAIN ApplyCaptureDefaults(e, d) = DOMAIN e
         /\ \A f \in DOMAIN e \ {"props"} : ApplyCaptureDefaults(e, d)[f] = e[f]
<1> DEFINE g == InsertPropIf(d.geoip, e, "$geoip_disable")
           geo == [k \in {x \in {"$geoip_disable"} : d.geoip} |-> True]
           ser == [k \in {x \in {"$is_server"} : d.server} |-> True]
<1>1. /\ IsRecord(g) /\ g.props = Under(e.props, geo)
      /\ DOMAIN g = DOMAIN e /\ \A f \in DOMAIN e \ {"props"} : g[f] = e[f]
  <2>1. CASE d.geoip
    <3>1. geo = Only("$geoip_disable", True)
      BY <2>1 DEF Only
    <3> QED BY <2>1, <3>1, DefaultedRecord DEF InsertPropIf
  <2>2. CASE ~d.geoip
    <3>1. DOMAIN geo = {}
      BY <2>2
    <3> HIDE DEF geo
    <3>2. Under(e.props, geo) = [k \in DOMAIN e.props |-> e.props[k]]
      BY <3>1 DEF Under
    <3> QED BY <2>2, <3>2 DEF InsertPropIf, IsRecord
  <2> QED BY <2>1, <2>2
<1> HIDE DEF g
<1> DEFINE h == InsertPropIf(d.server, g, "$is_server")
<1>2. /\ IsRecord(h) /\ h.props = Under(g.props, ser)
      /\ DOMAIN h = DOMAIN g /\ \A f \in DOMAIN g \ {"props"} : h[f] = g[f]
  <2>1. CASE d.server
    <3>1. ser = Only("$is_server", True)
      BY <2>1 DEF Only
    <3> QED BY <1>1, <2>1, <3>1, DefaultedRecord DEF InsertPropIf
  <2>2. CASE ~d.server
    <3>1. DOMAIN ser = {}
      BY <2>2
    <3> HIDE DEF ser
    <3>2. Under(g.props, ser) = [k \in DOMAIN g.props |-> g.props[k]]
      BY <3>1 DEF Under
    <3> QED BY <1>1, <2>2, <3>2 DEF InsertPropIf, IsRecord
  <2> QED BY <2>1, <2>2
<1>3. Under(Under(e.props, geo), ser) = Under(e.props, CaptureDefaults(d))
  BY DEF Under, CaptureDefaults
<1>4. ApplyCaptureDefaults(e, d) = h
  BY DEF ApplyCaptureDefaults, g
<1> HIDE DEF h, geo, ser
<1> QED BY <1>1, <1>2, <1>3, <1>4

LEMMA RuntimeContextRecord ==
  ASSUME NEW e, IsRecord(e)
  PROVE  /\ IsRecord(ApplyRuntimeContext(e))
         /\ ApplyRuntimeContext(e).props = Under(e.props, RuntimeContext)
         /\ DOMAIN ApplyRuntimeContext(e) = DOMAIN e
         /\ \A f \in DOMAIN e \ {"props"} : ApplyRuntimeContext(e)[f] = e[f]
<1> DEFINE g == InsertPropDefault(e, "$os", Text("sdk"))
           h == InsertPropDefault(g, "$os_version", Text("sdk"))
           os == Only("$os", Text("sdk"))
           version == Only("$os_version", Text("sdk"))
<1>1. /\ IsRecord(g) /\ g.props = Under(e.props, os)
      /\ DOMAIN g = DOMAIN e /\ \A f \in DOMAIN e \ {"props"} : g[f] = e[f]
  BY DefaultedRecord
<1> HIDE DEF g
<1>2. /\ IsRecord(h) /\ h.props = Under(g.props, version)
      /\ DOMAIN h = DOMAIN g /\ \A f \in DOMAIN g \ {"props"} : h[f] = g[f]
  BY <1>1, DefaultedRecord
<1>3. Under(Under(e.props, os), version) = Under(e.props, RuntimeContext)
  BY DEF Under, Only, RuntimeContext
<1>4. ApplyRuntimeContext(e) = h
  BY DEF ApplyRuntimeContext, g
<1> HIDE DEF h, os, version
<1> QED BY <1>1, <1>2, <1>3, <1>4
-----------------------------------------------------------------------------
(* What hooks do, and what they leave. *)

Discards(hooks) == \E i \in DOMAIN hooks : hooks[i] \in {"drop", "panic"}
Renews(hooks) == \E i \in DOMAIN hooks : hooks[i] = "fresh"
Takes(hooks) == \E i \in DOMAIN hooks : hooks[i] \in {"strip", "fresh"}

\* The properties a hook sets.
HookProps(hook) ==
  CASE hook = "leak" -> Only("plan", Text("secret"))
    [] hook = "option" -> Only("$cookieless_mode", Text("1"))
    [] hook = "mistype" -> Only("$cookieless_mode", Text("maybe"))
    [] OTHER -> NoProps

LEMMA HookCases ==
  ASSUME NEW hook \in Hooks, NEW e
  PROVE  /\ hook = "keep" => HookResult(hook, e) = e /\ HookProps(hook) = NoProps
         /\ hook \in {"drop", "panic"} => HookResult(hook, e) = Dropped
         /\ hook = "leak" => /\ HookResult(hook, e) = InsertProp(e, "plan", Text("secret"))
                             /\ HookProps(hook) = Only("plan", Text("secret"))
         /\ hook = "option" =>
              /\ HookResult(hook, e) = InsertProp(e, "$cookieless_mode", Text("1"))
              /\ HookProps(hook) = Only("$cookieless_mode", Text("1"))
         /\ hook = "mistype" =>
              /\ HookResult(hook, e) = InsertProp(e, "$cookieless_mode", Text("maybe"))
              /\ HookProps(hook) = Only("$cookieless_mode", Text("maybe"))
         /\ hook = "strip" => HookResult(hook, e) = [e EXCEPT !.props = NoProps]
         /\ hook = "fresh" => HookResult(hook, e) = New("fresh")
BY Zenon DEF Hooks, HookResult, HookProps

\* Inserting over what is there.
LEMMA InsertedEvent ==
  ASSUME NEW e, IsEvent(e), NEW key, NEW value
  PROVE  LET r == InsertProp(e, key, value) IN
         /\ IsEvent(r) /\ r.id = e.id /\ r.groups = e.groups /\ r.timestamp = e.timestamp
         /\ r.minimal = e.minimal
         /\ r.props = Under(Only(key, value), e.props)
<1>1. With(e.props, key, value) = Under(Only(key, value), e.props)
  BY DEF With, Under, Only
<1>2. InsertProp(e, key, value).props = With(e.props, key, value)
  BY DEF IsEvent, InsertProp
<1>3. InsertProp(e, key, value).props
        = [k \in DOMAIN InsertProp(e, key, value).props |-> InsertProp(e, key, value).props[k]]
  BY <1>2 DEF With
<1> QED BY <1>1, <1>2, <1>3 DEF IsEvent, InsertProp

\* One hook that lets the event go on.
LEMMA HookStep ==
  ASSUME NEW hook \in Hooks \ {"drop", "panic"}, NEW e, IsEvent(e), e.id # "dropped"
  PROVE  LET r == HookResult(hook, e) IN
         /\ IsEvent(r) /\ r.id # "dropped"
         /\ hook # "fresh" =>
              /\ r.id = e.id /\ r.groups = e.groups /\ r.timestamp = e.timestamp
              /\ r.minimal = e.minimal
         /\ hook \notin {"strip", "fresh"} => r.props = Under(HookProps(hook), e.props)
<1>1. CASE hook = "keep"
  <2>1. Under(NoProps, e.props) = [k \in DOMAIN e.props |-> e.props[k]]
    BY DEF Under, NoProps
  <2> QED BY <1>1, <2>1, HookCases DEF IsEvent
<1>2. CASE hook \in {"leak", "option", "mistype"}
  BY <1>2, HookCases, InsertedEvent
<1>3. CASE hook = "strip"
  <2>1. HookResult(hook, e) = [e EXCEPT !.props = NoProps]
    BY <1>3, HookCases
  <2> QED BY <1>3, <2>1 DEF IsEvent, NoProps
<1>4. CASE hook = "fresh"
  <2>1. HookResult(hook, e) = New("fresh")
    BY <1>4, HookCases
  <2> QED BY <1>4, <2>1 DEF IsEvent, New, NoProps
<1> QED BY <1>1, <1>2, <1>3, <1>4 DEF Hooks

LEMMA DroppedEvent == Dropped.id = "dropped"
BY DEF Dropped, New

\* Hooks that keep the event leave it as it is.
LEMMA KeepersKeep ==
  ASSUME NEW hooks \in Seq(Hooks), NEW e, \A i \in DOMAIN hooks : hooks[i] = "keep"
  PROVE  ApplyBeforeSendHooks(hooks, e) = e
<1>1. PICK a : /\ a[0] = e /\ a[Len(hooks)] = ApplyBeforeSendHooks(hooks, e)
               /\ \A i \in 1..Len(hooks) : a[i] = After(hooks[i], a[i - 1])
  BY HooksRun
<1> DEFINE good == {i \in 0..Len(hooks) : a[i] = e}
<1>2. 0 \in good
  BY <1>1
<1>3. ASSUME NEW m \in 0..(Len(hooks) - 1), m \in good PROVE m + 1 \in good
  <2>1. a[m + 1] = After(hooks[m + 1], a[m]) /\ hooks[m + 1] = "keep" /\ a[m] = e
    BY <1>1, <1>3
  <2>2. After("keep", e) = e
    BY HookCases DEF After, Hooks
  <2> QED BY <2>1, <2>2
<1> HIDE DEF good
<1>4. Len(hooks) \in Nat /\ \A m \in 0..(Len(hooks) - 1) : m \in good => m + 1 \in good
  BY <1>3
<1>5. 0..Len(hooks) \subseteq good
  BY <1>2, <1>4, UpTo, Zenon
<1>6. Len(hooks) \in good
  BY <1>4, <1>5
<1> QED BY <1>1, <1>6 DEF good

\* An event is dropped by the hooks exactly when one of them drops it.
LEMMA HooksDiscard ==
  ASSUME NEW hooks \in Seq(Hooks), NEW e, IsEvent(e), e.id # "dropped"
  PROVE  LET r == ApplyBeforeSendHooks(hooks, e) IN
         /\ r = Dropped <=> Discards(hooks)
         /\ ~Discards(hooks) => IsEvent(r)
         /\ ~Discards(hooks) /\ ~Renews(hooks) =>
              /\ r.id = e.id /\ r.groups = e.groups /\ r.timestamp = e.timestamp
              /\ r.minimal = e.minimal
<1>1. PICK a : /\ a[0] = e /\ a[Len(hooks)] = ApplyBeforeSendHooks(hooks, e)
               /\ \A i \in 1..Len(hooks) : a[i] = After(hooks[i], a[i - 1])
  BY HooksRun
<1> DEFINE Going(i) == /\ IsEvent(a[i]) /\ a[i].id # "dropped"
                       /\ (\A j \in 1..i : hooks[j] # "fresh") =>
                            /\ a[i].id = e.id /\ a[i].groups = e.groups
                            /\ a[i].timestamp = e.timestamp /\ a[i].minimal = e.minimal
           Lost(i) == \E j \in 1..i : hooks[j] \in {"drop", "panic"}
           good == {i \in 0..Len(hooks) : IF Lost(i) THEN a[i] = Dropped ELSE Going(i)}
<1>0. DOMAIN hooks = 1..Len(hooks) /\ Len(hooks) \in Nat
  OBVIOUS
<1>2. 0 \in good
  BY <1>0, <1>1
<1>3. ASSUME NEW m \in 0..(Len(hooks) - 1), m \in good PROVE m + 1 \in good
  <2>0. m + 1 \in 1..Len(hooks) /\ m + 1 \in 0..Len(hooks) /\ (m + 1) - 1 = m
    BY <1>0
  <2>1. a[m + 1] = After(hooks[m + 1], a[m]) /\ hooks[m + 1] \in Hooks
    BY <1>0, <1>1, <2>0
  <2>2. 1..(m + 1) = 1..m \union {m + 1}
    BY <2>0
  <2>3. CASE Lost(m)
    <3>1. a[m] = Dropped /\ Lost(m + 1)
      BY <1>3, <2>2, <2>3
    <3>2. a[m + 1] = Dropped
      BY <2>1, <3>1 DEF After
    <3> HIDE DEF Lost, Going
    <3> QED BY <2>0, <3>1, <3>2
  <2>4. CASE ~Lost(m)
    <3>1. Going(m) /\ a[m] # Dropped
      BY <1>3, <2>4, DroppedEvent
    <3>2. a[m + 1] = HookResult(hooks[m + 1], a[m])
      BY <2>1, <3>1 DEF After
    <3>3. CASE hooks[m + 1] \in {"drop", "panic"}
      <4>1. a[m + 1] = Dropped /\ Lost(m + 1)
        BY <2>1, <2>2, <3>2, <3>3, HookCases
      <4> HIDE DEF Lost, Going
      <4> QED BY <2>0, <4>1
    <3>4. CASE hooks[m + 1] \notin {"drop", "panic"}
      <4>1. ~Lost(m + 1)
        BY <2>2, <2>4, <3>4
      <4>2. Going(m + 1)
        <5>1. /\ IsEvent(a[m + 1]) /\ a[m + 1].id # "dropped"
              /\ hooks[m + 1] # "fresh" =>
                   /\ a[m + 1].id = a[m].id /\ a[m + 1].groups = a[m].groups
                   /\ a[m + 1].timestamp = a[m].timestamp /\ a[m + 1].minimal = a[m].minimal
          BY <2>1, <3>1, <3>2, <3>4, HookStep
        <5>2. (\A j \in 1..(m + 1) : hooks[j] # "fresh") =>
                hooks[m + 1] # "fresh" /\ \A j \in 1..m : hooks[j] # "fresh"
          BY <2>2
        <5> QED BY <3>1, <5>1, <5>2
      <4> HIDE DEF Lost, Going
      <4> QED BY <2>0, <4>1, <4>2
    <3> QED BY <3>3, <3>4
  <2> QED BY <2>3, <2>4
<1>4. 0..Len(hooks) \subseteq good
  <2> HIDE DEF good
  <2> QED BY <1>0, <1>2, <1>3, UpTo
<1>5. IF Lost(Len(hooks)) THEN a[Len(hooks)] = Dropped ELSE Going(Len(hooks))
  <2>1. Len(hooks) \in good
    <3> HIDE DEF good
    <3> QED BY <1>0, <1>4
  <2> HIDE DEF Lost, Going
  <2> QED BY <2>1
<1> QED BY <1>0, <1>1, <1>5, DroppedEvent DEF Discards, Renews

SetOver(set, hooks, d, e) ==
  /\ DOMAIN set \subseteq {"plan", "$cookieless_mode"}
  /\ ApplyBeforeSendHooks(hooks, d).props = Under(set, d.props)
  /\ ApplyBeforeSendHooks(hooks, e).props = Under(set, e.props)

\* Of two events the same hooks, which take and drop nothing, make the same: they set the same
\* properties of both.
LEMMA HooksSet ==
  ASSUME NEW hooks \in Seq(Hooks), ~Discards(hooks), ~Takes(hooks),
         NEW d, IsEvent(d), d.id # "dropped", NEW e, IsEvent(e), e.id # "dropped"
  PROVE  \E set : SetOver(set, hooks, d, e)
<1> DEFINE n == Len(hooks)
           Own == {"plan", "$cookieless_mode"}
           Sets(s, a, b) == /\ s = [k \in DOMAIN s |-> s[k]] /\ DOMAIN s \subseteq Own
                            /\ IsEvent(a) /\ a.id # "dropped" /\ a.props = Under(s, d.props)
                            /\ IsEvent(b) /\ b.id # "dropped" /\ b.props = Under(s, e.props)
<1>1. PICK a : /\ a[0] = d /\ a[n] = ApplyBeforeSendHooks(hooks, d)
               /\ \A i \in 1..n : a[i] = After(hooks[i], a[i - 1])
  BY HooksRun
<1>2. PICK b : /\ b[0] = e /\ b[n] = ApplyBeforeSendHooks(hooks, e)
               /\ \A i \in 1..n : b[i] = After(hooks[i], b[i - 1])
  BY HooksRun
<1> DEFINE good == {i \in 0..n : \E s : Sets(s, a[i], b[i])}
<1>3. DOMAIN hooks = 1..n /\ n \in Nat
  OBVIOUS
<1>4. 0 \in good
  <2>1. Under(NoProps, d.props) = [k \in DOMAIN d.props |-> d.props[k]]
    BY DEF Under, NoProps
  <2>2. Under(NoProps, e.props) = [k \in DOMAIN e.props |-> e.props[k]]
    BY DEF Under, NoProps
  <2>3. NoProps = [k \in DOMAIN NoProps |-> NoProps[k]] /\ DOMAIN NoProps = {}
    BY DEF NoProps
  <2>4. d.props = [k \in DOMAIN d.props |-> d.props[k]] /\ e.props = [k \in DOMAIN e.props |-> e.props[k]]
    BY DEF IsEvent
  <2>5. Sets(NoProps, a[0], b[0])
    BY <1>1, <1>2, <2>1, <2>2, <2>3, <2>4
  <2> HIDE DEF Sets
  <2> QED BY <1>3, <2>5
<1>5. ASSUME NEW m \in 0..(n - 1), m \in good PROVE m + 1 \in good
  <2>0. m + 1 \in 1..n /\ m + 1 \in 0..n /\ (m + 1) - 1 = m
    BY <1>3
  <2> DEFINE hook == hooks[m + 1]
             h == HookProps(hook)
  <2>1. a[m + 1] = After(hook, a[m]) /\ b[m + 1] = After(hook, b[m])
    BY <1>1, <1>2, <2>0
  <2>2. hook \in Hooks \ {"drop", "panic"} /\ hook \notin {"strip", "fresh"}
    BY <1>3, <2>0 DEF Discards, Takes
  <2>3. PICK s : Sets(s, a[m], b[m])
    BY <1>5
  <2> HIDE DEF hook
  <2>4. a[m + 1] = HookResult(hook, a[m]) /\ b[m + 1] = HookResult(hook, b[m])
    BY <2>1, <2>3, DroppedEvent DEF After
  <2>5. /\ IsEvent(a[m + 1]) /\ a[m + 1].id # "dropped" /\ a[m + 1].props = Under(h, a[m].props)
        /\ IsEvent(b[m + 1]) /\ b[m + 1].id # "dropped" /\ b[m + 1].props = Under(h, b[m].props)
    BY <2>2, <2>3, <2>4, HookStep
  <2>6. DOMAIN h \subseteq Own
    <3>1. hook \in {"keep", "leak", "option", "mistype"}
      BY <2>2 DEF Hooks
    <3>2. h \in {NoProps, Only("plan", Text("secret")), Only("$cookieless_mode", Text("1")),
                 Only("$cookieless_mode", Text("maybe"))}
      BY <2>2, <3>1, HookCases
    <3> QED BY <3>2 DEF NoProps, Only
  <2> HIDE DEF h
  <2>7. /\ Under(h, Under(s, d.props)) = Under(Under(h, s), d.props)
        /\ Under(h, Under(s, e.props)) = Under(Under(h, s), e.props)
    BY DEF Under
  <2>8. /\ Under(h, s) = [k \in DOMAIN Under(h, s) |-> Under(h, s)[k]]
        /\ DOMAIN Under(h, s) \subseteq Own
    BY <2>3, <2>6 DEF Under
  <2>9. Sets(Under(h, s), a[m + 1], b[m + 1])
    BY <2>3, <2>5, <2>7, <2>8
  <2> HIDE DEF Sets
  <2> QED BY <2>0, <2>9
<1>6. 0..n \subseteq good
  <2> HIDE DEF good, n
  <2> QED BY <1>3, <1>4, <1>5, UpTo
<1>7. PICK s : Sets(s, a[n], b[n])
  <2>1. n \in good
    <3> HIDE DEF good, n
    <3> QED BY <1>3, <1>6
  <2> HIDE DEF Sets
  <2> QED BY <2>1
<1> QED BY <1>1, <1>2, <1>7 DEF SetOver
-----------------------------------------------------------------------------
(* Flattening. *)

\* f holds the first sequences, one after the other.
Flat(f, seqs, n) == f = [i \in 1..n |-> IF i = 1 THEN seqs[i] ELSE f[i - 1] \o seqs[i]]

LEMMA FlatDef ==
  ASSUME NEW seqs, Len(seqs) # 0
  PROVE  FlattenSeq(seqs) = (CHOOSE f : Flat(f, seqs, Len(seqs)))[Len(seqs)]
BY DEF FlattenSeq, Flat

LEMMA FlatExists ==
  ASSUME NEW seqs, NEW n \in Nat
  PROVE  \E f : Flat(f, seqs, n)
<1> DEFINE good == {m \in 0..n : \E f : Flat(f, seqs, m)}
<1>1. 0 \in good
  <2>1. Flat([i \in 1..0 |-> 0], seqs, 0)
    BY DEF Flat
  <2> QED BY <2>1
<1>2. ASSUME NEW m \in 0..(n - 1), m \in good
      PROVE  m + 1 \in good
  <2>1. PICK f : Flat(f, seqs, m)
    BY <1>2
  <2> DEFINE g == [i \in 1..(m + 1) |->
                     IF i <= m THEN f[i] ELSE IF m = 0 THEN seqs[1] ELSE f[m] \o seqs[m + 1]]
  <2>2. \A i \in 1..m : f[i] = IF i = 1 THEN seqs[i] ELSE f[i - 1] \o seqs[i]
    BY <2>1, Zenon DEF Flat
  <2>3. \A i \in 1..(m + 1) : g[i] = IF i = 1 THEN seqs[i] ELSE g[i - 1] \o seqs[i]
    <3>1. ASSUME NEW i \in 1..m
          PROVE  g[i] = IF i = 1 THEN seqs[i] ELSE g[i - 1] \o seqs[i]
      <4>1. g[i] = f[i] /\ (i # 1 => g[i - 1] = f[i - 1])
        OBVIOUS
      <4> HIDE DEF g
      <4> QED BY <2>2, <4>1
    <3>2. g[m + 1] = IF m = 0 THEN seqs[1] ELSE g[m] \o seqs[m + 1]
      OBVIOUS
    <3> HIDE DEF g
    <3> QED BY <3>1, <3>2
  <2>4. Flat(g, seqs, m + 1)
    <3>1. g = [i \in 1..(m + 1) |-> g[i]]
      OBVIOUS
    <3> HIDE DEF g
    <3>2. g = [i \in 1..(m + 1) |-> IF i = 1 THEN seqs[i] ELSE g[i - 1] \o seqs[i]]
      BY <2>3, <3>1, Zenon
    <3> QED BY <3>2 DEF Flat
  <2> HIDE DEF g
  <2> QED BY <2>4
<1> HIDE DEF good
<1>3. 0..n \subseteq good
  BY <1>1, <1>2, UpTo
<1> QED BY <1>3 DEF good

LEMMA Flattened ==
  ASSUME NEW seqs, Len(seqs) \in Nat \ {0}
  PROVE  \E f : /\ f[1] = seqs[1] /\ f[Len(seqs)] = FlattenSeq(seqs)
                /\ \A i \in 2..Len(seqs) : f[i] = f[i - 1] \o seqs[i]
<1> DEFINE n == Len(seqs)
           f == CHOOSE g : Flat(g, seqs, n)
<1>1. Flat(f, seqs, n)
  BY FlatExists
<1>2. f[n] = FlattenSeq(seqs)
  BY FlatDef
<1> HIDE DEF f
<1>3. \A i \in 1..n : f[i] = IF i = 1 THEN seqs[i] ELSE f[i - 1] \o seqs[i]
  BY <1>1, Zenon DEF Flat
<1>4. f[1] = seqs[1] /\ \A i \in 2..n : f[i] = f[i - 1] \o seqs[i]
  <2>1. n \in Nat \ {0}
    OBVIOUS
  <2> HIDE DEF n
  <2>2. 1 \in 1..n /\ \A i \in 2..n : i \in 1..n /\ i # 1
    BY <2>1
  <2> QED BY <1>3, <2>2
<1> QED BY <1>2, <1>4

\* A set of sequences that is closed under concatenation is closed under flattening.
LEMMA FlattenCloses ==
  ASSUME NEW C, <<>> \in C, \A s, t \in C : s \o t \in C,
         NEW seqs, Len(seqs) \in Nat, Len(seqs) = 0 => seqs = <<>>,
         \A i \in 1..Len(seqs) : seqs[i] \in C
  PROVE  FlattenSeq(seqs) \in C
<1> DEFINE n == Len(seqs)
<1>1. CASE n = 0
  BY <1>1 DEF FlattenSeq
<1>2. CASE n # 0
  <2>1. PICK f : f[1] = seqs[1] /\ f[n] = FlattenSeq(seqs) /\ \A i \in 2..n : f[i] = f[i - 1] \o seqs[i]
    BY <1>2, Flattened
  <2> DEFINE good == {i \in 0..n : i = 0 \/ f[i] \in C}
  <2>2. 0 \in good
    OBVIOUS
  <2>3. ASSUME NEW m \in 0..(n - 1), m \in good PROVE m + 1 \in good
    <3>1. CASE m = 0
      BY <2>1, <3>1
    <3>2. CASE m # 0
      <4>1. m + 1 \in 2..n /\ (m + 1) - 1 = m /\ m + 1 \in 1..n
        BY <3>2
      <4>2. f[m] \in C /\ seqs[m + 1] \in C /\ f[m + 1] = f[m] \o seqs[m + 1]
        BY <2>1, <2>3, <3>2, <4>1
      <4>3. f[m + 1] \in C
        BY <4>2
      <4> QED BY <4>1, <4>3
    <3> QED BY <3>1, <3>2
  <2>4. 0..n \subseteq good
    <3> HIDE DEF good
    <3> QED BY <2>2, <2>3, UpTo
  <2> QED BY <1>2, <2>1, <2>4
<1> QED BY <1>1, <1>2

\* Of a batch of one event, that event is left or nothing.
LEMMA OneSurvivor ==
  ASSUME NEW e
  PROVE  Survivors(<<e>>) = IF e = Dropped THEN <<>> ELSE <<e>>
<1> DEFINE kept == IF e = Dropped THEN <<>> ELSE <<e>>
           seqs == [i \in DOMAIN <<e>> |-> IF <<e>>[i] = Dropped THEN <<>> ELSE <<(<<e>>[i])>>]
<1>1. seqs = <<kept>>
  OBVIOUS
<1>2. Survivors(<<e>>) = FlattenSeq(seqs)
  BY DEF Survivors
<1> HIDE DEF kept, seqs
<1>3. Len(seqs) = 1 /\ seqs[1] = kept
  BY <1>1
<1>4. Len(seqs) \in Nat \ {0}
  BY <1>3
<1>5. PICK f : /\ f[1] = seqs[1] /\ f[Len(seqs)] = FlattenSeq(seqs)
               /\ \A i \in 2..Len(seqs) : f[i] = f[i - 1] \o seqs[i]
  BY <1>4, Flattened
<1> QED BY <1>2, <1>3, <1>5 DEF kept
-----------------------------------------------------------------------------
(* A batch of one event, as each build sends it. *)

Sane(d) == d.geoip \in BOOLEAN /\ d.server \in BOOLEAN

LEMMA EventRecord ==
  ASSUME NEW e, IsEvent(e)
  PROVE  IsRecord(e) /\ DOMAIN e = {"id", "props", "groups", "timestamp", "minimal"}
BY DEF IsEvent, IsRecord

\* A record with the fields and the properties of an event is one.
LEMMA SameEvent ==
  ASSUME NEW e, IsEvent(e), NEW r, IsRecord(r), DOMAIN r = DOMAIN e,
         \A f \in DOMAIN e \ {"props"} : r[f] = e[f]
  PROVE  /\ IsEvent(r) /\ r.id = e.id /\ r.groups = e.groups /\ r.timestamp = e.timestamp
         /\ r.minimal = e.minimal
<1>1. DOMAIN r = {"id", "props", "groups", "timestamp", "minimal"}
  BY EventRecord
<1>2. r = [f \in DOMAIN r |-> r[f]] /\ r.props = [k \in DOMAIN r.props |-> r.props[k]]
  BY DEF IsRecord
<1>3. r = [id |-> r.id, props |-> r.props, groups |-> r.groups, timestamp |-> r.timestamp,
           minimal |-> r.minimal]
  BY <1>1, <1>2
<1> QED BY <1>1, <1>2, <1>3 DEF IsEvent

\* The metadata of V0, and the version's parts.
Library == [k \in {"$lib", "$lib_version"} |-> Text("sdk")]
VersionParts ==
  [k \in {"$lib_version__major", "$lib_version__minor", "$lib_version__patch"} |-> Number("sdk")]

Grouped(props, groups) ==
  IF groups = {} THEN props ELSE Under(Only("$groups", GroupsObject(groups)), props)

\* The properties prepare_for_v0 makes of those it is given.
V0Props(props, groups) ==
  LET lib == Under(props, Library)
  IN  Grouped(IF "$lib_version__major" \in DOMAIN lib THEN lib ELSE Under(VersionParts, lib),
              groups)

LEMMA GroupedWith ==
  ASSUME NEW props, NEW groups
  PROVE  Grouped(props, groups)
           = IF groups = {} THEN props ELSE With(props, "$groups", GroupsObject(groups))
<1>1. With(props, "$groups", GroupsObject(groups))
        = Under(Only("$groups", GroupsObject(groups)), props)
  BY DEF With, Under, Only
<1> QED BY <1>1 DEF Grouped

LEMMA PreparedForV0 ==
  ASSUME NEW e, IsEvent(e)
  PROVE  LET r == PrepareForV0(e) IN
         /\ IsEvent(r) /\ r.id = e.id /\ r.groups = e.groups /\ r.timestamp = e.timestamp
         /\ r.minimal = e.minimal /\ r.props = V0Props(e.props, e.groups)
<1> DEFINE one == InsertPropDefault(e, "$lib", Text("sdk"))
           lib == InsertPropDefault(one, "$lib_version", Text("sdk"))
           parts == {"$lib_version__major", "$lib_version__minor", "$lib_version__patch"}
           versioned == IF "$lib_version__major" \in DOMAIN lib.props THEN lib.props
                        ELSE [k \in DOMAIN lib.props \union parts |->
                                IF k \in parts THEN Number("sdk") ELSE lib.props[k]]
           props == IF lib.groups = {} THEN versioned
                    ELSE With(versioned, "$groups", GroupsObject(lib.groups))
<1>0. PrepareForV0(e) = [lib EXCEPT !.props = props]
  BY DEF PrepareForV0
<1>1. /\ IsRecord(one) /\ one.props = Under(e.props, Only("$lib", Text("sdk")))
      /\ DOMAIN one = DOMAIN e /\ \A f \in DOMAIN e \ {"props"} : one[f] = e[f]
  BY EventRecord, DefaultedRecord
<1> HIDE DEF one
<1>2. /\ IsRecord(lib) /\ lib.props = Under(one.props, Only("$lib_version", Text("sdk")))
      /\ DOMAIN lib = DOMAIN one /\ \A f \in DOMAIN one \ {"props"} : lib[f] = one[f]
  BY <1>1, DefaultedRecord
<1> HIDE DEF lib
<1>3. Under(Under(e.props, Only("$lib", Text("sdk"))), Only("$lib_version", Text("sdk")))
        = Under(e.props, Library)
  BY DEF Under, Only, Library
<1>4. lib.props = Under(e.props, Library)
  BY <1>1, <1>2, <1>3
<1>5. versioned = IF "$lib_version__major" \in DOMAIN lib.props THEN lib.props
                  ELSE Under(VersionParts, lib.props)
  <2>1. [k \in DOMAIN lib.props \union parts |->
           IF k \in parts THEN Number("sdk") ELSE lib.props[k]] = Under(VersionParts, lib.props)
    BY DEF Under, VersionParts
  <2> QED BY <2>1
<1>6. /\ IsEvent(lib) /\ lib.id = e.id /\ lib.groups = e.groups /\ lib.timestamp = e.timestamp
      /\ lib.minimal = e.minimal
  BY <1>1, <1>2, EventRecord, SameEvent
<1>7. versioned = [k \in DOMAIN versioned |-> versioned[k]]
  BY <1>6 DEF IsEvent
<1> HIDE DEF versioned
<1>8. props = V0Props(e.props, e.groups)
  BY <1>4, <1>5, <1>6, GroupedWith DEF V0Props
<1>9. props = [k \in DOMAIN props |-> props[k]]
  BY <1>7 DEF With
<1> HIDE DEF props
<1> QED BY <1>0, <1>6, <1>8, <1>9 DEF IsEvent

\* What a hook of V0 is given.
PreparedProps(e, d) ==
  V0Props(Under(Under(e.props, CaptureDefaults(d)), RuntimeContext), e.groups)

LEMMA Prepared ==
  ASSUME NEW e, IsEvent(e), NEW d, Sane(d)
  PROVE  LET r == PrepareEvent(e, d) IN
         /\ IsEvent(r) /\ r.id = e.id /\ r.groups = e.groups /\ r.timestamp = e.timestamp
         /\ r.minimal = e.minimal /\ r.props = PreparedProps(e, d)
<1> DEFINE one == ApplyCaptureDefaults(e, d)
           two == ApplyRuntimeContext(one)
<1>1. /\ IsRecord(one) /\ one.props = Under(e.props, CaptureDefaults(d))
      /\ DOMAIN one = DOMAIN e /\ \A f \in DOMAIN e \ {"props"} : one[f] = e[f]
  BY EventRecord, CaptureDefaultsRecord DEF Sane
<1> HIDE DEF one
<1>2. /\ IsRecord(two) /\ two.props = Under(one.props, RuntimeContext)
      /\ DOMAIN two = DOMAIN one /\ \A f \in DOMAIN one \ {"props"} : two[f] = one[f]
  BY <1>1, RuntimeContextRecord
<1>3. PrepareEvent(e, d) = PrepareForV0(two)
  BY DEF PrepareEvent, one
<1> HIDE DEF two
<1>4. /\ IsEvent(two) /\ two.id = e.id /\ two.groups = e.groups /\ two.timestamp = e.timestamp
      /\ two.minimal = e.minimal
  BY <1>1, <1>2, EventRecord, SameEvent
<1>5. two.props = Under(Under(e.props, CaptureDefaults(d)), RuntimeContext)
  BY <1>1, <1>2
<1> QED BY <1>3, <1>4, <1>5, PreparedForV0 DEF PreparedProps

LEMMA Captured ==
  ASSUME NEW e, IsEvent(e), NEW d, Sane(d)
  PROVE  LET r == ApplyCaptureDefaults(e, d) IN
         /\ IsEvent(r) /\ r.id = e.id /\ r.groups = e.groups /\ r.timestamp = e.timestamp
         /\ r.minimal = e.minimal /\ r.props = Under(e.props, CaptureDefaults(d))
BY EventRecord, CaptureDefaultsRecord, SameEvent DEF Sane

LEMMA BatchV0 ==
  ASSUME NEW e, IsEvent(e), e.id # "dropped", NEW d, Sane(d), NEW hooks \in Seq(Hooks)
  PROVE  BuildBatchPayload(<<e>>, d, hooks)
           = IF Discards(hooks) THEN <<>>
             ELSE <<InnerEvent(ApplyBeforeSendHooks(hooks, PrepareEvent(e, d)))>>
<1> DEFINE r == ApplyBeforeSendHooks(hooks, PrepareEvent(e, d))
           prepared == [i \in DOMAIN <<e>> |-> ApplyBeforeSendHooks(hooks, PrepareEvent(<<e>>[i], d))]
           kept == Survivors(prepared)
<1>1. prepared = <<r>>
  OBVIOUS
<1>2. r = Dropped <=> Discards(hooks)
  BY Prepared, HooksDiscard
<1>3. BuildBatchPayload(<<e>>, d, hooks) = [i \in DOMAIN kept |-> InnerEvent(kept[i])]
  BY DEF BuildBatchPayload
<1>4. kept = IF r = Dropped THEN <<>> ELSE <<r>>
  <2> HIDE DEF prepared
  <2> QED BY <1>1, OneSurvivor
<1> HIDE DEF r, prepared, kept
<1>5. CASE r = Dropped
  <2>1. [i \in DOMAIN kept |-> InnerEvent(kept[i])] = <<>>
    BY <1>4, <1>5
  <2> QED BY <1>2, <1>3, <1>5, <2>1
<1>6. CASE r # Dropped
  <2>1. [i \in DOMAIN kept |-> InnerEvent(kept[i])] = <<InnerEvent(r)>>
    BY <1>4, <1>6
  <2> QED BY <1>2, <1>3, <1>6, <2>1 DEF r
<1> QED BY <1>5, <1>6

\* The properties that leave a V1 event, and the options they become.
Moved == Lifted \union {"$session_id", "$window_id"}
Coerced(o, props) ==
  CoerceOption(OptionsExtraction[o].kind, props[OptionsExtraction[o].from])
OptionsIn(props) ==
  [o \in {p \in DOMAIN OptionsExtraction : /\ OptionsExtraction[p].from \in DOMAIN props
                                           /\ Coerced(p, props) # Uninterpretable}
     |-> Coerced(o, props)]
Allowed(props, minimal) == IF minimal THEN Minimized(props) ELSE props

\* What is sent of an event the hooks let pass, over V1.
EventV1(r, d, now) ==
  LET v1 == FromEventAt(ApplyRuntimeContext(r), now)
      full == ApplyCaptureDefaults(v1, d)
  IN  IF r.minimal THEN [full EXCEPT !.props = Minimized(@)] ELSE full

LEMMA FromEvent ==
  ASSUME NEW e, IsEvent(e), NEW now
  PROVE  LET r == FromEventAt(e, now)
             g == Grouped(e.props, e.groups)
         IN  /\ IsRecord(r)
             /\ DOMAIN r = {"id", "props", "options", "session_id", "window_id", "timestamp"}
             /\ r.props = Without(g, Moved) /\ r.options = OptionsIn(g)
             /\ r.session_id = TextIn(g, "$session_id") /\ r.window_id = TextIn(g, "$window_id")
             /\ r.timestamp = IF e.timestamp = "none" THEN now ELSE e.timestamp
<1> DEFINE g == IF e.groups = {} THEN e.props ELSE With(e.props, "$groups", GroupsObject(e.groups))
           from == [o \in DOMAIN OptionsExtraction |-> OptionsExtraction[o].from]
           coerced(o) == CoerceOption(OptionsExtraction[o].kind, g[from[o]])
           options == {o \in DOMAIN from : from[o] \in DOMAIN g /\ coerced(o) # Uninterpretable}
           r == FromEventAt(e, now)
<1>1. g = Grouped(e.props, e.groups)
  BY GroupedWith
<1>2. r = [id |-> e.id, props |-> Without(g, Moved), options |-> [o \in options |-> coerced(o)],
           session_id |-> TextIn(g, "$session_id"), window_id |-> TextIn(g, "$window_id"),
           timestamp |-> IF e.timestamp = "none" THEN now ELSE e.timestamp]
  BY DEF FromEventAt, Moved
<1> HIDE DEF g
<1>3. [o \in options |-> coerced(o)] = OptionsIn(g)
  <2> DEFINE chosen == {p \in DOMAIN OptionsExtraction : /\ OptionsExtraction[p].from \in DOMAIN g
                                                        /\ Coerced(p, g) # Uninterpretable}
  <2>1. \A o \in DOMAIN OptionsExtraction : coerced(o) = Coerced(o, g)
    BY DEF Coerced
  <2>2. options = chosen
    BY <2>1
  <2>3. \A o \in options : coerced(o) = Coerced(o, g)
    BY <2>1
  <2> HIDE DEF options, coerced, from
  <2>4. [o \in options |-> coerced(o)] = [o \in options |-> Coerced(o, g)]
    BY <2>3, Zenon
  <2> QED BY <2>2, <2>4 DEF OptionsIn
<1> HIDE DEF r, options, coerced, from
<1>4. r.props = [k \in DOMAIN r.props |-> r.props[k]]
  BY <1>2 DEF Without
<1> QED BY <1>1, <1>2, <1>3, <1>4 DEF IsRecord, r

LEMMA BatchV1 ==
  ASSUME NEW e, IsEvent(e), e.id # "dropped", NEW d, Sane(d), NEW hooks \in Seq(Hooks), NEW now
  PROVE  PrepareImmediate(<<e>>, d, hooks, now)
           = IF Discards(hooks) THEN <<>>
             ELSE <<EventV1(ApplyBeforeSendHooks(hooks, ApplyCaptureDefaults(e, d)), d, now)>>
<1> DEFINE r == ApplyBeforeSendHooks(hooks, ApplyCaptureDefaults(e, d))
           sent == [i \in DOMAIN <<e>> |-> ApplyBeforeSendHooks(hooks, ApplyCaptureDefaults(<<e>>[i], d))]
           kept == Survivors(sent)
<1>1. sent = <<r>>
  OBVIOUS
<1>2. r = Dropped <=> Discards(hooks)
  BY Captured, HooksDiscard
<1>3. PrepareImmediate(<<e>>, d, hooks, now) = BuildEventsAt(kept, d, now)
  BY DEF PrepareImmediate
<1>4. kept = IF r = Dropped THEN <<>> ELSE <<r>>
  <2> HIDE DEF sent
  <2> QED BY <1>1, OneSurvivor
<1> HIDE DEF r, sent, kept
<1>5. BuildEventsAt(kept, d, now) = [i \in DOMAIN kept |-> EventV1(kept[i], d, now)]
  BY DEF BuildEventsAt, EventV1
<1>6. CASE r = Dropped
  <2>1. [i \in DOMAIN kept |-> EventV1(kept[i], d, now)] = <<>>
    BY <1>4, <1>6
  <2> QED BY <1>2, <1>3, <1>5, <1>6, <2>1
<1>7. CASE r # Dropped
  <2>1. [i \in DOMAIN kept |-> EventV1(kept[i], d, now)] = <<EventV1(r, d, now)>>
    BY <1>4, <1>7
  <2> QED BY <1>2, <1>3, <1>5, <1>7, <2>1 DEF r
<1> QED BY <1>6, <1>7

LEMMA SentV1 ==
  ASSUME NEW r, IsEvent(r), NEW d, Sane(d), NEW now
  PROVE  LET s == EventV1(r, d, now)
             g == Grouped(Under(r.props, RuntimeContext), r.groups)
         IN  /\ s.timestamp = IF r.timestamp = "none" THEN now ELSE r.timestamp
             /\ s.options = OptionsIn(g)
             /\ s.session_id = TextIn(g, "$session_id") /\ s.window_id = TextIn(g, "$window_id")
             /\ s.props = Allowed(Under(Without(g, Moved), CaptureDefaults(d)), r.minimal)
<1> DEFINE c == ApplyRuntimeContext(r)
           g == Grouped(Under(r.props, RuntimeContext), r.groups)
           v == FromEventAt(c, now)
           full == ApplyCaptureDefaults(v, d)
           s == EventV1(r, d, now)
<1>1. /\ IsRecord(c) /\ c.props = Under(r.props, RuntimeContext)
      /\ DOMAIN c = DOMAIN r /\ \A f \in DOMAIN r \ {"props"} : c[f] = r[f]
  BY EventRecord, RuntimeContextRecord
<1>2. IsEvent(c) /\ c.groups = r.groups /\ c.timestamp = r.timestamp
  <2> HIDE DEF c
  <2> QED BY <1>1, SameEvent
<1> HIDE DEF c
<1>3. /\ IsRecord(v)
      /\ DOMAIN v = {"id", "props", "options", "session_id", "window_id", "timestamp"}
      /\ v.props = Without(g, Moved) /\ v.options = OptionsIn(g)
      /\ v.session_id = TextIn(g, "$session_id") /\ v.window_id = TextIn(g, "$window_id")
      /\ v.timestamp = IF r.timestamp = "none" THEN now ELSE r.timestamp
  BY <1>1, <1>2, FromEvent
<1> HIDE DEF v, g
<1>4. /\ IsRecord(full) /\ full.props = Under(v.props, CaptureDefaults(d))
      /\ DOMAIN full = DOMAIN v /\ \A f \in DOMAIN v \ {"props"} : full[f] = v[f]
  BY <1>3, CaptureDefaultsRecord DEF Sane
<1>5. s = IF r.minimal THEN [full EXCEPT !.props = Minimized(@)] ELSE full
  BY DEF EventV1, v, c
<1> HIDE DEF full, s
<1>6. /\ s.timestamp = full.timestamp /\ s.options = full.options
      /\ s.session_id = full.session_id /\ s.window_id = full.window_id
      /\ s.props = Allowed(full.props, r.minimal)
  BY <1>3, <1>4, <1>5 DEF IsRecord, Allowed
<1>7. /\ full.timestamp = v.timestamp /\ full.options = v.options
      /\ full.session_id = v.session_id /\ full.window_id = v.window_id
  BY <1>3, <1>4
<1> QED BY <1>3, <1>4, <1>6, <1>7 DEF g, s
-----------------------------------------------------------------------------
(* The events there are. *)

LEMMA FreshEvent ==
  ASSUME NEW id
  PROVE  /\ IsEvent(New(id)) /\ IsEvent(NewAnon(id))
         /\ New(id).id = id /\ New(id).timestamp = "none" /\ New(id).minimal = FALSE
         /\ New(id).groups = {} /\ New(id).props = NoProps
         /\ NewAnon(id).id = id /\ NewAnon(id).timestamp = "none" /\ NewAnon(id).minimal = FALSE
         /\ NewAnon(id).groups = {} /\ NewAnon(id).props = Only(ProcessPerson, Boolean("false"))
<1>1. With(NoProps, ProcessPerson, Boolean("false")) = Only(ProcessPerson, Boolean("false"))
  BY DEF With, NoProps, Only
<1> DEFINE p == Only(ProcessPerson, Boolean("false"))
<1>2. NewAnon(id) = [New(id) EXCEPT !.props = p]
  BY <1>1 DEF NewAnon
<1>3. p = [k \in DOMAIN p |-> p[k]]
  BY DEF Only
<1>4. NoProps = [k \in DOMAIN NoProps |-> NoProps[k]]
  BY DEF NoProps
<1> HIDE DEF p
<1>5. NewAnon(id) = [id |-> id, props |-> p, groups |-> {}, timestamp |-> "none", minimal |-> FALSE]
  BY <1>2 DEF New
<1>6. IsEvent(NewAnon(id))
  BY <1>3, <1>5 DEF IsEvent
<1>7. IsEvent(New(id))
  BY <1>4 DEF New, IsEvent
<1> QED BY <1>5, <1>6, <1>7 DEF New, p

\* New properties and groups.
LEMMA RegroupedEvent ==
  ASSUME NEW e, IsEvent(e), NEW p, NEW g
  PROVE  [e EXCEPT !.props = p, !.groups = g]
           = [id |-> e.id, props |-> p, groups |-> g, timestamp |-> e.timestamp,
              minimal |-> e.minimal]
<1> DEFINE r == [e EXCEPT !.props = p, !.groups = g]
<1>1. r = [f \in DOMAIN r |-> r[f]] /\ DOMAIN r = {"id", "props", "groups", "timestamp", "minimal"}
  BY DEF IsEvent
<1>2. /\ r.id = e.id /\ r.props = p /\ r.groups = g /\ r.timestamp = e.timestamp
      /\ r.minimal = e.minimal
  BY DEF IsEvent
<1> HIDE DEF r
<1>3. r = [id |-> e.id, props |-> p, groups |-> g, timestamp |-> e.timestamp,
           minimal |-> e.minimal]
  BY <1>1, <1>2
<1> QED BY <1>3 DEF r

\* What the caller may do with an event.
LEMMA CallerOps ==
  ASSUME NEW e, IsEvent(e), NEW key, NEW value, NEW group, NEW time \in {"past", "future"}
  PROVE  /\ \A r \in {InsertProp(e, key, value), RemoveProp(e, key), AddGroup(e, group)} :
              IsEvent(r) /\ r.id = e.id /\ r.timestamp = e.timestamp /\ r.minimal = e.minimal
         /\ LET r == SetTimestamp(e, time) IN
              IsEvent(r) /\ r.id = e.id /\ r.minimal = e.minimal /\ r.timestamp \in {e.timestamp, "past"}
<1>1. LET r == RemoveProp(e, key) IN
      IsEvent(r) /\ r.id = e.id /\ r.timestamp = e.timestamp /\ r.minimal = e.minimal
  BY DEF RemoveProp, IsEvent, Without
<1>2. LET r == AddGroup(e, group) IN
      IsEvent(r) /\ r.id = e.id /\ r.timestamp = e.timestamp /\ r.minimal = e.minimal
  <2> DEFINE p == With(e.props, ProcessPerson, True)
             g == e.groups \union {group}
             r == AddGroup(e, group)
  <2>1. r = [id |-> e.id, props |-> p, groups |-> g, timestamp |-> e.timestamp,
             minimal |-> e.minimal]
    BY RegroupedEvent DEF AddGroup
  <2>2. p = [k \in DOMAIN p |-> p[k]]
    BY DEF With
  <2> HIDE DEF p, g, r
  <2> QED BY <2>1, <2>2 DEF IsEvent, r
<1>3. LET r == SetTimestamp(e, time) IN
      IsEvent(r) /\ r.id = e.id /\ r.minimal = e.minimal /\ r.timestamp \in {e.timestamp, "past"}
  BY DEF SetTimestamp, IsEvent
<1> QED BY <1>1, <1>2, <1>3, InsertedEvent

LEMMA StampedEvent ==
  ASSUME NEW e, IsEvent(e)
  PROVE  LET r == EnsureTimestamp(e, "enqueued") IN
         /\ IsEvent(r) /\ r.id = e.id /\ r.groups = e.groups /\ r.props = e.props
         /\ r.minimal = e.minimal /\ r.timestamp = IF e.timestamp = "none" THEN "enqueued" ELSE e.timestamp
BY DEF EnsureTimestamp, IsEvent

LEMMA FlagEvent ==
  ASSUME NEW minimal \in BOOLEAN, NEW geoip \in BOOLEAN, NEW server \in BOOLEAN, NEW groups
  PROVE  LET r == FlagCalledEvent("called", minimal, groups, geoip, server) IN
         IsEvent(r) /\ r.id = "called" /\ r.timestamp = "none" /\ r.minimal = minimal
<1> DEFINE full == [New("called") EXCEPT !.minimal = minimal,
                      !.props = With(With(NoProps, "$feature_flag", Text("flag")),
                                     "$feature/flag", True)]
           grouped == IF groups = {} THEN full
                      ELSE [full EXCEPT !.groups = groups, !.props = With(@, ProcessPerson, True)]
           d == [geoip |-> geoip, server |-> server]
<1>1. IsEvent(full) /\ full.id = "called" /\ full.timestamp = "none" /\ full.minimal = minimal
  <2> DEFINE p == With(With(NoProps, "$feature_flag", Text("flag")), "$feature/flag", True)
  <2>1. p = [k \in DOMAIN p |-> p[k]]
    BY DEF With
  <2> HIDE DEF p
  <2> DEFINE r == [New("called") EXCEPT !.minimal = minimal, !.props = p]
  <2>2. /\ r = [f \in DOMAIN r |-> r[f]] /\ DOMAIN r = {"id", "props", "groups", "timestamp", "minimal"}
        /\ r.id = "called" /\ r.props = p /\ r.groups = {} /\ r.timestamp = "none"
        /\ r.minimal = minimal
    BY DEF New
  <2>3. full = r
    BY DEF p
  <2> HIDE DEF r, full
  <2>4. full = [id |-> "called", props |-> p, groups |-> {}, timestamp |-> "none", minimal |-> minimal]
    BY <2>2, <2>3
  <2> QED BY <2>1, <2>4 DEF IsEvent
<1> HIDE DEF full
<1>2. IsEvent(grouped) /\ grouped.id = "called" /\ grouped.timestamp = "none" /\ grouped.minimal = minimal
  <2> DEFINE p == With(full.props, ProcessPerson, True)
             r == [full EXCEPT !.groups = groups, !.props = With(@, ProcessPerson, True)]
  <2>1. p = [k \in DOMAIN p |-> p[k]]
    BY DEF With
  <2>2. r = [full EXCEPT !.props = p, !.groups = groups]
    BY <1>1 DEF IsEvent
  <2> HIDE DEF p, r
  <2>3. r = [id |-> full.id, props |-> p, groups |-> groups, timestamp |-> full.timestamp,
             minimal |-> full.minimal]
    BY <1>1, <2>2, RegroupedEvent
  <2>4. IsEvent(r) /\ r.id = "called" /\ r.timestamp = "none" /\ r.minimal = minimal
    BY <1>1, <2>1, <2>3 DEF IsEvent
  <2> QED BY <1>1, <2>4 DEF r
<1>3. FlagCalledEvent("called", minimal, groups, geoip, server) = ApplyCaptureDefaults(grouped, d)
  BY DEF FlagCalledEvent, full
<1>4. Sane(d)
  BY DEF Sane
<1> HIDE DEF grouped, d
<1> QED BY <1>2, <1>3, <1>4, Captured

\* The reserved properties over whatever the event has.
LEMMA Written ==
  ASSUME NEW x, NEW e, IsEvent(e), NEW options
  PROVE  LET r == WriteInto(x, e, options)
             frames == TrimToMaxFrames(Classified(x.frames, options), MaxFrames)
             images == ReferencedImages(ReferencedImages(Modules, x.frames), frames)
         IN  /\ IsEvent(r) /\ r.id = e.id /\ r.timestamp = e.timestamp /\ r.minimal = e.minimal
             /\ Has(r.props, "$exception_list",
                    [type |-> "exceptions", items |-> x.items, traced |-> x.traced, frames |-> frames])
             /\ Has(r.props, "$exception_level", Text(x.level))
             /\ x.fingerprint # "none" =>
                  Has(r.props, "$exception_fingerprint", Text(x.fingerprint))
             /\ IF images = {}
                THEN "$debug_images" \in DOMAIN r.props =>
                       Has(e.props, "$debug_images", r.props["$debug_images"])
                ELSE Has(r.props, "$debug_images", [type |-> "images", images |-> images])
<1> DEFINE frames == TrimToMaxFrames(Classified(x.frames, options), MaxFrames)
           images == ReferencedImages(ReferencedImages(Modules, x.frames), frames)
           list == [type |-> "exceptions", items |-> x.items, traced |-> x.traced, frames |-> frames]
           shown == [type |-> "images", images |-> images]
           levelled == InsertProp(e, "$exception_level", Text(x.level))
           printed == IF x.fingerprint = "none" THEN levelled
                      ELSE InsertProp(levelled, "$exception_fingerprint", Text(x.fingerprint))
           imaged == IF images = {} THEN printed ELSE InsertProp(printed, "$debug_images", shown)
           Like(a, b) == IsEvent(a) /\ a.id = b.id /\ a.timestamp = b.timestamp /\ a.minimal = b.minimal
<1>0. WriteInto(x, e, options) = InsertProp(imaged, "$exception_list", list)
  BY DEF WriteInto
<1> HIDE DEF frames, images, list, shown
<1>1. Like(levelled, e) /\ levelled.props = Under(Only("$exception_level", Text(x.level)), e.props)
  BY InsertedEvent
<1> HIDE DEF levelled
<1>2. /\ Like(printed, e)
      /\ printed.props = IF x.fingerprint = "none" THEN levelled.props
                         ELSE Under(Only("$exception_fingerprint", Text(x.fingerprint)), levelled.props)
  BY <1>1, InsertedEvent
<1> HIDE DEF printed
<1>3. /\ Like(imaged, e)
      /\ imaged.props = IF images = {} THEN printed.props ELSE Under(Only("$debug_images", shown), printed.props)
  BY <1>2, InsertedEvent
<1> HIDE DEF imaged
<1> DEFINE r == InsertProp(imaged, "$exception_list", list)
<1>4. Like(r, e) /\ r.props = Under(Only("$exception_list", list), imaged.props)
  BY <1>3, InsertedEvent
<1> HIDE DEF r
<1> DEFINE Says(props) ==
             /\ Has(props, "$exception_level", Text(x.level))
             /\ x.fingerprint # "none" => Has(props, "$exception_fingerprint", Text(x.fingerprint))
           Given(props) ==
             "$debug_images" \in DOMAIN props => Has(e.props, "$debug_images", props["$debug_images"])
<1>5. Says(printed.props) /\ Given(printed.props)
  <2>1. Has(levelled.props, "$exception_level", Text(x.level)) /\ Given(levelled.props)
    BY <1>1 DEF Under, Only, Has
  <2> QED BY <1>2, <2>1 DEF Under, Only, Has
<1>6. /\ Says(imaged.props)
      /\ IF images = {} THEN Given(imaged.props) ELSE Has(imaged.props, "$debug_images", shown)
  BY <1>3, <1>5 DEF Under, Only, Has
<1>7. /\ Says(r.props) /\ Has(r.props, "$exception_list", list)
      /\ IF images = {} THEN Given(r.props) ELSE Has(r.props, "$debug_images", shown)
  BY <1>4, <1>6 DEF Under, Only, Has
<1> QED BY <1>0, <1>4, <1>7 DEF r, list, shown, frames, images

\* The event of an error, before the report is written into it.
Reporting(context) ==
  LET personal == IF context.person THEN New("exception") ELSE NewAnon("exception")
      said == [personal EXCEPT !.props = [k \in DOMAIN @ \union DOMAIN context.props |->
                 IF k \in DOMAIN context.props THEN context.props[k] ELSE @[k]]]
  IN  IF context.groups = {} THEN said
      ELSE [said EXCEPT !.groups = context.groups, !.props = With(@, ProcessPerson, True)]

LEMMA ReportingEvent ==
  ASSUME NEW context
  PROVE  LET r == Reporting(context) IN
         /\ IsEvent(r) /\ r.id = "exception" /\ r.timestamp = "none" /\ r.minimal = FALSE
         /\ "$debug_images" \in DOMAIN r.props =>
              Has(context.props, "$debug_images", r.props["$debug_images"])
<1> DEFINE personal == IF context.person THEN New("exception") ELSE NewAnon("exception")
           all == [k \in DOMAIN personal.props \union DOMAIN context.props |->
                     IF k \in DOMAIN context.props THEN context.props[k] ELSE personal.props[k]]
           said == [personal EXCEPT !.props = all]
<1>1. /\ IsEvent(personal) /\ personal.id = "exception" /\ personal.timestamp = "none"
      /\ personal.minimal = FALSE /\ DOMAIN personal.props \subseteq {ProcessPerson}
  BY FreshEvent DEF Only, NoProps
<1> HIDE DEF personal
<1> DEFINE Given(props) ==
             /\ props = [k \in DOMAIN props |-> props[k]]
             /\ "$debug_images" \in DOMAIN props =>
                  Has(context.props, "$debug_images", props["$debug_images"])
<1>0. ProcessPerson # "$debug_images"
  BY DEF ProcessPerson
<1>2. Given(all)
  BY <1>0, <1>1 DEF Has
<1> HIDE DEF all
<1>3. /\ IsEvent(said) /\ said.id = "exception" /\ said.timestamp = "none" /\ said.minimal = FALSE
      /\ said.props = all
  BY <1>1, <1>2 DEF IsEvent
<1>4. Reporting(context)
        = IF context.groups = {} THEN said
          ELSE [said EXCEPT !.groups = context.groups, !.props = With(@, ProcessPerson, True)]
  BY DEF Reporting, personal, all
<1> HIDE DEF said
<1> DEFINE p == With(said.props, ProcessPerson, True)
           r == [said EXCEPT !.groups = context.groups, !.props = With(@, ProcessPerson, True)]
<1>5. Given(p)
  BY <1>0, <1>2, <1>3 DEF With, Has
<1>6. r = [said EXCEPT !.props = p, !.groups = context.groups]
  BY <1>3 DEF IsEvent
<1> HIDE DEF p, r
<1>7. r = [id |-> said.id, props |-> p, groups |-> context.groups, timestamp |-> said.timestamp,
           minimal |-> said.minimal]
  BY <1>3, <1>6, RegroupedEvent
<1>8. /\ IsEvent(r) /\ r.id = "exception" /\ r.timestamp = "none" /\ r.minimal = FALSE
      /\ r.props = p
  BY <1>3, <1>5, <1>7 DEF IsEvent
<1> QED BY <1>2, <1>3, <1>4, <1>5, <1>8 DEF r
-----------------------------------------------------------------------------
(* What both builds send. *)

Lib == {"$lib", "$lib_version", "$lib_version__major", "$lib_version__minor",
        "$lib_version__patch"}

\* The names of the properties V1 moves, and none of them is the SDK's own.
LEMMA MovedNames ==
  /\ Moved = {"$cookieless_mode", "$ignore_sent_at", "$product_tour_id",
              "$process_person_profile", "$session_id", "$window_id"}
  /\ DOMAIN OptionsExtraction = {"cookieless_mode", "disable_skew_correction",
                                 "product_tour_id", "process_person_profile"}
  /\ \A o \in DOMAIN OptionsExtraction : OptionsExtraction[o].from \in Moved
  /\ \A o \in DOMAIN OptionsExtraction : OptionsExtraction[o].kind \in {"bool", "string"}
<1>1. DOMAIN OptionsExtraction = {"cookieless_mode", "disable_skew_correction",
                                  "product_tour_id", "process_person_profile"}
  BY DEF OptionsExtraction
<1>2. /\ OptionsExtraction["cookieless_mode"].from = "$cookieless_mode"
      /\ OptionsExtraction["disable_skew_correction"].from = "$ignore_sent_at"
      /\ OptionsExtraction["product_tour_id"].from = "$product_tour_id"
      /\ OptionsExtraction["process_person_profile"].from = "$process_person_profile"
  BY DEF OptionsExtraction, ProcessPerson
<1>3. /\ OptionsExtraction["cookieless_mode"].kind = "bool"
      /\ OptionsExtraction["disable_skew_correction"].kind = "bool"
      /\ OptionsExtraction["product_tour_id"].kind = "string"
      /\ OptionsExtraction["process_person_profile"].kind = "bool"
  BY DEF OptionsExtraction
<1>4. Lifted = {"$cookieless_mode", "$ignore_sent_at", "$product_tour_id",
                "$process_person_profile"}
  BY <1>1, <1>2 DEF Lifted
<1> QED BY <1>1, <1>2, <1>3, <1>4 DEF Moved

\* An option has the type the backend wants.
LEMMA OptionKinds ==
  ASSUME NEW props, NEW o \in DOMAIN OptionsIn(props)
  PROVE  /\ o \in DOMAIN OptionsExtraction
         /\ OptionsIn(props)[o] = Coerced(o, props)
         /\ OptionsIn(props)[o].type = OptionsExtraction[o].kind
<1>1. /\ o \in DOMAIN OptionsExtraction /\ Coerced(o, props) # Uninterpretable
      /\ OptionsIn(props)[o] = Coerced(o, props)
  BY DEF OptionsIn
<1> DEFINE value == props[OptionsExtraction[o].from]
<1>2. CASE OptionsExtraction[o].kind = "bool"
  <2>1. CoerceBool(value) # Uninterpretable
    BY <1>1, <1>2 DEF Coerced, CoerceOption
  <2> HIDE DEF value
  <2>2. \/ value.type = "bool" /\ CoerceBool(value) = value
        \/ CoerceBool(value) = True
        \/ CoerceBool(value) = Boolean("false")
        \/ CoerceBool(value) = Boolean(IF value.word = "0" THEN "false" ELSE "true")
    <3> DEFINE number == Boolean(IF value.word = "0" THEN "false" ELSE "true")
    <3>1. CoerceBool(value)
            = CASE value.type = "bool" -> value
                [] value.type = "string" /\ value.word \in TrueWords -> True
                [] value.type = "string" /\ value.word \in FalseWords -> Boolean("false")
                [] value.type = "number" -> number
                [] OTHER -> Uninterpretable
      BY DEF CoerceBool
    <3> HIDE DEF number
    <3>2. "bool" # "string" /\ "bool" # "number" /\ "string" # "number"
      OBVIOUS
    <3>3. CASE value.type = "bool"
      BY <3>1, <3>2, <3>3, Zenon
    <3>4. CASE value.type = "string" /\ value.word \in TrueWords
      <4>1. value.word \notin FalseWords
        BY <3>4 DEF TrueWords, FalseWords
      <4> QED BY <3>1, <3>2, <3>4, <4>1, Zenon
    <3>5. CASE value.type = "string" /\ value.word \in FalseWords
      <4>1. value.word \notin TrueWords
        BY <3>5 DEF TrueWords, FalseWords
      <4> QED BY <3>1, <3>2, <3>5, <4>1, Zenon
    <3>6. CASE value.type = "number"
      <4>1. CoerceBool(value) = number
        BY <3>1, <3>2, <3>6, Zenon
      <4> QED BY <4>1 DEF number
    <3>7. CASE /\ value.type # "bool" /\ value.type # "number"
               /\ ~(value.type = "string" /\ value.word \in TrueWords)
               /\ ~(value.type = "string" /\ value.word \in FalseWords)
      BY <2>1, <3>1, <3>7, Zenon
    <3> QED BY <3>3, <3>4, <3>5, <3>6, <3>7
  <2>3. CoerceBool(value).type = "bool"
    BY <2>2 DEF True, Boolean
  <2>4. Coerced(o, props) = CoerceBool(value)
    BY <1>2 DEF Coerced, CoerceOption, value
  <2> QED BY <1>1, <1>2, <2>3, <2>4
<1>3. CASE OptionsExtraction[o].kind = "string"
  BY <1>1, <1>3 DEF Coerced, CoerceOption, CoerceString
<1> QED BY <1>1, <1>2, <1>3, MovedNames

\* V0 and V1 make the same properties of the same event, but for V0's metadata.
LEMMA SameProps ==
  ASSUME NEW E, NEW d, NEW groups, NEW set, DOMAIN set \subseteq {"plan", "$cookieless_mode"},
         NEW k, k \notin Lib
  PROVE  LET u == Under(set, V0Props(Under(Under(E, CaptureDefaults(d)), RuntimeContext), groups))
             g == Grouped(Under(Under(set, Under(E, CaptureDefaults(d))), RuntimeContext), groups)
         IN  /\ k \in DOMAIN u <=> k \in DOMAIN g
             /\ k \in DOMAIN u => u[k] = g[k]
<1> DEFINE x == Under(Under(E, CaptureDefaults(d)), RuntimeContext)
           y == Under(Under(set, Under(E, CaptureDefaults(d))), RuntimeContext)
           v == V0Props(x, groups)
           u == Under(set, v)
           g == Grouped(y, groups)
           lib == Under(x, Library)
           base == IF "$lib_version__major" \in DOMAIN lib THEN lib ELSE Under(VersionParts, lib)
<1>1. /\ k \in DOMAIN y <=> k \in DOMAIN set \union DOMAIN x
      /\ k \in DOMAIN y => y[k] = IF k \in DOMAIN set THEN set[k] ELSE x[k]
  BY DEF Under
<1> HIDE DEF x, y
<1>2. /\ k \in DOMAIN lib <=> k \in DOMAIN x
      /\ k \in DOMAIN lib => lib[k] = x[k]
  BY DEF Under, Library, Lib
<1> HIDE DEF lib
<1>3. /\ k \in DOMAIN base <=> k \in DOMAIN x
      /\ k \in DOMAIN base => base[k] = x[k]
  <2>1. CASE "$lib_version__major" \in DOMAIN lib
    BY <1>2, <2>1
  <2>2. CASE "$lib_version__major" \notin DOMAIN lib
    <3>1. k \notin DOMAIN VersionParts
      BY DEF VersionParts, Lib
    <3> QED BY <1>2, <2>2, <3>1 DEF Under
  <2> QED BY <2>1, <2>2
<1>4. v = Grouped(base, groups)
  BY DEF V0Props, lib
<1> HIDE DEF base, v
<1>5. CASE groups = {}
  <2>1. v = base /\ g = y
    BY <1>4, <1>5 DEF Grouped
  <2> QED BY <1>1, <1>3, <2>1 DEF Under, x, v, y
<1>6. CASE groups # {}
  <2> DEFINE o == Only("$groups", GroupsObject(groups))
  <2>1. v = Under(o, base) /\ g = Under(o, y)
    BY <1>4, <1>6 DEF Grouped
  <2>2. DOMAIN o = {"$groups"} /\ "$groups" \notin DOMAIN set
    BY DEF Only
  <2> HIDE DEF o, g
  <2>3. /\ k \in DOMAIN u <=> k \in DOMAIN set \union {"$groups"} \union DOMAIN base
        /\ k \in DOMAIN u => u[k] = IF k \in DOMAIN set THEN set[k]
                                    ELSE IF k = "$groups" THEN o[k] ELSE base[k]
    BY <2>1, <2>2 DEF Under
  <2>4. /\ k \in DOMAIN g <=> k \in {"$groups"} \union DOMAIN y
        /\ k \in DOMAIN g => g[k] = IF k = "$groups" THEN o[k] ELSE y[k]
    BY <2>1, <2>2 DEF Under
  <2> HIDE DEF u
  <2>5. /\ k \in DOMAIN u <=> k \in DOMAIN g
        /\ k \in DOMAIN u => u[k] = g[k]
    BY <1>1, <1>3, <2>2, <2>3, <2>4
  <2> QED BY <2>5 DEF u, v, g, x, y
<1> QED BY <1>5, <1>6

\* Every name of the defaults is in what V1 sends but for what it moves and the allowlist.
LEMMA V1Props ==
  ASSUME NEW g, NEW d, NEW k, k \notin Moved
  PROVE  LET full == Under(Without(g, Moved), CaptureDefaults(d)) IN
         /\ k \in DOMAIN full <=> k \in DOMAIN g \union DOMAIN CaptureDefaults(d)
         /\ k \in DOMAIN g => full[k] = g[k]
BY DEF Under, Without

LEMMA MovedGo ==
  ASSUME NEW g, NEW d, NEW minimal
  PROVE  DOMAIN Allowed(Under(Without(g, Moved), CaptureDefaults(d)), minimal) \cap Moved = {}
<1>1. DOMAIN Under(Without(g, Moved), CaptureDefaults(d)) \cap Moved = {}
  BY MovedNames DEF Under, Without, CaptureDefaults
<1> DEFINE full == Under(Without(g, Moved), CaptureDefaults(d))
<1>2. DOMAIN Allowed(full, minimal) \subseteq DOMAIN full
  <2> HIDE DEF full
  <2> QED BY DEF Allowed, Minimized, Without
<1> QED BY <1>1, <1>2

LEMMA AllowedProps ==
  ASSUME NEW props, NEW minimal, NEW k
  PROVE  LET a == Allowed(props, minimal) IN
         /\ k \in DOMAIN a <=> k \in DOMAIN props /\ (minimal => k \in MinimalProperties)
         /\ k \in DOMAIN a => a[k] = props[k]
BY DEF Allowed, Minimized, Without
-----------------------------------------------------------------------------
(* The reachable states. *)

\* What is known of every event, whoever made it; one in the queue has a time; and what was
\* built is what its setup and its event make.
Shape ==
  /\ setup \in Setups
  /\ IsEvent(event) /\ event.id \in {"unset", "event", "called", "exception"}
  /\ event.timestamp \in {"none", "past", "enqueued"}
  /\ event.minimal \in BOOLEAN
  /\ (stage \in {"captured", "sent"} /\ via = "queue") => event.timestamp # "none"
  /\ stage = "sent" =>
       wire = [events |-> WireEventsOf(setup.build, event),
               request |-> IF setup.build = "v0" THEN EncodeBody(setup.algorithm, setup.works)
                           ELSE MaybeCompress(setup.algorithm, setup.works)]

LEMMA SetupFacts ==
  ASSUME setup \in Setups
  PROVE  /\ setup.build \in {"v0", "v1"} /\ Sane(Defaults) /\ setup.hooks \in Seq(Hooks)
         /\ setup.algorithm \in Algorithms /\ setup.works \in BOOLEAN
BY PipelineAssumption DEF Sane, Defaults

LEMMA ShapeInit == Init => Shape
<1> SUFFICES ASSUME Init PROVE Shape
  OBVIOUS
<1>1. IsEvent(New("unset")) /\ New("unset").id = "unset" /\ New("unset").timestamp = "none"
      /\ New("unset").minimal = FALSE
  BY FreshEvent
<1> QED BY <1>1 DEF Init, Shape

\* An event that is new to the client.
Opened(e) ==
  /\ IsEvent(e) /\ e.id \in {"event", "called", "exception"} /\ e.timestamp = "none"
  /\ e.minimal \in BOOLEAN

LEMMA ShapeOpens ==
  ASSUME Shape, Opens, Opened(event')
  PROVE  Shape'
BY DEF Shape, Opens, Opened

\* Every report leaves an event with the list and the modules of its frames.
ListIn(x, options) ==
  [type |-> "exceptions", items |-> x.items, traced |-> x.traced,
   frames |-> TrimToMaxFrames(Classified(x.frames, options), MaxFrames)]
ImagesIn(x, options) ==
  ReferencedImages(ReferencedImages(Modules, x.frames),
                   TrimToMaxFrames(Classified(x.frames, options), MaxFrames))
LevelOf(context) == IF context.level = "none" THEN "error" ELSE context.level
Reports(e, x, options, context) ==
  /\ Has(e.props, "$exception_list", ListIn(x, options))
  /\ Has(e.props, "$exception_level", Text(LevelOf(context)))
  /\ context.fingerprint # "none" =>
       Has(e.props, "$exception_fingerprint", Text(context.fingerprint))
  /\ IF ImagesIn(x, options) = {}
     THEN "$debug_images" \in DOMAIN e.props =>
            Has(context.props, "$debug_images", e.props["$debug_images"])
     ELSE Has(e.props, "$debug_images", [type |-> "images", images |-> ImagesIn(x, options)])

LEMMA ErrorEvent ==
  ASSUME NEW sources, NEW stack, NEW context, NEW options
  PROVE  LET e == BuildExceptionEvent("exception", sources, stack, context, options) IN
         /\ Opened(e) /\ e.id = "exception" /\ e.minimal = FALSE
         /\ Reports(e, FromError(sources, stack, options), options, context)
<1> DEFINE plain == FromError(sources, stack, options)
           x == [plain EXCEPT !.fingerprint = context.fingerprint,
                              !.level = IF context.level = "none" THEN @ ELSE context.level]
           before == Reporting(context)
           e == WriteInto(x, before, options)
<1>1. BuildExceptionEvent("exception", sources, stack, context, options) = e
  BY DEF BuildExceptionEvent, Reporting
<1>2. /\ x.items = plain.items /\ x.traced = plain.traced /\ x.frames = plain.frames
      /\ x.fingerprint = context.fingerprint /\ x.level = LevelOf(context)
  BY DEF FromError, LevelOf
<1> HIDE DEF plain, x
<1>3. /\ IsEvent(before) /\ before.id = "exception" /\ before.timestamp = "none"
      /\ before.minimal = FALSE
      /\ "$debug_images" \in DOMAIN before.props =>
           Has(context.props, "$debug_images", before.props["$debug_images"])
  BY ReportingEvent
<1> HIDE DEF before
<1>4. LET images == ReferencedImages(ReferencedImages(Modules, x.frames),
                                     TrimToMaxFrames(Classified(x.frames, options), MaxFrames))
      IN  /\ IsEvent(e) /\ e.id = before.id /\ e.timestamp = before.timestamp
          /\ e.minimal = before.minimal
          /\ Has(e.props, "$exception_list",
                 [type |-> "exceptions", items |-> x.items, traced |-> x.traced,
                  frames |-> TrimToMaxFrames(Classified(x.frames, options), MaxFrames)])
          /\ Has(e.props, "$exception_level", Text(x.level))
          /\ x.fingerprint # "none" =>
               Has(e.props, "$exception_fingerprint", Text(x.fingerprint))
          /\ IF images = {}
             THEN "$debug_images" \in DOMAIN e.props =>
                    Has(before.props, "$debug_images", e.props["$debug_images"])
             ELSE Has(e.props, "$debug_images", [type |-> "images", images |-> images])
  <2>1. IsEvent(before)
    BY <1>3
  <2> QED BY <2>1, Written
<1> HIDE DEF e
<1>5. ListIn(x, options) = ListIn(plain, options) /\ ImagesIn(x, options) = ImagesIn(plain, options)
  BY <1>2 DEF ListIn, ImagesIn
<1>6. Opened(e) /\ e.id = "exception" /\ e.minimal = FALSE
  BY <1>3, <1>4 DEF Opened
<1>7. Reports(e, x, options, context)
  BY <1>2, <1>3, <1>4 DEF Reports, ListIn, ImagesIn, Has
<1>8. Reports(e, x, options, context) => Reports(e, plain, options, context)
  BY <1>5 DEF Reports
<1> QED BY <1>1, <1>6, <1>7, <1>8 DEF plain

\* An event of the panic hook that has no modules yet.
Unmapped(e) ==
  /\ IsEvent(e) /\ e.id = "exception" /\ e.timestamp = "none" /\ e.minimal = FALSE
  /\ "$debug_images" \notin DOMAIN e.props

LEMMA UnmappedInsert ==
  ASSUME NEW e, Unmapped(e), NEW key, key # "$debug_images", NEW value
  PROVE  Unmapped(InsertProp(e, key, value))
<1> DEFINE r == InsertProp(e, key, value)
<1>1. /\ IsEvent(r) /\ r.id = e.id /\ r.timestamp = e.timestamp /\ r.minimal = e.minimal
      /\ r.props = Under(Only(key, value), e.props)
  BY InsertedEvent DEF Unmapped
<1> HIDE DEF r
<1>2. "$debug_images" \notin DOMAIN Under(Only(key, value), e.props)
  BY DEF Unmapped, Under, Only
<1>3. Unmapped(r)
  BY <1>1, <1>2 DEF Unmapped
<1> QED BY <1>3 DEF r

LEMMA PanicEvent ==
  ASSUME NEW located \in BOOLEAN, NEW stack, NEW options
  PROVE  LET e == BuildPanicEvent("exception", located, stack, options) IN
         /\ Opened(e) /\ e.id = "exception" /\ e.minimal = FALSE
         /\ Reports(e, FromPanicInfo(stack, options), options, PanicContext)
<1> DEFINE x == FromPanicInfo(stack, options)
           anon == NewAnon("exception")
           f == InsertProp(anon, "$exception_panic_file", Text("file"))
           l == InsertProp(f, "$exception_panic_line", Number("line"))
           c == InsertProp(l, "$exception_panic_column", Number("column"))
           before == IF located THEN c ELSE anon
           e == WriteInto(x, before, options)
<1>1. BuildPanicEvent("exception", located, stack, options) = e
  BY DEF BuildPanicEvent
<1>2. Unmapped(anon)
  <2>1. anon.props = Only(ProcessPerson, Boolean("false"))
    BY FreshEvent
  <2>2. DOMAIN Only(ProcessPerson, Boolean("false")) = {"$process_person_profile"}
    BY DEF Only, ProcessPerson
  <2>3. /\ IsEvent(anon) /\ anon.id = "exception" /\ anon.timestamp = "none" /\ anon.minimal = FALSE
    BY FreshEvent
  <2> HIDE DEF anon
  <2> QED BY <2>1, <2>2, <2>3 DEF Unmapped
<1> HIDE DEF anon
<1>3. Unmapped(f)
  BY <1>2, UnmappedInsert
<1> HIDE DEF f
<1>4. Unmapped(l)
  BY <1>3, UnmappedInsert
<1> HIDE DEF l
<1>5. Unmapped(c)
  BY <1>4, UnmappedInsert
<1> HIDE DEF c
<1>6. Unmapped(before)
  BY <1>2, <1>5
<1>0. x.level = LevelOf(PanicContext) /\ PanicContext.fingerprint = "none"
  BY DEF FromPanicInfo, PanicContext, LevelOf
<1> HIDE DEF before, x
<1>7. LET images == ReferencedImages(ReferencedImages(Modules, x.frames),
                                     TrimToMaxFrames(Classified(x.frames, options), MaxFrames))
      IN  /\ IsEvent(e) /\ e.id = before.id /\ e.timestamp = before.timestamp
          /\ e.minimal = before.minimal
          /\ Has(e.props, "$exception_list",
                 [type |-> "exceptions", items |-> x.items, traced |-> x.traced,
                  frames |-> TrimToMaxFrames(Classified(x.frames, options), MaxFrames)])
          /\ Has(e.props, "$exception_level", Text(x.level))
          /\ x.fingerprint # "none" =>
               Has(e.props, "$exception_fingerprint", Text(x.fingerprint))
          /\ IF images = {}
             THEN "$debug_images" \in DOMAIN e.props =>
                    Has(before.props, "$debug_images", e.props["$debug_images"])
             ELSE Has(e.props, "$debug_images", [type |-> "images", images |-> images])
  BY <1>6, Written DEF Unmapped
<1> HIDE DEF e
<1>8. Opened(e) /\ e.id = "exception" /\ e.minimal = FALSE
  BY <1>6, <1>7 DEF Opened, Unmapped
<1>9. Reports(e, x, options, PanicContext)
  BY <1>0, <1>6, <1>7 DEF Unmapped, Reports, ListIn, ImagesIn, Has
<1> QED BY <1>1, <1>8, <1>9 DEF x
LEMMA ShapeStep == Shape /\ [Next]_vars => Shape'
<1> SUFFICES ASSUME Shape, [Next]_vars PROVE Shape'
  OBVIOUS
<1>1. CASE NewEvent
  <2>1. Opened(New("event")) /\ Opened(NewAnon("event"))
    <3>1. /\ IsEvent(New("event")) /\ New("event").id = "event"
          /\ New("event").timestamp = "none" /\ New("event").minimal = FALSE
      BY FreshEvent
    <3>2. /\ IsEvent(NewAnon("event")) /\ NewAnon("event").id = "event"
          /\ NewAnon("event").timestamp = "none" /\ NewAnon("event").minimal = FALSE
      BY FreshEvent
    <3> QED BY <3>1, <3>2, Zenon DEF Opened
  <2>2. Opened(event')
    BY <1>1, <2>1 DEF NewEvent
  <2> QED BY <1>1, <2>2, ShapeOpens DEF NewEvent
<1>2. CASE RecordFlagCalled
  <2>1. PICK minimal \in BOOLEAN, geoip \in BOOLEAN, groups \in SUBSET GroupNames :
          event' = FlagCalledEvent("called", minimal, groups, geoip, setup.server)
    BY <1>2 DEF RecordFlagCalled
  <2>2. setup.server \in BOOLEAN
    BY SetupFacts, PipelineAssumption DEF Shape
  <2>3. Opened(event')
    BY <2>1, <2>2, FlagEvent DEF Opened
  <2> QED BY <1>2, <2>3, ShapeOpens DEF RecordFlagCalled
<1>3. CASE CaptureException
  <2>1. PICK sources \in Depths, stack \in Stacks, options \in Policies, context \in Contexts :
          event' = BuildExceptionEvent("exception", sources, stack, context, options)
    BY <1>3 DEF CaptureException
  <2>2. Opened(event')
    BY <2>1, ErrorEvent
  <2> QED BY <1>3, <2>2, ShapeOpens DEF CaptureException
<1>4. CASE CapturePanic
  <2>1. PICK stack \in PanicStacks, options \in Policies, located \in BOOLEAN :
          event' = BuildPanicEvent("exception", located, stack, options)
    BY <1>4 DEF CapturePanic
  <2>2. Opened(event')
    BY <2>1, PanicEvent
  <2> QED BY <1>4, <2>2, ShapeOpens DEF CapturePanic
<1> DEFINE Kept(r) == /\ IsEvent(r) /\ r.id = event.id /\ r.minimal = event.minimal
                      /\ r.timestamp \in {event.timestamp, "past"}
<1>5. ASSUME NEW r, Kept(r), Changes(r) PROVE Shape'
  BY <1>5 DEF Shape, Changes
<1>6. IsEvent(event)
  BY DEF Shape
<1>7. CASE CallerInserts
  <2>1. PICK key \in Keys, value \in Values : Changes(InsertProp(event, key, value))
    BY <1>7 DEF CallerInserts
  <2>2. Kept(InsertProp(event, key, value))
    BY <1>6, InsertedEvent
  <2> HIDE DEF Kept
  <2> QED BY <1>5, <2>1, <2>2
<1>8. CASE CallerRemoves
  <2>1. PICK key \in DOMAIN event.props : Changes(RemoveProp(event, key))
    BY <1>8 DEF CallerRemoves
  <2>2. Kept(RemoveProp(event, key))
    BY <1>6, CallerOps
  <2> HIDE DEF Kept
  <2> QED BY <1>5, <2>1, <2>2
<1>9. CASE CallerGroups
  <2>1. PICK group \in GroupNames : Changes(AddGroup(event, group))
    BY <1>9 DEF CallerGroups
  <2>2. Kept(AddGroup(event, group))
    BY <1>6, CallerOps
  <2> HIDE DEF Kept
  <2> QED BY <1>5, <2>1, <2>2
<1>10. CASE CallerDates
  <2>1. PICK time \in {"past", "future"} : Changes(SetTimestamp(event, time))
    BY <1>10 DEF CallerDates
  <2>2. Kept(SetTimestamp(event, time))
    BY <1>6, CallerOps
  <2> HIDE DEF Kept
  <2> QED BY <1>5, <2>1, <2>2
<1>11. CASE Capture
  <2>1. LET r == EnsureTimestamp(event, "enqueued") IN
        /\ IsEvent(r) /\ r.id = event.id /\ r.minimal = event.minimal
        /\ r.timestamp = IF event.timestamp = "none" THEN "enqueued" ELSE event.timestamp
    BY <1>6, StampedEvent
  <2> QED BY <1>11, <2>1 DEF Shape, Capture
<1>12. CASE Build
  BY <1>12 DEF Shape, Build, WireEventsOf, Defaults
<1>13. CASE UNCHANGED vars
  BY <1>13 DEF vars, Shape, WireEventsOf, Defaults
<1> QED BY <1>1, <1>2, <1>3, <1>4, <1>7, <1>8, <1>9, <1>10, <1>11, <1>12, <1>13
        DEF Next, Finished

LEMMA ShapeAlways == Spec => []Shape
<1>1. Init => Shape
  BY ShapeInit
<1>2. Shape /\ [Next]_vars => Shape'
  BY ShapeStep
<1> QED BY <1>1, <1>2, PTL DEF Spec
-----------------------------------------------------------------------------
(* What the caller set is in the batch of either build. *)

LEMMA PreparedKeeps ==
  ASSUME NEW E, NEW d, NEW groups, NEW key \in DOMAIN E,
         key = "$groups" => groups = {},
         key \in {"$lib_version__minor", "$lib_version__patch"} => "$lib_version__major" \in DOMAIN E
  PROVE  LET p == V0Props(Under(Under(E, CaptureDefaults(d)), RuntimeContext), groups) IN
         key \in DOMAIN p /\ p[key] = E[key]
<1> DEFINE x == Under(Under(E, CaptureDefaults(d)), RuntimeContext)
           lib == Under(x, Library)
           base == IF "$lib_version__major" \in DOMAIN lib THEN lib ELSE Under(VersionParts, lib)
<1>1. key \in DOMAIN lib /\ lib[key] = E[key] /\ DOMAIN E \subseteq DOMAIN lib
  BY DEF Under
<1>2. V0Props(x, groups) = Grouped(base, groups)
  BY DEF V0Props
<1> HIDE DEF lib, x
<1>3. key \in DOMAIN base /\ base[key] = E[key]
  <2>1. "$lib_version__major" \notin DOMAIN lib => key \notin DOMAIN VersionParts
    BY <1>1 DEF VersionParts
  <2> QED BY <1>1, <2>1 DEF Under
<1> HIDE DEF base
<1>4. key \in DOMAIN Grouped(base, groups) /\ Grouped(base, groups)[key] = E[key]
  BY <1>3 DEF Grouped, Under, Only
<1> QED BY <1>2, <1>4 DEF x

LEMMA GroupedKeeps ==
  ASSUME NEW E, NEW d, NEW groups, NEW key \in DOMAIN E, key = "$groups" => groups = {}
  PROVE  LET g == Grouped(Under(Under(E, CaptureDefaults(d)), RuntimeContext), groups) IN
         key \in DOMAIN g /\ g[key] = E[key]
<1> DEFINE x == Under(Under(E, CaptureDefaults(d)), RuntimeContext)
<1>1. key \in DOMAIN x /\ x[key] = E[key]
  BY DEF Under
<1> HIDE DEF x
<1>2. key \in DOMAIN Grouped(x, groups) /\ Grouped(x, groups)[key] = E[key]
  BY <1>1 DEF Grouped, Under, Only
<1> QED BY <1>2 DEF x

\* What each build sends of the captured event.
SentOfV0 == InnerEvent(ApplyBeforeSendHooks(setup.hooks, PrepareEvent(event, Defaults)))
SentOfV1 ==
  EventV1(ApplyBeforeSendHooks(setup.hooks, ApplyCaptureDefaults(event, Defaults)), Defaults, "built")

LEMMA WireOf ==
  ASSUME Shape
  PROVE  /\ WireEventsOf("v0", event) = IF Discards(setup.hooks) THEN <<>> ELSE <<SentOfV0>>
         /\ WireEventsOf("v1", event) = IF Discards(setup.hooks) THEN <<>> ELSE <<SentOfV1>>
<1>1. /\ IsEvent(event) /\ event.id # "dropped" /\ Sane(Defaults) /\ setup.hooks \in Seq(Hooks)
  BY SetupFacts DEF Shape
<1>2. BuildBatchPayload(<<event>>, Defaults, setup.hooks)
        = IF Discards(setup.hooks) THEN <<>> ELSE <<SentOfV0>>
  BY <1>1, BatchV0 DEF SentOfV0
<1>3. PrepareImmediate(<<event>>, Defaults, setup.hooks, "built")
        = IF Discards(setup.hooks) THEN <<>> ELSE <<SentOfV1>>
  BY <1>1, BatchV1 DEF SentOfV1
<1> QED BY <1>2, <1>3 DEF WireEventsOf

LEMMA OneSent ==
  ASSUME Shape, stage = "sent"
  PROVE  wire.events = IF Discards(setup.hooks) THEN <<>>
                       ELSE IF setup.build = "v0" THEN <<SentOfV0>> ELSE <<SentOfV1>>
<1>1. wire.events = WireEventsOf(setup.build, event) /\ setup.build \in {"v0", "v1"}
  BY SetupFacts DEF Shape
<1> QED BY <1>1, WireOf

\* The event the hooks of V0 leave, and what is sent of it.
LEMMA LeftV0 ==
  ASSUME Shape, ~Discards(setup.hooks)
  PROVE  LET r == ApplyBeforeSendHooks(setup.hooks, PrepareEvent(event, Defaults)) IN
         /\ IsEvent(r)
         /\ ~Renews(setup.hooks) =>
              /\ r.groups = event.groups /\ r.timestamp = event.timestamp
              /\ r.minimal = event.minimal
         /\ SentOfV0.timestamp = r.timestamp /\ SentOfV0.props = Allowed(r.props, r.minimal)
<1> DEFINE p == PrepareEvent(event, Defaults)
<1>1. /\ IsEvent(p) /\ p.id = event.id /\ p.groups = event.groups
      /\ p.timestamp = event.timestamp /\ p.minimal = event.minimal
  BY SetupFacts, Prepared DEF Shape
<1>2. setup.hooks \in Seq(Hooks) /\ event.id # "dropped"
  BY SetupFacts DEF Shape
<1> HIDE DEF p
<1> DEFINE r == ApplyBeforeSendHooks(setup.hooks, p)
<1>3. /\ IsEvent(r)
      /\ ~Renews(setup.hooks) =>
           /\ r.groups = p.groups /\ r.timestamp = p.timestamp /\ r.minimal = p.minimal
  BY <1>1, <1>2, HooksDiscard
<1>4. SentOfV0 = InnerEvent(r)
  BY DEF SentOfV0, p
<1> HIDE DEF r
<1>5. SentOfV0.timestamp = r.timestamp /\ SentOfV0.props = Allowed(r.props, r.minimal)
  BY <1>4 DEF InnerEvent, Allowed
<1> QED BY <1>1, <1>3, <1>5 DEF r, p

\* The same of V1.
LEMMA LeftV1 ==
  ASSUME Shape, ~Discards(setup.hooks)
  PROVE  LET r == ApplyBeforeSendHooks(setup.hooks, ApplyCaptureDefaults(event, Defaults))
             g == Grouped(Under(r.props, RuntimeContext), r.groups)
         IN
         /\ IsEvent(r)
         /\ ~Renews(setup.hooks) =>
              /\ r.groups = event.groups /\ r.timestamp = event.timestamp
              /\ r.minimal = event.minimal
         /\ SentOfV1.timestamp = IF r.timestamp = "none" THEN "built" ELSE r.timestamp
         /\ SentOfV1.options = OptionsIn(g)
         /\ SentOfV1.session_id = TextIn(g, "$session_id")
         /\ SentOfV1.window_id = TextIn(g, "$window_id")
         /\ SentOfV1.props
              = Allowed(Under(Without(g, Moved), CaptureDefaults(Defaults)), r.minimal)
<1> DEFINE p == ApplyCaptureDefaults(event, Defaults)
<1>1. /\ IsEvent(p) /\ p.id = event.id /\ p.groups = event.groups
      /\ p.timestamp = event.timestamp /\ p.minimal = event.minimal
  BY SetupFacts, Captured DEF Shape
<1>2. setup.hooks \in Seq(Hooks) /\ event.id # "dropped" /\ Sane(Defaults)
  BY SetupFacts DEF Shape
<1> HIDE DEF p
<1> DEFINE r == ApplyBeforeSendHooks(setup.hooks, p)
           g == Grouped(Under(r.props, RuntimeContext), r.groups)
<1>3. /\ IsEvent(r)
      /\ ~Renews(setup.hooks) =>
           /\ r.groups = p.groups /\ r.timestamp = p.timestamp /\ r.minimal = p.minimal
  BY <1>1, <1>2, HooksDiscard
<1>4. SentOfV1 = EventV1(r, Defaults, "built")
  BY DEF SentOfV1, p
<1> HIDE DEF r
<1>5. /\ SentOfV1.timestamp = IF r.timestamp = "none" THEN "built" ELSE r.timestamp
      /\ SentOfV1.options = OptionsIn(g)
      /\ SentOfV1.session_id = TextIn(g, "$session_id")
      /\ SentOfV1.window_id = TextIn(g, "$window_id")
      /\ SentOfV1.props = Allowed(Under(Without(g, Moved), CaptureDefaults(Defaults)), r.minimal)
  BY <1>2, <1>3, <1>4, SentV1
<1> QED BY <1>1, <1>3, <1>5 DEF r, p

\* Hooks that keep an event leave all that was captured of it.
LEMMA KeptV0 ==
  ASSUME Shape, Harmless, NEW key \in DOMAIN event.props,
         key = "$groups" => event.groups = {},
         key \in {"$lib_version__minor", "$lib_version__patch"} =>
           "$lib_version__major" \in DOMAIN event.props,
         event.minimal => key \in MinimalProperties
  PROVE  Has(SentOfV0.props, key, event.props[key])
<1> DEFINE p == PrepareEvent(event, Defaults)
<1>1. p.minimal = event.minimal /\ p.props = PreparedProps(event, Defaults)
  BY SetupFacts, Prepared DEF Shape
<1> HIDE DEF p
<1>2. ApplyBeforeSendHooks(setup.hooks, p) = p
  BY SetupFacts, KeepersKeep DEF Harmless, Shape
<1>3. SentOfV0.props = Allowed(p.props, p.minimal)
  BY <1>2 DEF SentOfV0, InnerEvent, Allowed, p
<1>4. key \in DOMAIN p.props /\ p.props[key] = event.props[key]
  BY <1>1, PreparedKeeps DEF PreparedProps
<1> QED BY <1>1, <1>3, <1>4, AllowedProps DEF Has

LEMMA KeptV1 ==
  ASSUME Shape, Harmless, NEW key \in DOMAIN event.props,
         key = "$groups" => event.groups = {},
         key \notin Moved,
         event.minimal => key \in MinimalProperties
  PROVE  Has(SentOfV1.props, key, event.props[key])
<1> DEFINE p == ApplyCaptureDefaults(event, Defaults)
<1>1. /\ p.minimal = event.minimal /\ p.props = Under(event.props, CaptureDefaults(Defaults))
      /\ p.groups = event.groups
  BY SetupFacts, Captured DEF Shape
<1> HIDE DEF p
<1>2. ApplyBeforeSendHooks(setup.hooks, p) = p
  BY SetupFacts, KeepersKeep DEF Harmless, Shape
<1> DEFINE g == Grouped(Under(p.props, RuntimeContext), p.groups)
           full == Under(Without(g, Moved), CaptureDefaults(Defaults))
<1>3. ~Discards(setup.hooks)
  BY DEF Harmless, Discards
<1>4. SentOfV1.props = Allowed(full, p.minimal)
  BY <1>2, <1>3, LeftV1 DEF p
<1>5. key \in DOMAIN g /\ g[key] = event.props[key]
  BY <1>1, GroupedKeeps
<1> HIDE DEF g
<1>6. key \in DOMAIN full /\ full[key] = event.props[key]
  BY <1>5, V1Props
<1> HIDE DEF full
<1> QED BY <1>1, <1>4, <1>6, AllowedProps DEF Has

LEMMA AllowedMinimal ==
  ASSUME NEW props, NEW minimal, minimal
  PROVE  DOMAIN Allowed(props, minimal) \subseteq MinimalProperties
BY DEF Allowed, Minimized, Without

LEMMA FaithfulV0 ==
  ASSUME Shape, setup.build = "v0", ~Discards(setup.hooks)
  PROVE  /\ CallerWins(SentOfV0) /\ OptionsAccepted(SentOfV0) /\ MinimalOnly(SentOfV0)
         /\ stage = "sent" => Occurred(SentOfV0)
<1> DEFINE r == ApplyBeforeSendHooks(setup.hooks, PrepareEvent(event, Defaults))
<1>1. /\ ~Renews(setup.hooks) => r.timestamp = event.timestamp /\ r.minimal = event.minimal
      /\ SentOfV0.timestamp = r.timestamp /\ SentOfV0.props = Allowed(r.props, r.minimal)
  BY LeftV0
<1> HIDE DEF r
<1>2. CallerWins(SentOfV0)
  BY KeptV0 DEF CallerWins, Carried
<1>3. OptionsAccepted(SentOfV0)
  BY DEF OptionsAccepted
<1>4. MinimalOnly(SentOfV0)
  BY <1>1, AllowedMinimal DEF MinimalOnly, Renewed, Renews
<1>5. stage = "sent" => Occurred(SentOfV0)
  BY <1>1 DEF Occurred, Renewed, Renews, Shape
<1> QED BY <1>2, <1>3, <1>4, <1>5

LEMMA FaithfulV1 ==
  ASSUME Shape, setup.build = "v1", ~Discards(setup.hooks)
  PROVE  /\ CallerWins(SentOfV1) /\ OptionsAccepted(SentOfV1) /\ MinimalOnly(SentOfV1)
         /\ stage = "sent" => Occurred(SentOfV1)
<1> DEFINE r == ApplyBeforeSendHooks(setup.hooks, ApplyCaptureDefaults(event, Defaults))
           g == Grouped(Under(r.props, RuntimeContext), r.groups)
           full == Under(Without(g, Moved), CaptureDefaults(Defaults))
<1>1. /\ ~Renews(setup.hooks) => r.timestamp = event.timestamp /\ r.minimal = event.minimal
      /\ SentOfV1.timestamp = IF r.timestamp = "none" THEN "built" ELSE r.timestamp
      /\ SentOfV1.options = OptionsIn(g)
      /\ SentOfV1.props = Allowed(full, r.minimal)
  BY LeftV1
<1>2. DOMAIN Allowed(full, r.minimal) \cap Moved = {}
  BY MovedGo
<1> HIDE DEF full, g, r
<1>3. CallerWins(SentOfV1)
  BY KeptV1 DEF CallerWins, Carried, Moved
<1>4. OptionsAccepted(SentOfV1)
  BY <1>1, <1>2, OptionKinds DEF OptionsAccepted, Moved
<1>5. MinimalOnly(SentOfV1)
  BY <1>1, AllowedMinimal DEF MinimalOnly, Renewed, Renews
<1>6. stage = "sent" => Occurred(SentOfV1)
  BY <1>1 DEF Occurred, Renewed, Renews, Shape
<1> QED BY <1>3, <1>4, <1>5, <1>6

LEMMA Encoded ==
  ASSUME Shape, stage = "sent"
  PROVE  EncodingTold
<1>1. /\ wire.request = IF setup.build = "v0" THEN EncodeBody(setup.algorithm, setup.works)
                        ELSE MaybeCompress(setup.algorithm, setup.works)
      /\ setup.build \in {"v0", "v1"}
  BY SetupFacts DEF Shape
<1> QED BY <1>1 DEF EncodingTold, EncodeBody, MaybeCompress, Compress

\* Whatever the caller, the configuration and the hooks do: what is on the wire of either
\* build is the captured event, with what its caller set, a type the backend takes for every
\* option, the allowlist alone when minimal, its own time, and its encoding as told.
THEOREM CapturedIsSent == Spec => []WireFaithful
<1>1. Shape => WireFaithful
  <2> SUFFICES ASSUME Shape, stage = "sent" PROVE WireFaithful
    BY DEF WireFaithful
  <2>1. EncodingTold
    BY Encoded
  <2>2. Discarded <=> Discards(setup.hooks)
    BY DEF Discarded, Discards
  <2>3. CASE Discards(setup.hooks)
    <3>1. wire.events = <<>>
      BY <2>3, OneSent
    <3> QED BY <2>1, <2>2, <2>3, <3>1 DEF WireFaithful
  <2>4. CASE ~Discards(setup.hooks)
    <3> DEFINE s == IF setup.build = "v0" THEN SentOfV0 ELSE SentOfV1
    <3>1. wire.events = <<s>>
      BY <2>4, OneSent
    <3>2. setup.build \in {"v0", "v1"}
      BY SetupFacts DEF Shape
    <3>3. CallerWins(s) /\ OptionsAccepted(s) /\ MinimalOnly(s) /\ Occurred(s)
      BY <2>4, <3>2, FaithfulV0, FaithfulV1
    <3> HIDE DEF s
    <3>4. Len(wire.events) = 1 /\ DOMAIN wire.events = {1} /\ wire.events[1] = s
      BY <3>1
    <3> QED BY <2>1, <2>2, <2>4, <3>3, <3>4 DEF WireFaithful
  <2> QED BY <2>3, <2>4
<1> QED BY <1>1, ShapeAlways, PTL
-----------------------------------------------------------------------------
(* What the two builds say of the same event. *)

\* Two sets of properties, of which u is V0's and g V1's before it moves any, agree but for
\* V0's metadata.
Alike(u, g) ==
  \A k : k \notin Lib => /\ k \in DOMAIN u <=> k \in DOMAIN g
                         /\ k \in DOMAIN u => u[k] = g[k]

LEMMA DefaultsThere ==
  ASSUME NEW E, NEW d, NEW set, NEW groups
  PROVE  DOMAIN CaptureDefaults(d)
           \subseteq DOMAIN Grouped(Under(Under(set, Under(E, CaptureDefaults(d))), RuntimeContext), groups)
<1> DEFINE y == Under(Under(set, Under(E, CaptureDefaults(d))), RuntimeContext)
<1>1. DOMAIN CaptureDefaults(d) \subseteq DOMAIN y
  BY DEF Under
<1> HIDE DEF y
<1>2. DOMAIN y \subseteq DOMAIN Grouped(y, groups)
  BY DEF Grouped, Under
<1> QED BY <1>1, <1>2 DEF y

LEMMA SameRest ==
  ASSUME NEW u, NEW g, Alike(u, g), NEW d, DOMAIN CaptureDefaults(d) \subseteq DOMAIN g,
         NEW minimal
  PROVE  Without(Allowed(u, minimal), Moved \union Lib)
           = Without(Allowed(Under(Without(g, Moved), CaptureDefaults(d)), minimal), Lib)
<1> DEFINE full == Under(Without(g, Moved), CaptureDefaults(d))
           a == Allowed(u, minimal)
           b == Allowed(full, minimal)
<1>1. \A k : k \notin Moved => /\ k \in DOMAIN full <=> k \in DOMAIN g
                               /\ k \in DOMAIN g => full[k] = g[k]
  BY V1Props
<1>2. DOMAIN b \cap Moved = {}
  BY MovedGo
<1> HIDE DEF full
<1>3. \A k : /\ k \in DOMAIN a <=> k \in DOMAIN u /\ (minimal => k \in MinimalProperties)
             /\ k \in DOMAIN a => a[k] = u[k]
  BY AllowedProps
<1>4. \A k : /\ k \in DOMAIN b <=> k \in DOMAIN full /\ (minimal => k \in MinimalProperties)
             /\ k \in DOMAIN b => b[k] = full[k]
  BY AllowedProps
<1> HIDE DEF a, b
<1>5. DOMAIN a \ (Moved \union Lib) = DOMAIN b \ Lib
  BY <1>1, <1>2, <1>3, <1>4 DEF Alike
<1>6. \A k \in DOMAIN b \ Lib : a[k] = b[k]
  BY <1>1, <1>2, <1>3, <1>4, <1>5 DEF Alike
<1>7. [k \in DOMAIN b \ Lib |-> a[k]] = [k \in DOMAIN b \ Lib |-> b[k]]
  BY <1>6
<1>8. Without(a, Moved \union Lib) = Without(b, Lib)
  BY <1>5, <1>7 DEF Without
<1> QED BY <1>8 DEF a, b, full

\* The option of a property V1 moves is the property V0 has, coerced.
LEMMA SameOption ==
  ASSUME NEW u, NEW g, Alike(u, g), NEW minimal, NEW o \in DOMAIN OptionsExtraction
  PROVE  LET props == Allowed(u, minimal)
             key == OptionsExtraction[o].from
             coerced == CoerceOption(OptionsExtraction[o].kind, props[key])
         IN  IF key \in DOMAIN props
             THEN IF coerced = Uninterpretable THEN o \notin DOMAIN OptionsIn(g)
                  ELSE Has(OptionsIn(g), o, coerced)
             ELSE o \in DOMAIN OptionsIn(g) => minimal /\ key \notin MinimalProperties
<1> DEFINE props == Allowed(u, minimal)
           key == OptionsExtraction[o].from
           coerced == CoerceOption(OptionsExtraction[o].kind, props[key])
<1>1. key \notin Lib
  BY MovedNames DEF Lib
<1>2. /\ key \in DOMAIN props <=> key \in DOMAIN u /\ (minimal => key \in MinimalProperties)
      /\ key \in DOMAIN props => props[key] = u[key]
  BY AllowedProps
<1>3. /\ key \in DOMAIN u <=> key \in DOMAIN g
      /\ key \in DOMAIN u => u[key] = g[key]
  BY <1>1 DEF Alike
<1>4. /\ o \in DOMAIN OptionsIn(g) <=> key \in DOMAIN g /\ Coerced(o, g) # Uninterpretable
      /\ o \in DOMAIN OptionsIn(g) => OptionsIn(g)[o] = Coerced(o, g)
  BY DEF OptionsIn
<1>5. key \in DOMAIN props => coerced = Coerced(o, g)
  BY <1>2, <1>3 DEF Coerced
<1> HIDE DEF props, key, coerced
<1>6. CASE key \in DOMAIN props
  BY <1>2, <1>3, <1>4, <1>5, <1>6 DEF Has, props, key, coerced
<1>7. CASE key \notin DOMAIN props
  BY <1>2, <1>3, <1>4, <1>7 DEF props, key
<1> QED BY <1>6, <1>7

LEMMA SameText ==
  ASSUME NEW u, NEW g, Alike(u, g), NEW minimal, NEW key \in {"$session_id", "$window_id"}
  PROVE  TextIn(g, key) = TextIn(Allowed(u, minimal), key)
<1>1. key \notin Lib /\ key \in MinimalProperties
  BY DEF Lib, MinimalProperties
<1>2. /\ key \in DOMAIN Allowed(u, minimal) <=> key \in DOMAIN g
      /\ key \in DOMAIN g => Allowed(u, minimal)[key] = g[key]
  BY <1>1, AllowedProps DEF Alike
<1> QED BY <1>2 DEF TextIn

\* What the two builds send of one event is made of properties that are alike.
LEMMA BothSent ==
  ASSUME Shape, ~Discards(setup.hooks), ~Takes(setup.hooks)
  PROVE  \E u, g :
           /\ Alike(u, g) /\ DOMAIN CaptureDefaults(Defaults) \subseteq DOMAIN g
           /\ SentOfV0.props = Allowed(u, event.minimal)
           /\ SentOfV1.props
                = Allowed(Under(Without(g, Moved), CaptureDefaults(Defaults)), event.minimal)
           /\ SentOfV1.options = OptionsIn(g)
           /\ SentOfV1.session_id = TextIn(g, "$session_id")
           /\ SentOfV1.window_id = TextIn(g, "$window_id")
<1> DEFINE d == PrepareEvent(event, Defaults)
           e == ApplyCaptureDefaults(event, Defaults)
           rd == ApplyBeforeSendHooks(setup.hooks, d)
           re == ApplyBeforeSendHooks(setup.hooks, e)
<1>1. /\ IsEvent(event) /\ event.id # "dropped" /\ setup.hooks \in Seq(Hooks) /\ Sane(Defaults)
  BY SetupFacts DEF Shape
<1>2. IsEvent(d) /\ d.id = event.id /\ d.props = PreparedProps(event, Defaults)
  BY <1>1, Prepared
<1>3. IsEvent(e) /\ e.id = event.id /\ e.props = Under(event.props, CaptureDefaults(Defaults))
  BY <1>1, Captured
<1>4. ~Renews(setup.hooks)
  BY DEF Renews, Takes
<1>5. rd.minimal = event.minimal /\ SentOfV0.props = Allowed(rd.props, rd.minimal)
  BY <1>4, LeftV0
<1> DEFINE g == Grouped(Under(re.props, RuntimeContext), event.groups)
<1>6. /\ re.minimal = event.minimal /\ re.groups = event.groups
      /\ SentOfV1.options = OptionsIn(g)
      /\ SentOfV1.session_id = TextIn(g, "$session_id")
      /\ SentOfV1.window_id = TextIn(g, "$window_id")
      /\ SentOfV1.props
           = Allowed(Under(Without(g, Moved), CaptureDefaults(Defaults)), re.minimal)
  BY <1>4, LeftV1
<1>10. IsEvent(d) /\ d.id # "dropped" /\ IsEvent(e) /\ e.id # "dropped"
  BY <1>1, <1>2, <1>3
<1>11. \E set : SetOver(set, setup.hooks, d, e)
  <2> HIDE DEF d, e
  <2> QED BY <1>1, <1>10, HooksSet
<1> HIDE DEF d, e
<1>7. PICK set : /\ DOMAIN set \subseteq {"plan", "$cookieless_mode"}
                 /\ rd.props = Under(set, d.props) /\ re.props = Under(set, e.props)
  BY <1>11 DEF SetOver
<1> HIDE DEF rd, re
<1>8. Alike(rd.props, g)
  BY <1>2, <1>3, <1>7, SameProps DEF Alike, PreparedProps
<1>9. DOMAIN CaptureDefaults(Defaults) \subseteq DOMAIN g
  BY <1>3, <1>7, DefaultsThere
<1> HIDE DEF g
<1> QED BY <1>5, <1>6, <1>8, <1>9

\* Of an event that no hook takes properties from, V0 and V1 say the same: each has every
\* property of the other, in its place or coerced into an option. It is silent on what each
\* says of the SDK itself, and on the options of a minimal event that its allowlist does not
\* name: V1 sends those and V0 does not, as MinimalExact shows.
THEOREM BothBuildsAgree == Spec => []BuildsAgree
<1>1. Shape => BuildsAgree
  <2> SUFFICES ASSUME Shape, stage = "sent",
                      \A i \in DOMAIN setup.hooks : setup.hooks[i] \notin {"strip", "fresh"}
               PROVE  BuildsAgree
    BY DEF BuildsAgree
  <2> DEFINE v0 == WireEventsOf("v0", event)
             v1 == WireEventsOf("v1", event)
  <2>1. CASE Discards(setup.hooks)
    <3>1. v0 = <<>> /\ v1 = <<>>
      BY <2>1, WireOf
    <3>2. Len(v0) = Len(v1) /\ DOMAIN v0 = {}
      BY <3>1
    <3> HIDE DEF v0, v1
    <3> QED BY <3>2 DEF BuildsAgree, v0, v1
  <2>2. CASE ~Discards(setup.hooks)
    <3>1. v0 = <<SentOfV0>> /\ v1 = <<SentOfV1>>
      BY <2>2, WireOf
    <3> HIDE DEF v0, v1
    <3>2. /\ Len(v0) = Len(v1) /\ DOMAIN v0 = {1}
          /\ v0[1] = SentOfV0 /\ v1[1] = SentOfV1
      BY <3>1
    <3>3. ~Takes(setup.hooks)
      BY DEF Takes
    <3>4. PICK u, g :
            /\ Alike(u, g) /\ DOMAIN CaptureDefaults(Defaults) \subseteq DOMAIN g
            /\ SentOfV0.props = Allowed(u, event.minimal)
            /\ SentOfV1.props
                 = Allowed(Under(Without(g, Moved), CaptureDefaults(Defaults)), event.minimal)
            /\ SentOfV1.options = OptionsIn(g)
            /\ SentOfV1.session_id = TextIn(g, "$session_id")
            /\ SentOfV1.window_id = TextIn(g, "$window_id")
      BY <2>2, <3>3, BothSent
    <3>5. Without(v0[1].props, Moved \union Lib) = Without(v1[1].props, Lib)
      <4> DEFINE d == Defaults
      <4>1. Without(Allowed(u, event.minimal), Moved \union Lib)
              = Without(Allowed(Under(Without(g, Moved), CaptureDefaults(d)), event.minimal), Lib)
        <5> HIDE DEF d
        <5> QED BY <3>4, SameRest DEF d
      <4> QED BY <3>2, <3>4, <4>1
    <3>6. ASSUME NEW o \in DOMAIN OptionsExtraction
          PROVE  LET key == OptionsExtraction[o].from
                     coerced == CoerceOption(OptionsExtraction[o].kind, v0[1].props[key])
                 IN IF key \in DOMAIN v0[1].props
                    THEN IF coerced = Uninterpretable THEN o \notin DOMAIN v1[1].options
                         ELSE Has(v1[1].options, o, coerced)
                    ELSE o \in DOMAIN v1[1].options => event.minimal /\ key \notin MinimalProperties
      BY <3>2, <3>4, SameOption
    <3>7. /\ v1[1].session_id = TextIn(v0[1].props, "$session_id")
          /\ v1[1].window_id = TextIn(v0[1].props, "$window_id")
      BY <3>2, <3>4, SameText
    <3> QED BY <3>2, <3>5, <3>6, <3>7 DEF BuildsAgree, Moved, Lib, v0, v1
  <2> QED BY <2>1, <2>2
<1> QED BY <1>1, ShapeAlways, PTL
-----------------------------------------------------------------------------
(* The frames of a walk, innermost first. *)

\* A frame as it is made: not classified, and with an address just when it has the base of a
\* module with symbols.
Made(f) ==
  /\ f = [path |-> f.path, name |-> f.name, in_app |-> FALSE, addr |-> f.addr,
          entry |-> f.entry, image |-> f.image, inline |-> f.inline]
  /\ f.inline \in BOOLEAN
  /\ f.addr # 0 <=> f.image # 0
  /\ f.addr # 0 => \E m \in Modules : m.base = f.image /\ DebugIdFor(m.build) # "none"

\* After an inline frame comes one of its address.
Follows(F) == \A i \in 1..Len(F) : F[i].inline => i < Len(F) /\ F[i + 1].addr = F[i].addr

LEMMA FoundModule ==
  ASSUME NEW addr \in Nat, DebugIdFor(FindModule(addr).build) # "none"
  PROVE  FindModule(addr) \in Modules /\ addr # 0 /\ FindModule(addr).base # 0
<1> DEFINE below == {m \in Modules : m.base <= addr}
           nearest == {m \in below : \A n \in below : n.base <= m.base}
<1>1. FindModule(addr) = IF \E m \in nearest : addr < m.base + m.size
                         THEN CHOOSE m \in nearest : TRUE ELSE NoModule
  BY DEF FindModule
<1>2. DebugIdFor(NoModule.build) = "none"
  BY DEF DebugIdFor, NoModule
<1>3. \E m \in nearest : addr < m.base + m.size
  BY <1>1, <1>2
<1>4. FindModule(addr) \in nearest
  <2> HIDE DEF nearest
  <2> QED BY <1>1, <1>3
<1>5. FindModule(addr) \in Modules /\ FindModule(addr).base <= addr
  BY <1>4
<1>6. FindModule(addr).base \in Nat \ {0}
  BY <1>5, ReportAssumption
<1> QED BY <1>5, <1>6

LEMMA MadeFrame ==
  ASSUME NEW layer, NEW physical, physical.addr \in Nat, NEW inline \in BOOLEAN
  PROVE  LET module == FindModule(physical.addr)
             f == Frame(layer, physical, module, inline)
         IN  /\ Made(f)
             /\ f.addr = IF DebugIdFor(module.build) # "none" THEN physical.addr ELSE 0
             /\ inline = FALSE => ~f.inline
<1> DEFINE module == FindModule(physical.addr)
           resolvable == DebugIdFor(module.build) # "none"
           f == Frame(layer, physical, module, inline)
           name == NormalizeFunctionName(layer.name)
<1>1. f = [path |-> layer.path, name |-> name, in_app |-> FALSE,
           addr |-> IF resolvable THEN physical.addr ELSE 0,
           entry |-> IF resolvable THEN physical.entry ELSE "none",
           image |-> IF resolvable THEN module.base ELSE 0,
           inline |-> resolvable /\ inline]
  BY DEF Frame
<1> HIDE DEF f, name
<1>2. resolvable => module \in Modules /\ physical.addr # 0 /\ module.base # 0
  BY FoundModule
<1> HIDE DEF module
<1>3. /\ f.addr = (IF resolvable THEN physical.addr ELSE 0)
      /\ f.image = (IF resolvable THEN module.base ELSE 0)
      /\ f.inline = (resolvable /\ inline)
      /\ f = [path |-> f.path, name |-> f.name, in_app |-> FALSE, addr |-> f.addr,
              entry |-> f.entry, image |-> f.image, inline |-> f.inline]
  BY <1>1
<1>4. Made(f)
  BY <1>2, <1>3 DEF Made
<1> QED BY <1>3, <1>4 DEF f, module

IsSeq(s) == Len(s) \in Nat /\ s = [i \in 1..Len(s) |-> s[i]]

\* The named layers of a frame are a sequence.
LEMMA ToldSeq ==
  ASSUME NEW layers, IsSeq(layers)
  PROVE  IsSeq(Told(layers)) /\ (Told(layers) # <<>> => Len(Told(layers)) > 0)
<1> DEFINE S == {layers[i] : i \in DOMAIN layers}
           seqs == [i \in DOMAIN layers |-> IF layers[i] = Nameless THEN <<>> ELSE <<layers[i]>>]
<1>1. Len(layers) \in Nat /\ DOMAIN layers = 1..Len(layers)
  BY DEF IsSeq
<1>2. Len(seqs) = Len(layers) /\ seqs \in Seq(Seq(S))
  <2>1. \A i \in 1..Len(layers) : seqs[i] \in Seq(S)
    <3>1. \A i \in 1..Len(layers) : layers[i] \in S /\ seqs[i] \in {<<>>, <<layers[i]>>}
      BY <1>1
    <3> HIDE DEF S, seqs
    <3>2. <<>> \in Seq(S) /\ \A x \in S : <<x>> \in Seq(S)
      OBVIOUS
    <3> DEFINE Q == Seq(S)
    <3> HIDE DEF Q
    <3>3. \A i \in 1..Len(layers) : seqs[i] \in Q
      BY <3>1, <3>2, Zenon DEF Q
    <3> QED BY <3>3 DEF Q
  <2>2. seqs = [i \in 1..Len(layers) |-> seqs[i]]
    BY <1>1
  <2> HIDE DEF seqs, S
  <2>3. seqs \in [1..Len(layers) -> Seq(S)]
    BY <2>1, <2>2
  <2> QED BY <1>1, <2>3
<1>3. Told(layers) = FlattenSeq(seqs)
  BY DEF Told
<1> HIDE DEF S, seqs
<1>4. Told(layers) \in Seq(S)
  <2>1. <<>> \in Seq(S) /\ \A s, t \in Seq(S) : s \o t \in Seq(S)
    OBVIOUS
  <2>2. Len(seqs) \in Nat /\ (Len(seqs) = 0 => seqs = <<>>)
        /\ \A i \in 1..Len(seqs) : seqs[i] \in Seq(S)
    BY <1>2
  <2> DEFINE C == Seq(S)
  <2>3. FlattenSeq(seqs) \in C
    <3> HIDE DEF C
    <3> QED BY <2>1, <2>2, FlattenCloses DEF C
  <2> QED BY <1>3, <2>3
<1> QED BY <1>4 DEF IsSeq

\* The frames of one physical frame.
Walkable(physical) == physical.addr \in Nat /\ IsSeq(physical.layers)

LEMMA ExpandedFrames ==
  ASSUME NEW physical, Walkable(physical)
  PROVE  LET F == Expanded(physical) IN
         /\ IsSeq(F) /\ (Len(F) = 0 => F = <<>>)
         /\ \A i \in 1..Len(F) : Made(F[i])
         /\ Follows(F)
<1> DEFINE module == FindModule(physical.addr)
           layers == Told(physical.layers)
           F == Expanded(physical)
<1>1. IsSeq(layers) /\ (layers # <<>> => Len(layers) > 0)
  BY ToldSeq DEF Walkable
<1>2. F = IF layers = <<>>
          THEN IF DebugIdFor(module.build) = "none" THEN <<>>
               ELSE <<Frame(Nameless, physical, module, FALSE)>>
          ELSE [i \in DOMAIN layers |-> Frame(layers[i], physical, module, i # Len(layers))]
  BY DEF Expanded
<1> HIDE DEF F, layers
<1>3. CASE layers = <<>> /\ DebugIdFor(module.build) = "none"
  <2>1. F = <<>>
    BY <1>2, <1>3
  <2> QED BY <2>1 DEF IsSeq, Follows, F
<1>4. CASE layers = <<>> /\ DebugIdFor(module.build) # "none"
  <2> DEFINE f == Frame(Nameless, physical, module, FALSE)
  <2>1. F = <<f>>
    BY <1>2, <1>4
  <2>2. Made(f) /\ ~f.inline
    BY MadeFrame DEF Walkable
  <2> HIDE DEF f
  <2>3. Len(F) = 1 /\ F[1] = f /\ F = [i \in 1..1 |-> F[i]]
    BY <2>1
  <2> QED BY <2>2, <2>3 DEF IsSeq, Follows, F
<1>5. CASE layers # <<>>
  <2> DEFINE n == Len(layers)
             Of(i) == Frame(layers[i], physical, module, i # n)
  <2>1. n \in Nat \ {0} /\ DOMAIN layers = 1..n
    BY <1>1, <1>5 DEF IsSeq
  <2>2. F = [i \in 1..n |-> Of(i)]
    BY <1>2, <1>5, <2>1
  <2>3. ASSUME NEW i \in 1..n
        PROVE  /\ Made(Of(i))
               /\ Of(i).addr = IF DebugIdFor(module.build) # "none" THEN physical.addr ELSE 0
               /\ Of(i).inline => i # n
    <3>1. physical.addr \in Nat
      BY DEF Walkable
    <3> DEFINE inline == i # n
    <3>2. inline \in BOOLEAN
      OBVIOUS
    <3> HIDE DEF inline, n
    <3>3. LET f == Frame(layers[i], physical, module, inline)
          IN  /\ Made(f)
              /\ f.addr = IF DebugIdFor(module.build) # "none" THEN physical.addr ELSE 0
              /\ inline = FALSE => ~f.inline
      BY <3>1, <3>2, MadeFrame
    <3> QED BY <3>3 DEF inline
  <2> HIDE DEF n, Of
  <2>4. Len(F) = n /\ F = [i \in 1..n |-> F[i]] /\ \A i \in 1..n : F[i] = Of(i)
    BY <2>1, <2>2
  <2>5. Follows(F)
    <3>1. ASSUME NEW i \in 1..n, F[i].inline PROVE i < n /\ F[i + 1].addr = F[i].addr
      <4>1. i # n
        BY <2>3, <2>4, <3>1
      <4>2. i < n /\ i + 1 \in 1..n
        BY <2>1, <4>1
      <4> QED BY <2>3, <2>4, <4>2
    <3> QED BY <2>4, <3>1 DEF Follows
  <2> QED BY <2>1, <2>3, <2>4, <2>5 DEF IsSeq, F
<1> QED BY <1>3, <1>4, <1>5

\* One walk after another.
LEMMA FollowsOn ==
  ASSUME NEW R, NEW s \in Seq(R), NEW t \in Seq(R), Follows(s), Follows(t)
  PROVE  s \o t \in Seq(R) /\ Follows(s \o t)
<1>1. /\ s \o t \in Seq(R) /\ Len(s \o t) = Len(s) + Len(t)
      /\ \A i \in 1..Len(s) : (s \o t)[i] = s[i]
      /\ \A i \in (Len(s) + 1)..(Len(s) + Len(t)) : (s \o t)[i] = t[i - Len(s)]
  OBVIOUS
<1>2. ASSUME NEW i \in 1..Len(s \o t), (s \o t)[i].inline
      PROVE  i < Len(s \o t) /\ (s \o t)[i + 1].addr = (s \o t)[i].addr
  <2>1. CASE i <= Len(s)
    <3>1. i \in 1..Len(s) /\ (s \o t)[i] = s[i]
      BY <1>1, <2>1
    <3>2. i < Len(s) /\ s[i + 1].addr = s[i].addr
      BY <1>2, <3>1 DEF Follows
    <3>3. i + 1 \in 1..Len(s)
      BY <3>2
    <3> QED BY <1>1, <3>1, <3>2, <3>3
  <2>2. CASE i > Len(s)
    <3> DEFINE j == i - Len(s)
    <3>1. j \in 1..Len(t) /\ (s \o t)[i] = t[j]
      BY <1>1, <2>2
    <3> HIDE DEF j
    <3>2. j < Len(t) /\ t[j + 1].addr = t[j].addr
      BY <1>2, <3>1 DEF Follows
    <3>3. /\ i + 1 \in (Len(s) + 1)..(Len(s) + Len(t)) /\ (i + 1) - Len(s) = j + 1
          /\ i < Len(s) + Len(t)
      BY <2>2, <3>1, <3>2 DEF j
    <3>4. (s \o t)[i + 1] = t[j + 1]
      BY <1>1, <3>3
    <3> QED BY <1>1, <3>1, <3>2, <3>3, <3>4
  <2> QED BY <1>1, <2>1, <2>2
<1> QED BY <1>1, <1>2 DEF Follows

\* The whole walk: a set of frames as they are made, and the order they come in.
LEMMA WalkFrames ==
  ASSUME NEW stack, IsSeq(stack), \A i \in 1..Len(stack) : Walkable(stack[i])
  PROVE  \E R : /\ \A f \in R : Made(f)
                /\ CaptureFramesCurrentFirst(stack) \in Seq(R)
                /\ Follows(CaptureFramesCurrentFirst(stack))
<1> DEFINE n == Len(stack)
           Of(i) == Expanded(stack[i])
           R == UNION {{Of(i)[j] : j \in 1..Len(Of(i))} : i \in 1..n}
           C == {s \in Seq(R) : Follows(s)}
           seqs == [i \in DOMAIN stack |-> Of(i)]
<1>1. ASSUME NEW i \in 1..n
      PROVE  /\ IsSeq(Of(i)) /\ Follows(Of(i)) /\ (\A j \in 1..Len(Of(i)) : Made(Of(i)[j]))
  BY <1>1, ExpandedFrames
<1>2. n \in Nat /\ DOMAIN stack = 1..n
  BY DEF IsSeq
<1> HIDE DEF Of, n
<1>3. \A f \in R : Made(f)
  BY <1>1
<1>4. ASSUME NEW i \in 1..n PROVE Of(i) \in C
  <2>1. \A j \in 1..Len(Of(i)) : Of(i)[j] \in R
    OBVIOUS
  <2> HIDE DEF R
  <2>2. Of(i) \in [1..Len(Of(i)) -> R] /\ Len(Of(i)) \in Nat
    BY <1>1, <2>1 DEF IsSeq
  <2>3. Of(i) \in Seq(R)
    BY <2>2
  <2> QED BY <1>1, <2>3
<1> HIDE DEF R
<1>5. <<>> \in C
  BY DEF Follows
<1>6. \A s, t \in C : s \o t \in C
  BY FollowsOn
<1>7. Len(seqs) = n /\ (n = 0 => seqs = <<>>) /\ \A i \in 1..n : seqs[i] = Of(i)
  BY <1>2
<1>8. CaptureFramesCurrentFirst(stack) = FlattenSeq(seqs)
  BY DEF CaptureFramesCurrentFirst, Of
<1> HIDE DEF C, seqs
<1>9. FlattenSeq(seqs) \in C
  BY <1>2, <1>4, <1>5, <1>6, <1>7, FlattenCloses
<1> QED BY <1>3, <1>8, <1>9 DEF C
-----------------------------------------------------------------------------
(* From the walk to the trace. *)

LEMMA FromIndexed ==
  ASSUME NEW S, NEW F \in Seq(S), NEW k \in 1..Len(F) + 1
  PROVE  LET G == FromIndex(F, k) IN
         /\ G \in Seq(S) /\ Len(G) = Len(F) - k + 1
         /\ \A i \in 1..Len(G) : G[i] = F[k + i - 1]
<1>1. k \in Int /\ Len(F) \in Int /\ \A i \in k..Len(F) : F[i] \in S
  OBVIOUS
<1>2. /\ SubSeq(F, k, Len(F)) \in Seq(S)
      /\ Len(SubSeq(F, k, Len(F))) = IF k <= Len(F) THEN Len(F) - k + 1 ELSE 0
      /\ \A i \in 1..Len(F) - k + 1 : SubSeq(F, k, Len(F))[i] = F[k + i - 1]
  BY <1>1, SubSeqProperties
<1> QED BY <1>2 DEF FromIndex

\* Frame i of a walk, innermost first, does not belong to a trace that starts at frame k.
Inside(F, i, k, panic) ==
  \/ IsInternalCaptureFrame(F[i].name)
  \/ \E j \in i..k - 1 : F[j].entry \in CaptureEntries
  \/ k <= Len(F) /\ panic /\ IsPanicDispatcherFrame(F[k].name)

\* A cut of F at k, before which there is nothing to tell but the SDK's.
LEMMA PinnedStripped ==
  ASSUME NEW S, NEW F \in Seq(S), NEW pinned, pinned \subseteq CaptureEntries,
         \A i \in 1..Len(F) : F[i].entry \in CaptureEntries => i <= PrefixScan /\ F[i].entry \in pinned
  PROVE  \E k \in 1..Len(F) + 1 :
           /\ StripPinnedPrefix(F, pinned) = FromIndex(F, k)
           /\ \A i \in k..Len(F) : F[i].entry \notin CaptureEntries
           /\ k > 1 => F[k - 1].entry \in CaptureEntries
<1> DEFINE own == {i \in 1..Least(Len(F), PrefixScan) : F[i].entry \in pinned}
           last == CHOOSE i \in own : \A j \in own : j <= i
<1>0. Len(F) \in Nat /\ PrefixScan \in Nat
  BY ReportAssumption
<1>1. \A i \in 1..Len(F) : i \in own <=> i <= PrefixScan /\ F[i].entry \in pinned
  BY <1>0 DEF Least
<1>2. own \subseteq 1..Len(F)
  BY <1>0 DEF Least
<1>3. StripPinnedPrefix(F, pinned) = IF own = {} THEN F ELSE FromIndex(F, 1 + last)
  BY DEF StripPinnedPrefix
<1>4. \A i \in 1..Len(F) : F[i].entry \in CaptureEntries => i \in own
  BY <1>1
<1> HIDE DEF own
<1>5. CASE own = {}
  <2>1. FromIndex(F, 1) = F
    BY SubSeqFull DEF FromIndex
  <2>2. 1 \in 1..Len(F) + 1
    BY <1>0
  <2> QED BY <1>3, <1>4, <1>5, <2>1, <2>2
<1>6. CASE own # {}
  <2>1. \E i \in own : \A j \in own : j <= i
    <3> DEFINE T == {Len(F) - i : i \in own}
    <3>1. T \subseteq Nat /\ T # {}
      <4>1. \A i \in own : Len(F) - i \in Nat
        BY <1>0, <1>2
      <4>2. PICK i \in own : TRUE
        BY <1>6
      <4>3. Len(F) - i \in T
        OBVIOUS
      <4> QED BY <4>1, <4>3
    <3>2. PICK x \in T : \A y \in T : x <= y
      <4> HIDE DEF T
      <4> QED BY <3>1, NatMinimum
    <3>3. PICK i \in own : x = Len(F) - i
      BY <3>2
    <3>4. \A j \in own : Len(F) - j \in T
      OBVIOUS
    <3>5. \A j \in own : Len(F) - i <= Len(F) - j
      BY <3>2, <3>3, <3>4
    <3> HIDE DEF T
    <3> QED BY <1>0, <1>2, <3>3, <3>5
  <2>2. last \in own /\ \A j \in own : j <= last
    BY <2>1
  <2> HIDE DEF last
  <2>3. last \in 1..Len(F)
    BY <1>2, <2>2
  <2>4. 1 + last \in 1..Len(F) + 1 /\ (1 + last) - 1 = last
    BY <1>0, <2>3
  <2>6. F[last].entry \in CaptureEntries
    BY <1>1, <2>2, <2>3
  <2>5. \A i \in (1 + last)..Len(F) : F[i].entry \notin CaptureEntries
    <3> SUFFICES ASSUME NEW i \in (1 + last)..Len(F), F[i].entry \in CaptureEntries PROVE FALSE
      OBVIOUS
    <3>1. i \in 1..Len(F) /\ ~(i <= last)
      BY <1>0, <2>3
    <3> QED BY <1>4, <2>2, <3>1
  <2> QED BY <1>3, <1>6, <2>4, <2>5, <2>6
<1> QED BY <1>5, <1>6

LEMMA InternalStripped ==
  ASSUME NEW S, NEW F \in Seq(S)
  PROVE  \E k \in 1..Len(F) + 1 :
           /\ StripInternal(F) = FromIndex(F, k)
           /\ k <= Len(F) => ~IsInternalCaptureFrame(F[k].name)
           /\ \A i \in 1..k - 1 : IsInternalCaptureFrame(F[i].name)
<1> DEFINE others == {i \in DOMAIN F : ~IsInternalCaptureFrame(F[i].name)}
           first == CHOOSE i \in others : \A j \in others : i <= j
<1>0. Len(F) \in Nat /\ DOMAIN F = 1..Len(F)
  OBVIOUS
<1>1. /\ others \subseteq 1..Len(F) /\ \A i \in others : ~IsInternalCaptureFrame(F[i].name)
      /\ \A i \in 1..Len(F) : i \in others \/ IsInternalCaptureFrame(F[i].name)
  BY <1>0
<1>2. StripInternal(F) = IF others = {} THEN <<>> ELSE FromIndex(F, first)
  BY DEF StripInternal
<1> HIDE DEF others
<1>3. CASE others = {}
  <2>1. FromIndex(F, Len(F) + 1) = <<>>
    BY <1>0, SubSeqEmpty DEF FromIndex
  <2>2. Len(F) + 1 \in 1..Len(F) + 1 /\ ~(Len(F) + 1 <= Len(F)) /\ (Len(F) + 1) - 1 = Len(F)
    BY <1>0
  <2>3. \A i \in 1..Len(F) : IsInternalCaptureFrame(F[i].name)
    BY <1>1, <1>3
  <2> QED BY <1>2, <1>3, <2>1, <2>2, <2>3
<1>4. CASE others # {}
  <2>1. others \subseteq Nat
    BY <1>0, <1>1
  <2>2. first \in others /\ \A j \in others : first <= j
    BY <1>4, <2>1, NatMinimum
  <2> HIDE DEF first
  <2>3. first \in 1..Len(F) + 1
    BY <1>0, <1>1, <2>2
  <2>4. ASSUME NEW i \in 1..first - 1 PROVE IsInternalCaptureFrame(F[i].name)
    <3>1. i \in 1..Len(F) /\ ~(first <= i)
      BY <1>0, <2>3
    <3> QED BY <1>1, <2>2, <3>1
  <2> QED BY <1>1, <1>2, <1>4, <2>2, <2>3, <2>4
<1> QED BY <1>3, <1>4

\* A cut of a cut.
LEMMA CutTwice ==
  ASSUME NEW S, NEW F \in Seq(S), NEW k \in 1..Len(F) + 1,
         NEW j \in 1..Len(FromIndex(F, k)) + 1
  PROVE  /\ k + j - 1 \in 1..Len(F) + 1 /\ k + j - 1 >= k
         /\ FromIndex(FromIndex(F, k), j) = FromIndex(F, k + j - 1)
         /\ j <= Len(FromIndex(F, k)) =>
              k + j - 1 <= Len(F) /\ FromIndex(F, k)[j] = F[k + j - 1]
<1> DEFINE G == FromIndex(F, k)
           H == FromIndex(G, j)
           I == FromIndex(F, k + j - 1)
<1>1. G \in Seq(S) /\ Len(G) = Len(F) - k + 1 /\ \A i \in 1..Len(G) : G[i] = F[k + i - 1]
  BY FromIndexed, Zenon
<1>2. j \in 1..Len(G) + 1
  OBVIOUS
<1> HIDE DEF G
<1>3. H \in Seq(S) /\ Len(H) = Len(G) - j + 1 /\ \A i \in 1..Len(H) : H[i] = G[j + i - 1]
  <2>1. G \in Seq(S)
    BY <1>1, Zenon
  <2> QED BY <2>1, <1>2, FromIndexed, Zenon
<1>4. k + j - 1 \in 1..Len(F) + 1 /\ k + j - 1 >= k
  BY <1>1, <1>2
<1>5. I \in Seq(S) /\ Len(I) = Len(F) - (k + j - 1) + 1 /\ \A i \in 1..Len(I) : I[i] = F[(k + j - 1) + i - 1]
  BY <1>4, FromIndexed, Zenon
<1> HIDE DEF H, I
<1>6. Len(H) = Len(I)
  <2>1. Len(G) = Len(F) - k + 1 /\ Len(F) \in Nat /\ k \in Int /\ j \in Int
    BY <1>1, <1>2
  <2>2. Len(H) = Len(G) - j + 1
    BY <1>3
  <2>3. Len(I) = Len(F) - (k + j - 1) + 1
    BY <1>5
  <2> QED BY <2>1, <2>2, <2>3
<1>7. \A i \in 1..Len(H) : H[i] = I[i]
  <2> TAKE i \in 1..Len(H)
  <2>0. Len(H) = Len(G) - j + 1 /\ Len(G) = Len(F) - k + 1 /\ Len(F) \in Nat
    BY <1>1, <1>3
  <2>1. j + i - 1 \in 1..Len(G) /\ k + (j + i - 1) - 1 = (k + j - 1) + i - 1
    BY <1>2, <2>0
  <2>2. H[i] = G[j + i - 1]
    BY <1>3
  <2>3. G[j + i - 1] = F[k + (j + i - 1) - 1]
    BY <1>1, <2>1
  <2>4. I[i] = F[(k + j - 1) + i - 1]
    BY <1>5, <1>6
  <2> QED BY <2>1, <2>2, <2>3, <2>4
<1>8. H = I
  <2>1. H = [i \in 1..Len(H) |-> H[i]]
    BY <1>3
  <2>2. I = [i \in 1..Len(I) |-> I[i]]
    BY <1>5
  <2> QED BY <1>6, <1>7, <2>1, <2>2, Zenon
<1>9. j <= Len(G) => k + j - 1 <= Len(F) /\ G[j] = F[k + j - 1]
  BY <1>1, <1>2
<1> QED BY <1>4, <1>8, <1>9 DEF G, H, I

\* The trace of an error and of a panic: the walk from the first frame on that the SDK's
\* capture has no part in, outermost first.
LEMMA ErrorCut ==
  ASSUME NEW S, NEW stack, CaptureFramesCurrentFirst(stack) \in Seq(S),
         LET F == CaptureFramesCurrentFirst(stack) IN
         \A i \in 1..Len(F) : F[i].entry \in CaptureEntries =>
           i <= PrefixScan /\ F[i].entry # "capture_raw_panic_frames"
  PROVE  LET F == CaptureFramesCurrentFirst(stack) IN
         \E k \in 1..Len(F) + 1 :
           /\ CaptureRawApplicationFrames(stack) = Reverse(FromIndex(F, k))
           /\ k <= Len(F) => ~AtCapture(F[k])
           /\ \A i \in 1..k - 1 : Inside(F, i, k, FALSE)
<1> DEFINE F == CaptureFramesCurrentFirst(stack)
           pinned == {"capture_frames_current_first", "capture_raw_application_frames"}
<1>1. CaptureRawApplicationFrames(stack) = Reverse(StripInternal(StripPinnedPrefix(F, pinned)))
  BY DEF CaptureRawApplicationFrames
<1>2. /\ pinned \subseteq CaptureEntries /\ F \in Seq(S)
      /\ \A i \in 1..Len(F) : F[i].entry \in CaptureEntries => i <= PrefixScan /\ F[i].entry \in pinned
  BY DEF CaptureEntries
<1> HIDE DEF F, pinned
<1>3. PICK k \in 1..Len(F) + 1 : /\ StripPinnedPrefix(F, pinned) = FromIndex(F, k)
                                 /\ \A i \in k..Len(F) : F[i].entry \notin CaptureEntries
                                 /\ k > 1 => F[k - 1].entry \in CaptureEntries
  BY <1>2, PinnedStripped
<1> DEFINE G == FromIndex(F, k)
<1>4. G \in Seq(S)
  BY <1>2, FromIndexed
<1>5. PICK j \in 1..Len(G) + 1 : /\ StripInternal(G) = FromIndex(G, j)
                                 /\ j <= Len(G) => ~IsInternalCaptureFrame(G[j].name)
                                 /\ \A i \in 1..j - 1 : IsInternalCaptureFrame(G[i].name)
  <2> HIDE DEF G
  <2> QED BY <1>4, InternalStripped
<1>6. /\ k + j - 1 \in 1..Len(F) + 1 /\ k + j - 1 >= k
      /\ FromIndex(G, j) = FromIndex(F, k + j - 1)
      /\ j <= Len(G) => k + j - 1 <= Len(F) /\ G[j] = F[k + j - 1]
  BY <1>2, CutTwice
<1>7. Len(G) = Len(F) - k + 1 /\ Len(F) \in Nat /\ \A i \in 1..Len(G) : G[i] = F[k + i - 1]
  <2>1. F \in Seq(S) /\ Len(F) \in Nat
    BY <1>2
  <2>2. Len(G) = Len(F) - k + 1 /\ \A i \in 1..Len(G) : G[i] = F[k + i - 1]
    BY <2>1, FromIndexed, Zenon
  <2> HIDE DEF G
  <2> QED BY <2>1, <2>2, Zenon
<1> HIDE DEF G
<1>10. ASSUME NEW i \in 1..(k + j - 1) - 1 PROVE Inside(F, i, k + j - 1, FALSE)
  <2>1. CASE i < k
    <3>1. k > 1 /\ k - 1 \in i..(k + j - 1) - 1
      BY <1>6, <2>1
    <3> QED BY <1>3, <3>1 DEF Inside
  <2>2. CASE ~(i < k)
    <3>1. i - k + 1 \in 1..j - 1 /\ i - k + 1 \in 1..Len(G) /\ k + (i - k + 1) - 1 = i
      BY <1>7, <2>2
    <3> QED BY <1>5, <1>7, <3>1 DEF Inside
  <2> QED BY <2>1, <2>2
<1>8. k + j - 1 <= Len(F) => ~AtCapture(F[k + j - 1])
  <2> SUFFICES ASSUME k + j - 1 <= Len(F) PROVE ~AtCapture(F[k + j - 1])
    OBVIOUS
  <2>1. j <= Len(G) /\ k + j - 1 \in k..Len(F)
    BY <1>6, <1>7
  <2> QED BY <1>3, <1>5, <1>6, <2>1 DEF AtCapture
<1>9. CaptureRawApplicationFrames(stack) = Reverse(FromIndex(F, k + j - 1))
  BY <1>1, <1>3, <1>5, <1>6 DEF G
<1> QED BY <1>6, <1>8, <1>9, <1>10 DEF F

LEMMA PanicCut ==
  ASSUME NEW S, NEW stack, CaptureFramesCurrentFirst(stack) \in Seq(S),
         LET F == CaptureFramesCurrentFirst(stack) IN
         \A i \in 1..Len(F) :
           /\ F[i].entry \in CaptureEntries =>
                i <= PrefixScan /\ F[i].entry # "capture_raw_application_frames"
           /\ IsPanicDispatcherFrame(F[i].name) => ~IsInternalCaptureFrame(F[i].name)
  PROVE  LET F == CaptureFramesCurrentFirst(stack) IN
         \E k \in 1..Len(F) + 1 :
           /\ CaptureRawPanicFrames(stack) = Reverse(FromIndex(F, k))
           /\ k <= Len(F) => ~AtCapture(F[k])
           /\ \A i \in 1..k - 1 : Inside(F, i, k, TRUE)
<1> DEFINE F == CaptureFramesCurrentFirst(stack)
           pinned == {"capture_frames_current_first", "capture_raw_panic_frames"}
           G == StripPinnedPrefix(F, pinned)
           dispatchers == {i \in 1..Least(Len(G), PanicScan) : IsPanicDispatcherFrame(G[i].name)}
           first == CHOOSE i \in dispatchers : \A j \in dispatchers : i <= j
           H == IF dispatchers = {} THEN StripInternal(G) ELSE FromIndex(G, first)
<1>1. CaptureRawPanicFrames(stack) = Reverse(H)
  BY DEF CaptureRawPanicFrames
<1>2. /\ pinned \subseteq CaptureEntries /\ F \in Seq(S)
      /\ \A i \in 1..Len(F) : F[i].entry \in CaptureEntries => i <= PrefixScan /\ F[i].entry \in pinned
      /\ \A i \in 1..Len(F) : IsPanicDispatcherFrame(F[i].name) => ~IsInternalCaptureFrame(F[i].name)
  BY DEF CaptureEntries
<1> HIDE DEF F, pinned
<1>3. PICK k \in 1..Len(F) + 1 : /\ G = FromIndex(F, k)
                                 /\ \A i \in k..Len(F) : F[i].entry \notin CaptureEntries
                                 /\ k > 1 => F[k - 1].entry \in CaptureEntries
  BY <1>2, PinnedStripped
<1>4. G \in Seq(S) /\ Len(G) = Len(F) - k + 1 /\ Len(F) \in Nat
      /\ \A i \in 1..Len(G) : G[i] = F[k + i - 1]
  <2> DEFINE I == FromIndex(F, k)
  <2>1. F \in Seq(S) /\ Len(F) \in Nat
    BY <1>2
  <2>2. /\ I \in Seq(S) /\ Len(I) = Len(F) - k + 1
        /\ \A i \in 1..Len(I) : I[i] = F[k + i - 1]
    BY <2>1, FromIndexed, Zenon
  <2>3. G = I
    BY <1>3, Zenon
  <2> HIDE DEF I, G
  <2> QED BY <2>1, <2>2, <2>3
<1> HIDE DEF G
<1> DEFINE Off(i, j) == \/ IsInternalCaptureFrame(G[i].name)
                        \/ j <= Len(G) /\ IsPanicDispatcherFrame(G[j].name)
<1>5. \E j \in 1..Len(G) + 1 : /\ H = FromIndex(G, j)
                               /\ j <= Len(G) => ~IsInternalCaptureFrame(G[j].name)
                               /\ \A i \in 1..j - 1 : Off(i, j)
  <2>1. CASE dispatchers = {}
    <3>1. H = StripInternal(G)
      BY <2>1
    <3> HIDE DEF H
    <3> QED BY <1>4, <3>1, InternalStripped
  <2>2. CASE dispatchers # {}
    <3>1. dispatchers \subseteq 1..Len(G)
      BY <1>4, ReportAssumption DEF Least
    <3>2. dispatchers \subseteq Nat
      BY <3>1
    <3>3. first \in dispatchers
      <4> HIDE DEF dispatchers
      <4> QED BY <2>2, <3>2, NatMinimum
    <3>4. IsPanicDispatcherFrame(G[first].name)
      BY <3>3
    <3>5. H = FromIndex(G, first)
      BY <2>2
    <3> HIDE DEF H, first, dispatchers
    <3>6. first \in 1..Len(G)
      BY <3>1, <3>3
    <3>7. first \in 1..Len(G) + 1 /\ k + first - 1 \in 1..Len(F) /\ G[first] = F[k + first - 1]
      BY <1>4, <3>6
    <3>8. ~IsInternalCaptureFrame(G[first].name)
      BY <1>2, <3>4, <3>7
    <3>9. \A i \in 1..first - 1 : Off(i, first)
      BY <1>4, <3>4, <3>6
    <3> HIDE DEF Off
    <3> QED BY <3>5, <3>7, <3>8, <3>9
  <2> QED BY <2>1, <2>2
<1> HIDE DEF H
<1>6. PICK j \in 1..Len(G) + 1 : /\ H = FromIndex(G, j)
                                 /\ j <= Len(G) => ~IsInternalCaptureFrame(G[j].name)
                                 /\ \A i \in 1..j - 1 : Off(i, j)
  BY <1>5
<1>7. /\ k + j - 1 \in 1..Len(F) + 1 /\ k + j - 1 >= k
      /\ FromIndex(G, j) = FromIndex(F, k + j - 1)
      /\ j <= Len(G) => k + j - 1 <= Len(F) /\ G[j] = F[k + j - 1]
  BY <1>2, <1>3, CutTwice
<1>8. k + j - 1 <= Len(F) => ~AtCapture(F[k + j - 1])
  <2> SUFFICES ASSUME k + j - 1 <= Len(F) PROVE ~AtCapture(F[k + j - 1])
    OBVIOUS
  <2>1. j <= Len(G) /\ k + j - 1 \in k..Len(F)
    BY <1>4, <1>7
  <2> QED BY <1>3, <1>6, <1>7, <2>1 DEF AtCapture
<1>9. CaptureRawPanicFrames(stack) = Reverse(FromIndex(F, k + j - 1))
  BY <1>1, <1>6, <1>7
<1>10. ASSUME NEW i \in 1..(k + j - 1) - 1 PROVE Inside(F, i, k + j - 1, TRUE)
  <2>1. CASE i < k
    <3>1. k > 1 /\ k - 1 \in i..(k + j - 1) - 1
      BY <1>7, <2>1
    <3> QED BY <1>3, <3>1 DEF Inside
  <2>2. CASE ~(i < k)
    <3>1. i - k + 1 \in 1..j - 1 /\ i - k + 1 \in 1..Len(G) /\ k + (i - k + 1) - 1 = i
      BY <1>4, <2>2
    <3>2. G[i - k + 1] = F[i] /\ Off(i - k + 1, j)
      BY <1>4, <1>6, <3>1
    <3> QED BY <1>7, <3>2 DEF Inside
  <2> QED BY <2>1, <2>2
<1> QED BY <1>7, <1>8, <1>9, <1>10 DEF F
-----------------------------------------------------------------------------
(* From the trace to what is sent of it. *)

LEMMA Reversed ==
  ASSUME NEW S, NEW F \in Seq(S)
  PROVE  /\ Reverse(F) \in Seq(S) /\ Len(Reverse(F)) = Len(F)
         /\ \A i \in 1..Len(F) : Reverse(F)[i] = F[(Len(F) - i) + 1]
<1> DEFINE n == Len(F)
           B == Reverse(F)
<1>1. B = [i \in 1..n |-> F[(n - i) + 1]] /\ n \in Nat
  BY DEF Reverse
<1>2. \A i \in 1..n : (n - i) + 1 \in 1..n /\ F[(n - i) + 1] \in S
  OBVIOUS
<1> HIDE DEF B, n
<1>3. B \in [1..n -> S] /\ \A i \in 1..n : B[i] = F[(n - i) + 1]
  BY <1>1, <1>2
<1>4. B \in Seq(S) /\ Len(B) = n
  BY <1>1, <1>3
<1> QED BY <1>3, <1>4 DEF B, n

\* What is asked of a frame that is the app's.
Asked(f, options) ==
  /\ f.path # <<>> \/ f.name # <<>>
  /\ \A p \in options.exclude : ~HasRun(f.path, <<p>>) /\ ~HasRun(f.name, <<p>>)

\* A frame as it is made, classified.
Like(c, f, options) ==
  /\ c.path = f.path /\ c.name = f.name /\ c.addr = f.addr /\ c.entry = f.entry
  /\ c.image = f.image /\ c.inline = f.inline
  /\ [c EXCEPT !.in_app = FALSE] = f
  /\ c.in_app => Asked(c, options)

LEMMA ClassifiedFrame ==
  ASSUME NEW f, Made(f), NEW options
  PROVE  LET c == IF f.path = <<>> /\ f.name = <<>> THEN f
                  ELSE [f EXCEPT !.in_app = IsInAppFrame(options, f.path, f.name)]
         IN  Like(c, f, options)
<1>0. f = [path |-> f.path, name |-> f.name, in_app |-> FALSE, addr |-> f.addr,
           entry |-> f.entry, image |-> f.image, inline |-> f.inline]
  BY DEF Made
<1>1. CASE f.path = <<>> /\ f.name = <<>>
  <2>1. [f EXCEPT !.in_app = FALSE] = f
    BY <1>0
  <2>2. ~f.in_app
    BY <1>0
  <2> QED BY <1>1, <2>1, <2>2 DEF Like
<1>2. CASE ~(f.path = <<>> /\ f.name = <<>>)
  <2> DEFINE app == IsInAppFrame(options, f.path, f.name)
             c == [f EXCEPT !.in_app = app]
  <2>1. app => \A p \in options.exclude : ~HasRun(f.path, <<p>>) /\ ~HasRun(f.name, <<p>>)
    BY DEF IsInAppFrame, Matches
  <2> HIDE DEF app
  <2>2. /\ c.path = f.path /\ c.name = f.name /\ c.addr = f.addr /\ c.entry = f.entry
        /\ c.image = f.image /\ c.inline = f.inline /\ c.in_app = app
    BY <1>0
  <2>3. [c EXCEPT !.in_app = FALSE] = f
    <3> DEFINE r == [c EXCEPT !.in_app = FALSE]
    <3>1. /\ r = [x \in DOMAIN r |-> r[x]]
          /\ DOMAIN r = {"path", "name", "in_app", "addr", "entry", "image", "inline"}
      BY <1>0
    <3>2. /\ r.path = f.path /\ r.name = f.name /\ r.in_app = FALSE /\ r.addr = f.addr
          /\ r.entry = f.entry /\ r.image = f.image /\ r.inline = f.inline
      BY <1>0
    <3> HIDE DEF c, r
    <3>3. r = [path |-> f.path, name |-> f.name, in_app |-> FALSE, addr |-> f.addr,
               entry |-> f.entry, image |-> f.image, inline |-> f.inline]
      BY <3>1, <3>2
    <3> QED BY <1>0, <3>3 DEF r
  <2> HIDE DEF c
  <2>4. Like(c, f, options)
    BY <1>2, <2>1, <2>2, <2>3 DEF Like, Asked
  <2> QED BY <1>2, <2>4 DEF c, app
<1> QED BY <1>1, <1>2

LEMMA TrimmedFrames ==
  ASSUME NEW S, NEW C \in Seq(S), NEW max \in Nat
  PROVE  \E c \in 1..Len(C) + 1 :
           /\ TrimToMaxFrames(C, max) = FromIndex(C, c)
           /\ Len(C) - c + 1 <= max
           /\ (1 < c /\ c <= Len(C)) => ~C[c].inline
           /\ \A i \in 1..c - 1 : i <= Len(C) - max \/ C[i].inline
<1> DEFINE n == Len(C)
           whole == {i \in n - max + 1 .. n : ~C[i].inline}
           first == CHOOSE i \in whole : \A j \in whole : i <= j
<1>0. n \in Nat
  OBVIOUS
<1>1. TrimToMaxFrames(C, max)
        = IF n <= max THEN C ELSE IF whole = {} THEN <<>> ELSE FromIndex(C, first)
  BY DEF TrimToMaxFrames
<1>2. CASE n <= max
  <2>1. FromIndex(C, 1) = C
    BY SubSeqFull DEF FromIndex
  <2> HIDE DEF whole, first
  <2> QED BY <1>0, <1>1, <1>2, <2>1
<1>3. CASE ~(n <= max) /\ whole = {}
  <2>1. FromIndex(C, n + 1) = <<>>
    BY <1>0, SubSeqEmpty DEF FromIndex
  <2>2. \A i \in 1..n : i <= n - max \/ C[i].inline
    <3> TAKE i \in 1..n
    <3>1. i <= n - max \/ i \in n - max + 1 .. n
      BY <1>0
    <3> QED BY <1>3, <3>1
  <2> HIDE DEF whole, first
  <2> QED BY <1>0, <1>1, <1>3, <2>1, <2>2
<1>4. CASE ~(n <= max) /\ whole # {}
  <2>1. whole \subseteq Nat
    BY <1>0, <1>4
  <2>2. first \in whole /\ \A j \in whole : first <= j
    <3> HIDE DEF whole
    <3> QED BY <1>4, <2>1, NatMinimum
  <2>3. TrimToMaxFrames(C, max) = FromIndex(C, first)
    BY <1>1, <1>4
  <2> HIDE DEF first
  <2>4. first \in n - max + 1 .. n /\ ~C[first].inline
    BY <2>2
  <2>5. ASSUME NEW i \in 1..first - 1 PROVE i <= n - max \/ C[i].inline
    <3>1. i <= n - max \/ i \in n - max + 1 .. n
      BY <1>0, <2>4
    <3>2. ~(first <= i)
      BY <1>0, <2>4
    <3> QED BY <2>2, <3>1, <3>2
  <2> HIDE DEF whole
  <2> QED BY <1>0, <1>4, <2>3, <2>4, <2>5
<1> QED BY <1>2, <1>3, <1>4

\* Groups are whole when every inline frame comes after one of its address.
LEMMA WholeGroups ==
  ASSUME NEW G, NEW m \in Nat, DOMAIN G = 1..m,
         \A i \in 1..m : G[i].inline => i > 1 /\ G[i - 1].addr = G[i].addr
  PROVE  GroupsWhole(G)
<1> SUFFICES ASSUME NEW i \in 1..m, G[i].inline
             PROVE  \E lead \in 1..i - 1 : /\ ~G[lead].inline
                                           /\ \A j \in lead..i : G[j].addr = G[i].addr
                                           /\ \A j \in lead + 1..i : G[j].inline
  BY DEF GroupsWhole
<1> DEFINE T == {x \in 0..(i - 1) : ~G[i - x].inline}
<1>1. T \subseteq Nat /\ T # {}
  <2>1. ~G[1].inline /\ i - (i - 1) = 1 /\ i - 1 \in 0..(i - 1)
    OBVIOUS
  <2>2. i - 1 \in T
    BY <2>1
  <2>3. T \subseteq Nat
    OBVIOUS
  <2> HIDE DEF T
  <2> QED BY <2>2, <2>3
<1>2. PICK x \in T : \A y \in T : x <= y
  <2> HIDE DEF T
  <2> QED BY <1>1, NatMinimum
<1> DEFINE lead == i - x
<1>3. x \in 1..(i - 1) /\ ~G[lead].inline
  BY <1>2
<1>4. ASSUME NEW j \in lead + 1..i PROVE G[j].inline
  <2>1. i - j \in 0..(i - 1) /\ i - (i - j) = j /\ ~(x <= i - j)
    BY <1>3
  <2> QED BY <1>2, <2>1
<1> HIDE DEF T
<1> DEFINE good == {d \in 0..x : G[i - d].addr = G[i].addr}
<1>5. 0 \in good
  BY <1>3
<1>6. ASSUME NEW d \in 0..(x - 1), d \in good PROVE d + 1 \in good
  <2>1. i - d \in lead + 1..i /\ i - d \in 1..m /\ i - (d + 1) = (i - d) - 1 /\ d + 1 \in 0..x
    BY <1>3, <1>6
  <2>2. G[i - d].inline
    BY <1>4, <2>1
  <2>3. G[(i - d) - 1].addr = G[i - d].addr
    BY <2>1, <2>2
  <2> QED BY <1>6, <2>1, <2>3
<1>7. 0..x \subseteq good
  <2> HIDE DEF good
  <2>1. x \in Nat /\ \A d \in 0..(x - 1) : d \in good => d + 1 \in good
    BY <1>3, <1>6
  <2> QED BY <1>5, <2>1, UpTo, Zenon
<1>8. ASSUME NEW j \in lead..i PROVE G[j].addr = G[i].addr
  <2>1. i - j \in 0..x /\ i - (i - j) = j
    BY <1>3
  <2>2. i - j \in good
    <3> HIDE DEF good
    <3> QED BY <1>7, <2>1
  <2> QED BY <2>1, <2>2
<1>9. lead \in 1..i - 1
  BY <1>3
<1> HIDE DEF lead
<1> QED BY <1>3, <1>4, <1>8, <1>9

\* All of the frames that are sent: a part of the walk, classified.
\* What is sent of the trace that starts at k of the walk F is the walk, outermost first, from
\* frame c on.
SentFrom(F, k, c, options) ==
  LET raw == Reverse(FromIndex(F, k))
      frames == TrimToMaxFrames(Classified(raw, options), MaxFrames)
      walked == Reverse(F)
      n == Len(F) - k + 1
  IN  /\ Len(raw) = n /\ DOMAIN raw = 1..n
      /\ \A i \in 1..n : raw[i] = walked[i]
      /\ Len(frames) = n - c + 1 /\ DOMAIN frames = 1..n - c + 1
      /\ n - c + 1 <= MaxFrames
      /\ \A i \in 1..n - c + 1 : Like(frames[i], walked[c + i - 1], options)
      /\ (1 < c /\ c <= n) => ~walked[c].inline
      /\ \A i \in 1..c - 1 : i <= n - MaxFrames \/ walked[i].inline
      /\ n - c + 1 = 0 => frames = <<>>

LEMMA SentFrames ==
  ASSUME NEW R, \A f \in R : Made(f), NEW F \in Seq(R), NEW k \in 1..Len(F) + 1, NEW options
  PROVE  \E c \in 1..(Len(F) - k + 1) + 1 : SentFrom(F, k, c, options)
<1> DEFINE G == FromIndex(F, k)
           raw == Reverse(G)
           walked == Reverse(F)
           n == Len(F) - k + 1
           C == Classified(raw, options)
<1>1. /\ G \in Seq(R) /\ Len(G) = n /\ n \in Nat /\ Len(F) \in Nat
      /\ \A i \in 1..n : G[i] = F[k + i - 1]
  <2>1. /\ G \in Seq(R) /\ Len(G) = n
        /\ \A i \in 1..Len(G) : G[i] = F[k + i - 1]
    BY FromIndexed, Zenon
  <2>2. n \in Nat /\ Len(F) \in Nat
    OBVIOUS
  <2> QED BY <2>1, <2>2, Zenon
<1> HIDE DEF G
<1>2. raw \in Seq(R) /\ Len(raw) = n /\ \A i \in 1..n : raw[i] = G[(n - i) + 1]
  <2>1. /\ raw \in Seq(R) /\ Len(raw) = Len(G)
        /\ \A i \in 1..Len(G) : raw[i] = G[(Len(G) - i) + 1]
    BY <1>1, Reversed, Zenon
  <2>2. Len(G) = n
    BY <1>1
  <2> HIDE DEF n, raw
  <2> QED BY <2>1, <2>2
<1>3. \A i \in 1..Len(F) : walked[i] = F[(Len(F) - i) + 1]
  BY Reversed, Zenon
<1> HIDE DEF raw, walked
<1>4. \A i \in 1..n : raw[i] = walked[i]
  <2> TAKE i \in 1..n
  <2>1. (n - i) + 1 \in 1..n /\ k + ((n - i) + 1) - 1 = (Len(F) - i) + 1 /\ i \in 1..Len(F)
    BY <1>1
  <2> QED BY <1>1, <1>2, <1>3, <2>1
<1> HIDE DEF n
<1>5. DOMAIN raw = 1..n /\ \A i \in 1..n : raw[i] \in R
  BY <1>1, <1>2
<1> DEFINE Of(i) == IF raw[i].path = <<>> /\ raw[i].name = <<>> THEN raw[i]
                    ELSE [raw[i] EXCEPT !.in_app = IsInAppFrame(options, raw[i].path, raw[i].name)]
           S == {Of(i) : i \in 1..n}
<1>6. C = [i \in 1..n |-> Of(i)]
  BY <1>5 DEF Classified
<1>7. \A i \in 1..n : Like(Of(i), walked[i], options)
  <2> TAKE i \in 1..n
  <2>1. Made(raw[i])
    BY <1>5
  <2>2. Like(Of(i), raw[i], options)
    BY <2>1, ClassifiedFrame
  <2> HIDE DEF Of
  <2> QED BY <1>4, <2>2
<1> HIDE DEF C, Of
<1>8. C \in Seq(S) /\ Len(C) = n /\ \A i \in 1..n : C[i] = Of(i)
  <2>1. \A i \in 1..n : Of(i) \in S
    OBVIOUS
  <2> HIDE DEF S
  <2>2. C \in [1..n -> S] /\ \A i \in 1..n : C[i] = Of(i)
    BY <1>6, <2>1
  <2> QED BY <1>1, <2>2
<1> HIDE DEF S
<1>9. MaxFrames \in Nat
  BY ReportAssumption
<1>10. PICK c \in 1..Len(C) + 1 :
         /\ TrimToMaxFrames(C, MaxFrames) = FromIndex(C, c)
         /\ Len(C) - c + 1 <= MaxFrames
         /\ (1 < c /\ c <= Len(C)) => ~C[c].inline
         /\ \A i \in 1..c - 1 : i <= Len(C) - MaxFrames \/ C[i].inline
  BY <1>8, <1>9, TrimmedFrames
<1> DEFINE frames == FromIndex(C, c)
<1>11. /\ frames \in Seq(S) /\ Len(frames) = n - c + 1
       /\ \A i \in 1..n - c + 1 : frames[i] = C[c + i - 1]
  <2> HIDE DEF C
  <2>1. C \in Seq(S) /\ Len(C) = n
    BY <1>8
  <2>2. /\ frames \in Seq(S) /\ Len(frames) = Len(C) - c + 1
        /\ \A i \in 1..Len(frames) : frames[i] = C[c + i - 1]
    BY <2>1, FromIndexed, Zenon
  <2> HIDE DEF frames, n
  <2> QED BY <2>1, <2>2, Zenon
<1>12. c \in 1..n + 1
  BY <1>8
<1> HIDE DEF frames
<1>13. DOMAIN frames = 1..n - c + 1 /\ (n - c + 1 = 0 => frames = <<>>)
  BY <1>1, <1>11, <1>12
<1>14. \A i \in 1..n - c + 1 : Like(frames[i], walked[c + i - 1], options)
  <2> TAKE i \in 1..n - c + 1
  <2>1. c + i - 1 \in 1..n
    BY <1>1, <1>12
  <2> QED BY <1>7, <1>8, <1>11, <2>1
<1>15. (1 < c /\ c <= n) => ~walked[c].inline
  <2> SUFFICES ASSUME 1 < c, c <= n PROVE ~walked[c].inline
    OBVIOUS
  <2>1. c \in 1..n /\ ~C[c].inline
    BY <1>1, <1>8, <1>10, <1>12
  <2>2. Like(C[c], walked[c], options)
    BY <1>7, <1>8, <2>1
  <2> QED BY <2>1, <2>2 DEF Like
<1>16. Len(frames) = n - c + 1 /\ n - c + 1 <= MaxFrames
  BY <1>8, <1>10, <1>11
<1>18. ASSUME NEW i \in 1..c - 1 PROVE i <= n - MaxFrames \/ walked[i].inline
  <2>1. i \in 1..n
    BY <1>1, <1>12
  <2>2. Like(C[i], walked[i], options)
    BY <1>7, <1>8, <2>1
  <2> QED BY <1>8, <1>10, <2>2 DEF Like
<1>17. TrimToMaxFrames(Classified(raw, options), MaxFrames) = frames
  BY <1>10 DEF frames, C
<1> QED BY <1>2, <1>4, <1>5, <1>12, <1>13, <1>14, <1>15, <1>16, <1>17, <1>18
        DEF raw, walked, n, G, SentFrom

\* The frames of a report are what the server and the app's developer need of them.
LEMMA SoundFrames ==
  ASSUME NEW R, \A f \in R : Made(f), NEW F \in Seq(R), Follows(F), NEW k \in 1..Len(F) + 1,
         k <= Len(F) => ~AtCapture(F[k]), NEW options
  PROVE  LET raw == Reverse(FromIndex(F, k))
             frames == TrimToMaxFrames(Classified(raw, options), MaxFrames)
             walked == Reverse(F)
             n == Len(F) - k + 1
         IN  /\ Len(frames) <= MaxFrames
             /\ GroupsWhole(frames)
             /\ \E s \in 1..n + 1 :
                  /\ Unclassified(frames) = SubSeq(walked, s, n)
                  /\ \A i \in 1..s - 1 : i <= n - MaxFrames \/ walked[i].inline
             /\ n > 0 => ~AtCapture(walked[n])
             /\ n = 0 => frames = <<>>
             /\ \A i \in DOMAIN frames : frames[i].in_app => Asked(frames[i], options)
             /\ {frames[i].image : i \in {j \in DOMAIN frames : frames[j].addr # 0}}
                  = {m.base : m \in ReferencedImages(ReferencedImages(Modules, raw), frames)}
<1> DEFINE raw == Reverse(FromIndex(F, k))
           frames == TrimToMaxFrames(Classified(raw, options), MaxFrames)
           walked == Reverse(F)
           n == Len(F) - k + 1
<1>0. PICK c \in 1..n + 1 : SentFrom(F, k, c, options)
  BY SentFrames, Zenon
<1>1. /\ c \in 1..n + 1
      /\ Len(raw) = n /\ DOMAIN raw = 1..n
      /\ \A i \in 1..n : raw[i] = walked[i]
      /\ Len(frames) = n - c + 1 /\ DOMAIN frames = 1..n - c + 1
      /\ n - c + 1 <= MaxFrames
      /\ \A i \in 1..n - c + 1 : Like(frames[i], walked[c + i - 1], options)
      /\ (1 < c /\ c <= n) => ~walked[c].inline
      /\ \A i \in 1..c - 1 : i <= n - MaxFrames \/ walked[i].inline
      /\ n - c + 1 = 0 => frames = <<>>
  BY <1>0 DEF SentFrom
<1> DEFINE m == n - c + 1
<1>2. /\ walked \in Seq(R) /\ Len(walked) = Len(F) /\ Len(F) \in Nat
      /\ \A i \in 1..Len(F) : walked[i] = F[(Len(F) - i) + 1]
  <2>1. Len(F) \in Nat
    OBVIOUS
  <2> QED BY <2>1, Reversed, Zenon
<1>3. n \in Nat /\ n <= Len(F) /\ m \in Nat /\ c + m - 1 = n
  BY <1>2
<1> HIDE DEF raw, frames, walked
<1>4. ASSUME NEW i \in 1..m
      PROVE  /\ c + i - 1 \in 1..n /\ c + i - 1 \in 1..Len(F)
             /\ Like(frames[i], walked[c + i - 1], options) /\ Made(walked[c + i - 1])
  <2>1. c + i - 1 \in 1..n /\ c + i - 1 \in 1..Len(F)
    BY <1>3
  <2>2. walked[c + i - 1] \in R
    BY <1>2, <2>1
  <2> QED BY <1>1, <2>1, <2>2
<1>5. ASSUME NEW w \in 1..Len(F), walked[w].inline
      PROVE  w > 1 /\ walked[w - 1].addr = walked[w].addr
  <2> DEFINE j == (Len(F) - w) + 1
  <2>1. j \in 1..Len(F) /\ walked[w] = F[j]
    BY <1>2
  <2>2. j < Len(F) /\ F[j + 1].addr = F[j].addr
    BY <1>5, <2>1 DEF Follows
  <2>3. w > 1 /\ w - 1 \in 1..Len(F) /\ (Len(F) - (w - 1)) + 1 = j + 1
    BY <1>2, <2>2
  <2>4. walked[w - 1] = F[j + 1]
    BY <1>2, <2>3
  <2> QED BY <2>1, <2>2, <2>3, <2>4
<1> HIDE DEF n
<1>6. GroupsWhole(frames)
  <2>1. ASSUME NEW i \in 1..m, frames[i].inline
        PROVE  i > 1 /\ frames[i - 1].addr = frames[i].addr
    <3>1. c + i - 1 \in 1..Len(F) /\ walked[c + i - 1].inline
          /\ walked[c + i - 1].addr = frames[i].addr
      BY <1>4, <2>1 DEF Like
    <3>2. c + i - 1 > 1 /\ walked[(c + i - 1) - 1].addr = walked[c + i - 1].addr
      BY <1>5, <3>1
    <3>3. i > 1
      <4> SUFFICES ASSUME i = 1 PROVE FALSE
        BY <1>3
      <4>1. c + i - 1 = c /\ 1 < c /\ c <= n
        BY <1>3, <3>2
      <4> QED BY <1>1, <3>1, <4>1
    <3>4. i - 1 \in 1..m /\ c + (i - 1) - 1 = (c + i - 1) - 1
      BY <1>3, <3>3
    <3>5. frames[i - 1].addr = walked[(c + i - 1) - 1].addr
      BY <1>4, <3>4 DEF Like
    <3> QED BY <3>1, <3>2, <3>3, <3>5
  <2>2. DOMAIN frames = 1..m
    BY <1>1
  <2> HIDE DEF m
  <2> QED BY <1>3, <2>1, <2>2, WholeGroups
<1>7. Unclassified(frames) = SubSeq(walked, c, n)
  <2>1. Len(frames) = m /\ DOMAIN frames = 1..m
    BY <1>1, <1>3
  <2>3. Unclassified(frames) = [i \in 1..m |-> walked[c + i - 1]]
    <3>1. \A i \in 1..m : [frames[i] EXCEPT !.in_app = FALSE] = walked[c + i - 1]
      BY <1>4 DEF Like
    <3>2. Unclassified(frames) = [i \in 1..m |-> [frames[i] EXCEPT !.in_app = FALSE]]
      BY <2>1 DEF Unclassified
    <3> HIDE DEF m
    <3> QED BY <3>1, <3>2, Zenon
  <2>4. SubSeq(walked, c, n) = [i \in 1..m |-> walked[c + i - 1]]
    <3> DEFINE s == SubSeq(walked, c, n)
    <3>1. /\ s \in Seq(R) /\ Len(s) = IF c <= n THEN n - c + 1 ELSE 0
          /\ \A i \in 1..n - c + 1 : s[i] = walked[c + i - 1]
      <4>1. c \in Int /\ n \in Int /\ \A i \in c..n : walked[i] \in R
        BY <1>2, <1>3
      <4> HIDE DEF n, walked
      <4> QED BY <4>1, SubSeqProperties
    <3> HIDE DEF s
    <3>2. Len(s) = m
      BY <1>3, <2>1, <3>1
    <3>3. s = [i \in 1..m |-> s[i]]
      BY <3>1, <3>2
    <3>4. \A i \in 1..m : s[i] = walked[c + i - 1]
      BY <3>1
    <3> HIDE DEF m
    <3>5. s = [i \in 1..m |-> walked[c + i - 1]]
      BY <3>3, <3>4, Zenon
    <3> QED BY <3>5 DEF s
  <2> QED BY <2>3, <2>4
<1>11. n > 0 => ~AtCapture(walked[n])
  <2> SUFFICES ASSUME n > 0 PROVE ~AtCapture(walked[n])
    OBVIOUS
  <2>1. n = Len(F) - k + 1 /\ Len(F) \in Nat /\ k \in Int
    BY DEF n
  <2>2. n \in 1..Len(F)
    BY <1>3
  <2>3. (Len(F) - n) + 1 = k /\ k <= Len(F)
    <3> HIDE DEF n
    <3> QED BY <2>1, <2>2
  <2> QED BY <1>2, <2>2, <2>3
<1>12. n = 0 => frames = <<>>
  BY <1>1, <1>3
<1>8. \A i \in DOMAIN frames : frames[i].in_app => Asked(frames[i], options)
  BY <1>1, <1>4 DEF Like
<1>9. {frames[i].image : i \in {j \in DOMAIN frames : frames[j].addr # 0}}
        = {x.base : x \in ReferencedImages(ReferencedImages(Modules, raw), frames)}
  <2> DEFINE I == ReferencedImages(ReferencedImages(Modules, raw), frames)
  <2>1. DOMAIN frames = 1..m
    BY <1>1
  <2>2. ASSUME NEW i \in 1..m, frames[i].addr # 0
        PROVE  \E x \in I : frames[i].image = x.base
    <3>1. /\ c + i - 1 \in 1..n /\ walked[c + i - 1].addr # 0
          /\ walked[c + i - 1].image = frames[i].image
      BY <1>4, <2>2 DEF Like
    <3>2. PICK x \in Modules : x.base = frames[i].image /\ DebugIdFor(x.build) # "none"
      BY <1>4, <3>1 DEF Made
    <3>3. raw[c + i - 1].image = x.base /\ c + i - 1 \in DOMAIN raw
      BY <1>1, <3>1, <3>2
    <3>4. x \in ReferencedImages(Modules, raw)
      BY <3>2, <3>3 DEF ReferencedImages
    <3>5. i \in DOMAIN frames
      BY <2>1
    <3>6. x \in ReferencedImages(ReferencedImages(Modules, raw), frames)
      BY <3>2, <3>4, <3>5 DEF ReferencedImages
    <3> QED BY <3>2, <3>6
  <2>3. ASSUME NEW x \in I
        PROVE  \E i \in 1..m : frames[i].addr # 0 /\ frames[i].image = x.base
    <3>1. x \in Modules /\ \E i \in 1..m : frames[i].image = x.base
      BY <2>1 DEF ReferencedImages
    <3>2. PICK i \in 1..m : frames[i].image = x.base
      BY <3>1
    <3>3. x.base # 0
      BY <3>1, ReportAssumption
    <3>4. frames[i].addr # 0
      BY <1>4, <3>2, <3>3 DEF Like, Made
    <3> QED BY <3>2, <3>4
  <2>4. {j \in DOMAIN frames : frames[j].addr # 0} = {j \in 1..m : frames[j].addr # 0}
    BY <2>1
  <2> HIDE DEF m, I, frames
  <2>5. {frames[i].image : i \in {j \in 1..m : frames[j].addr # 0}} \subseteq {x.base : x \in I}
    BY <2>2
  <2>6. {x.base : x \in I} \subseteq {frames[i].image : i \in {j \in 1..m : frames[j].addr # 0}}
    BY <2>3
  <2> QED BY <2>4, <2>5, <2>6 DEF I
<1>10. Len(frames) <= MaxFrames
  BY <1>1
<1> QED BY <1>1, <1>6, <1>7, <1>8, <1>9, <1>10, <1>11, <1>12 DEF raw, frames, walked, n

\* What is cut from the walk is inside the trace, seen from the outermost frame.
LEMMA InsideOut ==
  ASSUME NEW R, NEW F \in Seq(R), NEW k \in 1..Len(F) + 1, NEW panic,
         \A i \in 1..k - 1 : Inside(F, i, k, panic)
  PROVE  LET W == Reverse(F)
             e == Len(F) - k + 1
         IN  \A i \in e + 1..Len(W) :
               \/ IsInternalCaptureFrame(W[i].name)
               \/ \E j \in e + 1..i : W[j].entry \in CaptureEntries
               \/ e > 0 /\ panic /\ IsPanicDispatcherFrame(W[e].name)
<1> DEFINE W == Reverse(F)
           e == Len(F) - k + 1
<1>1. /\ Len(W) = Len(F) /\ Len(F) \in Nat
      /\ \A i \in 1..Len(F) : W[i] = F[(Len(F) - i) + 1]
  <2>1. Len(F) \in Nat
    OBVIOUS
  <2> QED BY <2>1, Reversed, Zenon
<1> HIDE DEF W
<1>2. SUFFICES ASSUME NEW i \in e + 1..Len(F)
               PROVE  \/ IsInternalCaptureFrame(W[i].name)
                      \/ \E j \in e + 1..i : W[j].entry \in CaptureEntries
                      \/ e > 0 /\ panic /\ IsPanicDispatcherFrame(W[e].name)
  BY <1>1 DEF W
<1> DEFINE x == (Len(F) - i) + 1
<1>3. x \in 1..k - 1 /\ i \in 1..Len(F)
  BY <1>1, <1>2
<1>4. W[i] = F[x] /\ Inside(F, x, k, panic)
  BY <1>1, <1>3
<1>5. ASSUME NEW j \in x..k - 1
      PROVE  (Len(F) - j) + 1 \in e + 1..i /\ W[(Len(F) - j) + 1] = F[j]
  <2>1. (Len(F) - j) + 1 \in e + 1..i /\ (Len(F) - j) + 1 \in 1..Len(F)
    BY <1>1, <1>2
  <2>2. (Len(F) - ((Len(F) - j) + 1)) + 1 = j
    BY <1>1
  <2> QED BY <1>1, <2>1, <2>2
<1>6. k <= Len(F) => e > 0 /\ W[e] = F[k]
  <2>1. k <= Len(F) => e \in 1..Len(F) /\ (Len(F) - e) + 1 = k
    BY <1>1
  <2> QED BY <1>1, <2>1
<1> HIDE DEF x, e
<1> QED BY <1>4, <1>5, <1>6 DEF Inside
-----------------------------------------------------------------------------
(* The report on the wire. *)

ReportOf ==
  IF report.of = "error" THEN FromError(report.sources, report.stack, report.options)
  ELSE FromPanicInfo(report.stack, report.options)

\* An event that is a report has the list and the modules of what it was made from.
Reported ==
  report.of # "none" =>
    /\ \/ report.of = "error" /\ report.stack \in Stacks /\ report.sources \in Depths
       \/ report.of = "panic" /\ report.stack \in PanicStacks /\ report.sources = 0
    /\ stage # "none" /\ event.id = "exception" /\ event.minimal = FALSE
    /\ Reports(event, ReportOf, report.options, report.context)

LEMMA ReportedInit == Init => Reported
BY DEF Init, NoReport, Reported

LEMMA ReportedStep == Shape /\ Reported /\ [Next]_vars => Reported'
<1> SUFFICES ASSUME Shape, Reported, [Next]_vars PROVE Reported'
  OBVIOUS
<1>1. CASE NewEvent \/ RecordFlagCalled
  BY <1>1 DEF NewEvent, RecordFlagCalled, NoReport, Reported
<1>2. CASE CaptureException
  <2>1. PICK sources \in Depths, stack \in Stacks, options \in Policies, context \in Contexts :
          /\ event' = BuildExceptionEvent("exception", sources, stack, context, options)
          /\ report' = [of |-> "error", stack |-> stack, options |-> options,
                        sources |-> sources, context |-> context]
    BY <1>2 DEF CaptureException
  <2>3. /\ event'.id = "exception" /\ event'.minimal = FALSE
        /\ Reports(event', FromError(sources, stack, options), options, context)
    BY <2>1, ErrorEvent
  <2>4. ReportOf' = FromError(sources, stack, options)
    BY <2>1 DEF ReportOf
  <2>5. stage' = "open"
    BY <1>2 DEF CaptureException, Opens
  <2> QED BY <2>1, <2>3, <2>4, <2>5 DEF Reported
<1>3. CASE CapturePanic
  <2>1. PICK stack \in PanicStacks, options \in Policies, located \in BOOLEAN :
          /\ event' = BuildPanicEvent("exception", located, stack, options)
          /\ report' = [of |-> "panic", stack |-> stack, options |-> options, sources |-> 0,
                        context |-> PanicContext]
    BY <1>3 DEF CapturePanic
  <2>2. /\ event'.id = "exception" /\ event'.minimal = FALSE
        /\ Reports(event', FromPanicInfo(stack, options), options, PanicContext)
    BY <2>1, PanicEvent
  <2>3. ReportOf' = FromPanicInfo(stack, options)
    BY <2>1 DEF ReportOf
  <2>4. stage' = "open"
    BY <1>3 DEF CapturePanic, Opens
  <2> QED BY <2>1, <2>2, <2>3, <2>4 DEF Reported
<1>4. CASE CallerInserts \/ CallerRemoves \/ CallerGroups \/ CallerDates
  BY <1>4 DEF CallerInserts, CallerRemoves, CallerGroups, CallerDates, Changes, Reported
<1>5. CASE Capture
  <2>1. event'.props = event.props /\ event'.id = event.id /\ event'.minimal = event.minimal
    <3>1. LET r == EnsureTimestamp(event, "enqueued") IN
          r.props = event.props /\ r.id = event.id /\ r.minimal = event.minimal
      BY StampedEvent DEF Shape
    <3> QED BY <1>5, <3>1 DEF Capture
  <2>2. report' = report /\ stage' = "captured" /\ stage = "open"
    BY <1>5 DEF Capture
  <2> QED BY <2>1, <2>2 DEF Reported, ReportOf, Reports
<1>6. CASE Build
  BY <1>6 DEF Build, Reported, ReportOf, Reports
<1>7. CASE UNCHANGED vars
  BY <1>7 DEF vars, Reported, ReportOf, Reports
<1> QED BY <1>1, <1>2, <1>3, <1>4, <1>5, <1>6, <1>7 DEF Next, Finished

\* No modules on the wire that the event has not.
LEMMA NothingForged ==
  ASSUME Shape, Harmless, "$debug_images" \notin DOMAIN event.props
  PROVE  "$debug_images" \notin DOMAIN SentOfV0.props \union DOMAIN SentOfV1.props
<1>1. ~Discards(setup.hooks) /\ setup.hooks \in Seq(Hooks)
  BY SetupFacts DEF Harmless, Discards, Shape
<1>2. "$debug_images" \notin DOMAIN SentOfV0.props
  <2> DEFINE p == PrepareEvent(event, Defaults)
             E == event.props
             x == Under(Under(E, CaptureDefaults(Defaults)), RuntimeContext)
  <2>1. p.props = PreparedProps(event, Defaults)
    BY SetupFacts, Prepared DEF Shape
  <2> HIDE DEF p
  <2>2. ApplyBeforeSendHooks(setup.hooks, p) = p
    BY <1>1, KeepersKeep DEF Harmless
  <2>3. SentOfV0.props = Allowed(p.props, p.minimal)
    BY <2>2 DEF SentOfV0, InnerEvent, Allowed, p
  <2>4. "$debug_images" \notin DOMAIN x
    BY DEF Under, CaptureDefaults, RuntimeContext
  <2> HIDE DEF x
  <2>5. "$debug_images" \notin DOMAIN Under(x, Library)
    BY <2>4 DEF Under, Library
  <2>6. "$debug_images" \notin DOMAIN V0Props(x, event.groups)
    <3> DEFINE lib == Under(x, Library)
               base == IF "$lib_version__major" \in DOMAIN lib THEN lib
                       ELSE Under(VersionParts, lib)
    <3>1. "$debug_images" \notin DOMAIN base
      <4> HIDE DEF lib
      <4> QED BY <2>5 DEF Under, VersionParts, lib
    <3>2. V0Props(x, event.groups) = Grouped(base, event.groups)
      BY DEF V0Props
    <3> HIDE DEF base
    <3> QED BY <3>1, <3>2 DEF Grouped, Under, Only
  <2> QED BY <2>1, <2>3, <2>6, AllowedProps DEF PreparedProps, x
<1>3. "$debug_images" \notin DOMAIN SentOfV1.props
  <2> DEFINE p == ApplyCaptureDefaults(event, Defaults)
             y == Under(p.props, RuntimeContext)
             g == Grouped(y, p.groups)
             full == Under(Without(g, Moved), CaptureDefaults(Defaults))
  <2>1. p.props = Under(event.props, CaptureDefaults(Defaults))
    BY SetupFacts, Captured DEF Shape
  <2> HIDE DEF p
  <2>2. ApplyBeforeSendHooks(setup.hooks, p) = p
    BY <1>1, KeepersKeep DEF Harmless
  <2>3. SentOfV1.props = Allowed(full, p.minimal)
    BY <1>1, <2>2, LeftV1 DEF p
  <2>4. "$debug_images" \notin DOMAIN y
    BY <2>1 DEF Under, CaptureDefaults, RuntimeContext
  <2> HIDE DEF y
  <2>5. "$debug_images" \notin DOMAIN g
    BY <2>4 DEF Grouped, Under, Only
  <2> HIDE DEF g
  <2>6. "$debug_images" \notin DOMAIN full
    BY <2>5 DEF Under, Without, CaptureDefaults
  <2> HIDE DEF full
  <2> QED BY <2>3, <2>6, AllowedProps
<1> QED BY <1>2, <1>3

\* What a report says of itself is on the wire as it was written.
LEMMA ReportSent ==
  ASSUME Shape, Reported, stage = "sent", report.of # "none", Harmless
  PROVE  Reports(wire.events[1], ReportOf, report.options, report.context)
<1> DEFINE s == IF setup.build = "v0" THEN SentOfV0 ELSE SentOfV1
           options == report.options
           context == report.context
<1>1. ~Discards(setup.hooks)
  BY DEF Harmless, Discards
<1>2. wire.events[1] = s
  <2>1. wire.events = <<s>>
    BY <1>1, OneSent
  <2> HIDE DEF s
  <2> QED BY <2>1
<1>3. event.minimal = FALSE /\ Reports(event, ReportOf, options, context)
  BY DEF Reported
<1>4. ASSUME NEW key \in DOMAIN event.props
                      \cap {"$exception_list", "$exception_level", "$exception_fingerprint",
                            "$debug_images"}
      PROVE  Has(s.props, key, event.props[key])
  <2>1. /\ key # "$groups" /\ key \notin {"$lib_version__minor", "$lib_version__patch"}
        /\ key \notin Moved
    BY MovedNames
  <2> QED BY <1>3, <2>1, KeptV0, KeptV1
<1>5. "$debug_images" \notin DOMAIN event.props => "$debug_images" \notin DOMAIN s.props
  BY NothingForged
<1> HIDE DEF s
<1>6. Reports(s, ReportOf, options, context)
  <2> HIDE DEF options, context
  <2>1. ASSUME NEW key \in {"$exception_list", "$exception_level", "$exception_fingerprint",
                            "$debug_images"},
               NEW value, Has(event.props, key, value)
        PROVE  Has(s.props, key, value)
    BY <1>4, <2>1 DEF Has
  <2>2. "$debug_images" \in DOMAIN s.props => Has(s.props, "$debug_images", event.props["$debug_images"])
    BY <1>4, <1>5
  <2>3. "$debug_images" \in DOMAIN s.props => "$debug_images" \in DOMAIN event.props
    BY <1>5
  <2> QED BY <1>3, <2>1, <2>2, <2>3 DEF Reports, Has
<1> QED BY <1>2, <1>6

\* The causes of an error are linked, and a panic is one item.
LEMMA ChainLinked ==
  ASSUME Reported, report.of # "none"
  PROVE  Linked(ReportOf.items)
<1>1. CASE report.of = "error"
  <2> DEFINE count == Least(report.sources + 1, MaxSources)
             items == LinkExceptionChain(count)
  <2>1. report.sources \in Nat /\ MaxSources \in Nat \ {0}
    BY <1>1, PipelineAssumption, ReportAssumption DEF Reported
  <2>2. count \in Nat \ {0}
    BY <2>1 DEF Least
  <2>3. ReportOf.items = items
    BY <1>1 DEF ReportOf, FromError
  <2> HIDE DEF count
  <2>4. /\ Len(items) = count /\ DOMAIN items = 1..count
        /\ \A i \in 1..count : /\ items[i].exception = (IF count < 2 THEN -1 ELSE i - 1)
                               /\ items[i].parent = (IF i > 1 THEN i - 2 ELSE -1)
    BY <2>2 DEF LinkExceptionChain
  <2>5. count > 1 => \A i \in 1..count : items[i].exception = i - 1 /\ items[i].parent = i - 2
    BY <2>2, <2>4
  <2> HIDE DEF items
  <2> QED BY <2>3, <2>4, <2>5 DEF Linked, count
<1>2. CASE report.of # "error"
  <2>1. ReportOf.items = <<PanicItem>> /\ report.sources = 0
    BY <1>2 DEF ReportOf, FromPanicInfo, Reported
  <2>2. Least(0 + 1, MaxSources) = 1
    BY ReportAssumption DEF Least
  <2>3. Len(<<PanicItem>>) = 1
    OBVIOUS
  <2> QED BY <2>1, <2>2, <2>3 DEF Linked
<1> QED BY <1>1, <1>2

\* The frames of a report are cut from its walk.
LEMMA ReportCut ==
  ASSUME Reported, report.of # "none"
  PROVE  LET F == CaptureFramesCurrentFirst(report.stack) IN
         \E R : /\ \A f \in R : Made(f)
                /\ F \in Seq(R) /\ Follows(F)
                /\ \E k \in 1..Len(F) + 1 :
                     /\ ReportOf.frames = Reverse(FromIndex(F, k))
                     /\ k <= Len(F) => ~AtCapture(F[k])
                     /\ IF report.options.stacktrace
                        THEN \A i \in 1..k - 1 : Inside(F, i, k, report.of = "panic")
                        ELSE k = Len(F) + 1
<1> DEFINE stack == report.stack
           F == CaptureFramesCurrentFirst(stack)
<1>1. \/ report.of = "error" /\ stack \in Stacks
      \/ report.of = "panic" /\ stack \in PanicStacks
  BY DEF Reported
<1>2. /\ stack \in Seq({stack[i] : i \in DOMAIN stack})
      /\ \A i \in DOMAIN stack :
           LET layers == stack[i].layers IN
           stack[i].addr \in Nat /\ layers \in Seq({layers[j] : j \in DOMAIN layers})
  BY <1>1, StacksAssumption
<1>3. IsSeq(stack) /\ DOMAIN stack = 1..Len(stack)
  <2> DEFINE P == {stack[i] : i \in DOMAIN stack}
  <2>1. stack \in Seq(P)
    BY <1>2
  <2> HIDE DEF P, stack
  <2> QED BY <2>1 DEF IsSeq
<1>4. \A i \in 1..Len(stack) : Walkable(stack[i])
  <2> HIDE DEF stack
  <2>1. ASSUME NEW S, NEW s \in Seq(S) PROVE IsSeq(s)
    BY DEF IsSeq
  <2>2. ASSUME NEW i \in DOMAIN stack PROVE stack[i].addr \in Nat /\ IsSeq(stack[i].layers)
    <3> DEFINE layers == stack[i].layers
               S == {layers[j] : j \in DOMAIN layers}
    <3>1. stack[i].addr \in Nat /\ layers \in Seq(S)
      BY <1>2
    <3> HIDE DEF layers, S
    <3>2. IsSeq(layers)
      BY <2>1, <3>1
    <3> QED BY <3>1, <3>2 DEF layers
  <2> QED BY <1>3, <2>2 DEF Walkable
<1>5. PICK R : (\A f \in R : Made(f)) /\ F \in Seq(R) /\ Follows(F)
  <2> HIDE DEF stack
  <2> QED BY <1>3, <1>4, WalkFrames
<1>6. DOMAIN F = 1..Len(F) /\ Len(F) \in Nat
  BY <1>5
<1>7. \E k \in 1..Len(F) + 1 : /\ ReportOf.frames = Reverse(FromIndex(F, k))
                               /\ k <= Len(F) => ~AtCapture(F[k])
                               /\ IF report.options.stacktrace
                                  THEN \A i \in 1..k - 1 : Inside(F, i, k, report.of = "panic")
                                  ELSE k = Len(F) + 1
  <2>1. CASE ~report.options.stacktrace
    <3>1. ReportOf.frames = <<>>
      BY <2>1 DEF ReportOf, FromError, FromPanicInfo
    <3>2. FromIndex(F, Len(F) + 1) = <<>>
      BY <1>6, SubSeqEmpty DEF FromIndex
    <3>3. Reverse(<<>>) = <<>>
      BY DEF Reverse
    <3> QED BY <1>6, <2>1, <3>1, <3>2, <3>3
  <2>2. CASE report.options.stacktrace /\ report.of = "error"
    <3>1. ReportOf.frames = CaptureRawApplicationFrames(stack)
      BY <2>2 DEF ReportOf, FromError
    <3>2. \A i \in 1..Len(F) : F[i].entry \in CaptureEntries =>
            i <= PrefixScan /\ F[i].entry # "capture_raw_panic_frames"
      BY <1>1, <1>6, <2>2, StacksAssumption
    <3>3. (report.of = "panic") = FALSE
      BY <2>2
    <3> HIDE DEF stack
    <3> QED BY <1>5, <2>2, <3>1, <3>2, <3>3, ErrorCut
  <2>3. CASE report.options.stacktrace /\ report.of # "error"
    <3>1. ReportOf.frames = CaptureRawPanicFrames(stack)
      BY <2>3 DEF ReportOf, FromPanicInfo
    <3>2. \A i \in 1..Len(F) :
            /\ F[i].entry \in CaptureEntries =>
                 i <= PrefixScan /\ F[i].entry # "capture_raw_application_frames"
            /\ IsPanicDispatcherFrame(F[i].name) => ~IsInternalCaptureFrame(F[i].name)
      BY <1>1, <1>6, <2>3, StacksAssumption
    <3>3. (report.of = "panic") = TRUE
      BY <1>1, <2>3
    <3> HIDE DEF stack
    <3> QED BY <1>5, <2>3, <3>1, <3>2, <3>3, PanicCut
  <2> QED BY <2>1, <2>2, <2>3
<1> QED BY <1>5, <1>7

\* Whatever stack an error or a panic has, whatever properties its caller gives and however
\* long the chain of causes, what ReportSound says of its report holds on the wire of either
\* build: its list, level and given fingerprint are the SDK's, its trace is bounded and loses
\* at the crash end only what the SDK can tell to be its own, at the other end only what is
\* beyond MAX_FRAMES and the rest of a cut inline group, and its modules are those of its frames.
THEOREM ReportsAreSound == Spec => []ReportSound
<1>1. Shape /\ Reported => ReportSound
  <2> SUFFICES ASSUME Shape, Reported, stage = "sent", report.of # "none", Harmless
               PROVE  ReportSound
    BY DEF ReportSound
  <2> DEFINE sent == wire.events[1]
             x == ReportOf
             options == report.options
             frames == TrimToMaxFrames(Classified(x.frames, options), MaxFrames)
             F == CaptureFramesCurrentFirst(report.stack)
             images == ReferencedImages(ReferencedImages(Modules, x.frames), frames)
  <2>1. Reports(sent, x, options, report.context)
    BY ReportSent
  <2>2. /\ ListOf(sent) = ListIn(x, options)
        /\ ListOf(sent).frames = frames /\ ListOf(sent).items = x.items
        /\ ListOf(sent).traced = x.traced /\ ImagesIn(x, options) = images
    BY <2>1 DEF Reports, Has, ListOf, ListIn, ImagesIn
  <2>3. x.traced = options.stacktrace
    BY DEF ReportOf, FromError, FromPanicInfo
  <2>4. Linked(x.items)
    BY ChainLinked
  <2>5. PICK R : /\ \A f \in R : Made(f)
                 /\ F \in Seq(R) /\ Follows(F)
                 /\ \E k \in 1..Len(F) + 1 :
                      /\ x.frames = Reverse(FromIndex(F, k))
                      /\ k <= Len(F) => ~AtCapture(F[k])
                      /\ IF options.stacktrace
                         THEN \A i \in 1..k - 1 : Inside(F, i, k, report.of = "panic")
                         ELSE k = Len(F) + 1
    BY ReportCut
  <2>6. PICK k \in 1..Len(F) + 1 :
          /\ x.frames = Reverse(FromIndex(F, k))
          /\ k <= Len(F) => ~AtCapture(F[k])
          /\ IF options.stacktrace
             THEN \A i \in 1..k - 1 : Inside(F, i, k, report.of = "panic")
             ELSE k = Len(F) + 1
    BY <2>5
  <2> DEFINE n == Len(F) - k + 1
  <2>7. /\ Len(frames) <= MaxFrames
        /\ GroupsWhole(frames)
        /\ \E s \in 1..n + 1 :
             /\ Unclassified(frames) = SubSeq(Walked, s, n)
             /\ \A i \in 1..s - 1 : i <= n - MaxFrames \/ Walked[i].inline
        /\ n > 0 => ~AtCapture(Walked[n])
        /\ n = 0 => frames = <<>>
        /\ \A i \in DOMAIN frames : frames[i].in_app => Asked(frames[i], options)
        /\ {frames[i].image : i \in {j \in DOMAIN frames : frames[j].addr # 0}}
             = {m.base : m \in images}
    <3> DEFINE raw == Reverse(FromIndex(F, k))
               cut == TrimToMaxFrames(Classified(raw, options), MaxFrames)
               W == Reverse(F)
    <3>1. Walked = W
      BY DEF Walked
    <3>2. /\ Len(cut) <= MaxFrames
          /\ GroupsWhole(cut)
          /\ \E s \in 1..n + 1 :
               /\ Unclassified(cut) = SubSeq(W, s, n)
               /\ \A i \in 1..s - 1 : i <= n - MaxFrames \/ W[i].inline
          /\ n > 0 => ~AtCapture(W[n])
          /\ n = 0 => cut = <<>>
          /\ \A i \in DOMAIN cut : cut[i].in_app => Asked(cut[i], options)
          /\ {cut[i].image : i \in {j \in DOMAIN cut : cut[j].addr # 0}}
               = {m.base : m \in ReferencedImages(ReferencedImages(Modules, raw), cut)}
      <4> HIDE DEF x, options, F
      <4>1. F \in Seq(R) /\ (\A f \in R : Made(f)) /\ Follows(F)
        BY <2>5, Zenon
      <4>2. k \in 1..Len(F) + 1 /\ (k <= Len(F) => ~AtCapture(F[k]))
        BY <2>6, Zenon
      <4> QED BY <4>1, <4>2, SoundFrames, Zenon
    <3> HIDE DEF x, options, F
    <3>3. cut = frames /\ raw = x.frames
      BY <2>6
    <3> HIDE DEF raw, cut, W, frames, n
    <3> QED BY <3>1, <3>2, <3>3
  <2>8. TraceOf(frames)
    <3>1. n \in 0..Len(Walked) /\ Len(Walked) = Len(F)
      <4>1. Len(Walked) = Len(F) /\ Len(F) \in Nat
        BY <2>5, Reversed DEF Walked
      <4> HIDE DEF F
      <4> QED BY <4>1
    <3>2. options.stacktrace => \A i \in n + 1..Len(Walked) : OfTheSdk(i, n)
      <4> DEFINE panic == report.of = "panic"
      <4>1. options.stacktrace => \A i \in 1..k - 1 : Inside(F, i, k, panic)
        BY <2>6
      <4>2. options.stacktrace =>
              \A i \in n + 1..Len(Walked) :
                \/ IsInternalCaptureFrame(Walked[i].name)
                \/ \E j \in n + 1..i : Walked[j].entry \in CaptureEntries
                \/ n > 0 /\ panic /\ IsPanicDispatcherFrame(Walked[n].name)
        <5>1. Walked = Reverse(F)
          BY DEF Walked
        <5> HIDE DEF F, panic, options
        <5>2. F \in Seq(R)
          BY <2>5, Zenon
        <5> SUFFICES ASSUME options.stacktrace
                     PROVE  \A i \in n + 1..Len(Walked) :
                              \/ IsInternalCaptureFrame(Walked[i].name)
                              \/ \E j \in n + 1..i : Walked[j].entry \in CaptureEntries
                              \/ n > 0 /\ panic /\ IsPanicDispatcherFrame(Walked[n].name)
          OBVIOUS
        <5>3. \A i \in 1..k - 1 : Inside(F, i, k, panic)
          BY <4>1
        <5> DEFINE W == Reverse(F)
        <5>4. \A i \in n + 1..Len(W) :
                \/ IsInternalCaptureFrame(W[i].name)
                \/ \E j \in n + 1..i : W[j].entry \in CaptureEntries
                \/ n > 0 /\ panic /\ IsPanicDispatcherFrame(W[n].name)
          BY <5>2, <5>3, InsideOut, Zenon
        <5> HIDE DEF n, W
        <5>5. Walked = W
          BY <5>1 DEF W
        <5> QED BY <5>4, <5>5, Zenon
      <4> QED BY <4>2 DEF OfTheSdk
    <3>3. ~options.stacktrace => n = 0
      <4>1. Len(F) \in Nat
        BY <2>5
      <4> HIDE DEF F
      <4> QED BY <2>6, <4>1
    <3>4. PICK s \in 1..n + 1 :
            /\ Unclassified(frames) = SubSeq(Walked, s, n)
            /\ \A i \in 1..s - 1 : i <= n - MaxFrames \/ Walked[i].inline
      BY <2>7
    <3> HIDE DEF n, frames, F
    <3>5. CASE ~options.stacktrace
      BY <2>7, <3>3, <3>5 DEF TraceOf, options
    <3>6. CASE options.stacktrace
      BY <2>7, <3>1, <3>2, <3>4, <3>6 DEF TraceOf, options
    <3> QED BY <3>5, <3>6
  <2> HIDE DEF sent, x, frames, F, images, n
  <2>9. InAppAsAsked(frames)
    BY <2>7 DEF InAppAsAsked, Asked, options
  <2>10. ImagesMatch(sent)
    <3> DEFINE resolved == {frames[i].image : i \in {j \in DOMAIN frames : frames[j].addr # 0}}
               shown == [type |-> "images", images |-> images]
    <3>1. resolved = {m.base : m \in images} /\ (resolved = {} <=> images = {})
      BY <2>7
    <3>2. IF images = {}
          THEN "$debug_images" \in DOMAIN sent.props =>
                 Has(report.context.props, "$debug_images", sent.props["$debug_images"])
          ELSE Has(sent.props, "$debug_images", shown)
      BY <2>1, <2>2 DEF Reports
    <3>3. shown.images = images
      OBVIOUS
    <3> HIDE DEF resolved, shown
    <3>4. IF resolved = {}
          THEN "$debug_images" \in DOMAIN sent.props =>
                 Has(report.context.props, "$debug_images", sent.props["$debug_images"])
          ELSE /\ "$debug_images" \in DOMAIN sent.props
               /\ {m.base : m \in sent.props["$debug_images"].images} = resolved
      BY <3>1, <3>2, <3>3 DEF Has
    <3> QED BY <2>2, <3>4 DEF ImagesMatch, resolved
  <2>11. "$exception_list" \in DOMAIN sent.props /\ Marked(sent)
    BY <2>1 DEF Reports, Has, Marked, LevelOf
  <2> QED BY <2>2, <2>3, <2>4, <2>7, <2>8, <2>9, <2>10, <2>11 DEF ReportSound, sent, options
<1>2. Spec => [](Shape /\ Reported)
  <2>1. Init => Shape /\ Reported
    BY ShapeInit, ReportedInit
  <2>2. (Shape /\ Reported) /\ [Next]_vars => (Shape /\ Reported)'
    BY ShapeStep, ReportedStep
  <2> QED BY <2>1, <2>2, PTL DEF Spec
<1> QED BY <1>1, <1>2, PTL
=============================================================================
