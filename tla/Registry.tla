------------------------------- MODULE Registry -------------------------------
(***************************************************************************)
(* The seven package-level maps of handler.go, the functions that fill and *)
(* empty them, the factory map built from them for Envoy, and              *)
(* configFactory.Create, by which Envoy turns an entry of that map and a   *)
(* filter's configuration into a filter factory.                           *)
(*                                                                         *)
(* Functions given to a registration are values that can only be compared  *)
(* with Nil.  Go calls init functions one after the other, so operations   *)
(* do not overlap.                                                         *)
(***************************************************************************)
EXTENDS Naturals

CONSTANTS
  Names,        \* filter names
  Funcs,        \* handlers, config functions, factories
  Nil,          \* Go's nil function
  Modes,        \* the ResponseModes considered ...
  DefaultMode   \* ... and the zero value, ResponseModePassthrough

ASSUME NilAssumption  == Nil \notin Funcs
ASSUME ModeAssumption == DefaultMode \in Modes

VARIABLES
  registry, configRegistry, respRegistry, respModeRegistry, rawRegistry,
  factoryRegistry, respFactRegistry,
  factories,    \* the map last returned by WellKnownHttpFilterConfigFactories
  panicked,     \* the last operation panicked
  created       \* if it was Create: what it returned, and for which name

maps == <<registry, configRegistry, respRegistry, respModeRegistry,
          rawRegistry, factoryRegistry, respFactRegistry>>
vars == <<maps, factories, panicked, created>>

MaybeFuncs == Funcs \cup {Nil}

\* Go maps: a missing key reads as the zero value.
Empty == [n \in {} |-> Nil]
Get(m, n, zero) == IF n \in DOMAIN m THEN m[n] ELSE zero
Set(m, n, v) == [x \in DOMAIN m \cup {n} |-> IF x = n THEN v ELSE m[x]]
Delete(m, n) == [x \in DOMAIN m \ {n} |-> m[x]]

NotCreated == [name |-> Nil, ok |-> FALSE, handler |-> Nil,
               respHandler |-> Nil, respMode |-> DefaultMode]

Init ==
  /\ registry = Empty /\ configRegistry = Empty /\ respRegistry = Empty
  /\ respModeRegistry = Empty /\ rawRegistry = Empty
  /\ factoryRegistry = Empty /\ respFactRegistry = Empty
  /\ factories = Empty /\ panicked = FALSE /\ created = NotCreated

-----------------------------------------------------------------------------
(***************************************************************************)
(* Registration.                                                           *)
(***************************************************************************)

\* A mutant: a filter with factories only is not taken for registered.
HandlersRegistered(n) ==
  n \in DOMAIN registry \cup DOMAIN configRegistry \cup DOMAIN respRegistry
filterRegistered(n) ==
  n \in DOMAIN registry \cup DOMAIN configRegistry \cup DOMAIN factoryRegistry
        \cup DOMAIN respFactRegistry \cup DOMAIN respRegistry
        \cup DOMAIN rawRegistry

\* mustRegisterFilter, which every registration calls first.
Refuse(n) ==
  /\ filterRegistered(n)
  /\ panicked' = TRUE /\ created' = NotCreated
  /\ UNCHANGED <<maps, factories>>

Accept(n) ==
  /\ ~filterRegistered(n)
  /\ panicked' = FALSE /\ created' = NotCreated
  /\ UNCHANGED factories

Register(n, fn) ==
  /\ Accept(n)
  /\ registry' = Set(registry, n, fn)
  /\ UNCHANGED <<configRegistry, respRegistry, respModeRegistry, rawRegistry,
                 factoryRegistry, respFactRegistry>>

RegisterWithConfig(n, cfg, fn) ==
  /\ Accept(n)
  /\ registry' = Set(registry, n, fn)
  /\ configRegistry' = Set(configRegistry, n, cfg)
  /\ UNCHANGED <<respRegistry, respModeRegistry, rawRegistry, factoryRegistry,
                 respFactRegistry>>

RegisterWithResponse(n, req, resp, mode) ==
  /\ Accept(n)
  /\ registry' = Set(registry, n, req)
  /\ respRegistry' = Set(respRegistry, n, resp)
  /\ respModeRegistry' = Set(respModeRegistry, n, mode)
  /\ UNCHANGED <<configRegistry, rawRegistry, factoryRegistry, respFactRegistry>>

RegisterWithConfigAndResponse(n, cfg, req, resp, mode) ==
  /\ Accept(n)
  /\ registry' = Set(registry, n, req)
  /\ configRegistry' = Set(configRegistry, n, cfg)
  /\ respRegistry' = Set(respRegistry, n, resp)
  /\ respModeRegistry' = Set(respModeRegistry, n, mode)
  /\ UNCHANGED <<rawRegistry, factoryRegistry, respFactRegistry>>

RegisterFactory(n, fn) ==
  /\ Accept(n)
  /\ factoryRegistry' = Set(factoryRegistry, n, fn)
  /\ UNCHANGED <<registry, configRegistry, respRegistry, respModeRegistry,
                 rawRegistry, respFactRegistry>>

RegisterFactoryWithResponse(n, fn, mode) ==
  /\ Accept(n)
  /\ respFactRegistry' = Set(respFactRegistry, n, fn)
  /\ respModeRegistry' = Set(respModeRegistry, n, mode)
  /\ UNCHANGED <<registry, configRegistry, respRegistry, rawRegistry,
                 factoryRegistry>>

RegisterRaw(n, factory) ==
  /\ Accept(n)
  /\ rawRegistry' = Set(rawRegistry, n, factory)
  /\ UNCHANGED <<registry, configRegistry, respRegistry, respModeRegistry,
                 factoryRegistry, respFactRegistry>>

\* A mutant: Unregister overlooks the response modes.
UnregisterKeepsMode(n) ==
  /\ registry' = Delete(registry, n)
  /\ configRegistry' = Delete(configRegistry, n)
  /\ factoryRegistry' = Delete(factoryRegistry, n)
  /\ respFactRegistry' = Delete(respFactRegistry, n)
  /\ respRegistry' = Delete(respRegistry, n)
  /\ rawRegistry' = Delete(rawRegistry, n)
  /\ panicked' = FALSE /\ created' = NotCreated
  /\ UNCHANGED <<respModeRegistry, factories>>
Unregister(n) ==
  /\ registry' = Delete(registry, n)
  /\ configRegistry' = Delete(configRegistry, n)
  /\ factoryRegistry' = Delete(factoryRegistry, n)
  /\ respFactRegistry' = Delete(respFactRegistry, n)
  /\ respRegistry' = Delete(respRegistry, n)
  /\ respModeRegistry' = Delete(respModeRegistry, n)
  /\ rawRegistry' = Delete(rawRegistry, n)
  /\ panicked' = FALSE /\ created' = NotCreated
  /\ UNCHANGED factories

-----------------------------------------------------------------------------
(***************************************************************************)
(* What Envoy is given, and what it makes of it.                           *)
(***************************************************************************)

\* A configFactory; a raw factory is an entry with nothing but raw.
Factory(configFn, factoryFn, respFactFn, handler, respHandler, respMode) ==
  [raw |-> Nil, configFn |-> configFn, factoryFn |-> factoryFn,
   respFactFn |-> respFactFn, handler |-> handler,
   respHandler |-> respHandler, respMode |-> respMode]
RawFactory(factory) ==
  [Factory(Nil, Nil, Nil, Nil, Nil, DefaultMode) EXCEPT !.raw = factory]

\* The loops over registry, factoryRegistry, respFactRegistry and rawRegistry,
\* of which a later one overwrites what an earlier one put under the same name.
FactoryOf(n) ==
  IF n \in DOMAIN rawRegistry THEN RawFactory(rawRegistry[n])
  ELSE IF n \in DOMAIN respFactRegistry
    THEN Factory(Nil, Nil, respFactRegistry[n], Nil, Nil,
                 Get(respModeRegistry, n, DefaultMode))
  ELSE IF n \in DOMAIN factoryRegistry
    THEN Factory(Nil, factoryRegistry[n], Nil, Nil, Nil, DefaultMode)
  ELSE Factory(Get(configRegistry, n, Nil), Nil, Nil, registry[n],
               Get(respRegistry, n, Nil), Get(respModeRegistry, n, DefaultMode))

Published == DOMAIN registry \cup DOMAIN factoryRegistry
             \cup DOMAIN respFactRegistry \cup DOMAIN rawRegistry

WellKnownHttpFilterConfigFactories ==
  /\ factories' = [n \in Published |-> FactoryOf(n)]
  /\ panicked' = FALSE /\ created' = NotCreated
  /\ UNCHANGED maps

\* Create's checks of what it is to build the filter from: the factory's
\* handlers where there is a factory, else the registered one.
Complete(f, req, resp) ==
  CASE f.respFactFn # Nil -> req # Nil /\ resp # Nil
    [] f.respFactFn = Nil /\ f.factoryFn # Nil -> req # Nil
    [] OTHER -> f.handler # Nil

\* configFactory.Create for one configuration of filter n.  The function that
\* is called, if any, fails or not; req and resp are what a factory returns.
Create(n, fails, req, resp) ==
  /\ n \in DOMAIN factories /\ factories[n].raw = Nil
  /\ LET f       == factories[n]
         calls   == f.respFactFn # Nil \/ f.factoryFn # Nil \/ f.configFn # Nil
         handler == IF f.respFactFn # Nil \/ f.factoryFn # Nil THEN req ELSE f.handler
         respFn  == IF f.respFactFn # Nil THEN resp ELSE f.respHandler
     IN created' =
          IF (calls /\ fails) \/ ~Complete(f, req, resp)
          THEN [NotCreated EXCEPT !.name = n]
          ELSE [name |-> n, ok |-> TRUE, handler |-> handler,
                respHandler |-> respFn, respMode |-> f.respMode]
  /\ panicked' = FALSE
  /\ UNCHANGED <<maps, factories>>

\* Bound: only Register and RegisterFactory are tried with a nil function.
Registration(n) ==
  \/ Refuse(n)
  \/ \E fn \in MaybeFuncs : Register(n, fn) \/ RegisterFactory(n, fn)
  \/ \E fn, other \in Funcs, mode \in Modes :
       \/ RegisterWithConfig(n, other, fn)
       \/ RegisterWithResponse(n, fn, other, mode)
       \/ RegisterWithConfigAndResponse(n, other, fn, other, mode)
       \/ RegisterFactoryWithResponse(n, fn, mode)
       \/ RegisterRaw(n, fn)

Next ==
  \/ \E n \in Names :
       \/ Registration(n)
       \/ Unregister(n)
       \/ \E fails \in BOOLEAN, req, resp \in MaybeFuncs : Create(n, fails, req, resp)
  \/ WellKnownHttpFilterConfigFactories

Spec == Init /\ [][Next]_vars

-----------------------------------------------------------------------------
(***************************************************************************)
(* Properties.                                                             *)
(***************************************************************************)

\* A name has at most one kind of entry, so the order in which the factory map
\* is filled decides nothing; and the maps that only complete an entry hold a
\* name only together with the entry.
OneEntryPerName ==
  /\ \A n \in Names :
       \A M, L \in {"registry", "factory", "respFact", "raw"} :
         LET In(K) == n \in CASE K = "registry" -> DOMAIN registry
                              [] K = "factory"  -> DOMAIN factoryRegistry
                              [] K = "respFact" -> DOMAIN respFactRegistry
                              [] K = "raw"      -> DOMAIN rawRegistry
         IN In(M) /\ In(L) => M = L
  /\ DOMAIN configRegistry \cup DOMAIN respRegistry \subseteq DOMAIN registry
  /\ DOMAIN respModeRegistry = DOMAIN respRegistry \cup DOMAIN respFactRegistry

\* The filter Create returned can serve: it has a request handler, which the
\* stream code calls unchecked, and a response handler if it was registered with
\* one or with a factory that owes one; without it the response phase would
\* silently be off.
CanServe(filter) ==
  LET f == factories[filter.name] IN
  /\ filter.handler # Nil
  /\ f.respFactFn # Nil \/ f.respHandler # Nil => filter.respHandler # Nil

\* The maps together are one table of entries that some registration asks for,
\* whatever the order of registrations and removals: no entry mixes what was
\* registered with what an earlier registration of the name left behind.  And
\* a filter that is built can serve.
Entries ==
  {Factory(c, Nil, Nil, h, Nil, DefaultMode) : c, h \in MaybeFuncs}
  \cup {Factory(c, Nil, Nil, h, r, m) : c \in MaybeFuncs, h, r \in Funcs, m \in Modes}
  \cup {Factory(Nil, g, Nil, Nil, Nil, DefaultMode) : g \in MaybeFuncs}
  \cup {Factory(Nil, Nil, g, Nil, Nil, m) : g \in Funcs, m \in Modes}
  \cup {RawFactory(g) : g \in Funcs}
ASSUME EntryAssumption == Nil \notin Entries

Table == INSTANCE FilterTable WITH
  table     <- [n \in Names |-> IF n \in Published THEN FactoryOf(n) ELSE Nil],
  published <- [n \in Names |-> Get(factories, n, Nil)],
  built     <- IF ~created.ok THEN Nil
               ELSE IF CanServe(created) THEN created.name ELSE "broken",
  Free      <- Nil
ImplementsTable == Table!Spec
=============================================================================
