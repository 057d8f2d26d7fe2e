---------------------------- MODULE RegistryProofs ----------------------------
(***************************************************************************)
(* The maps of handler.go are one table of filters, for any sets of names, *)
(* functions and modes.                                                    *)
(***************************************************************************)
EXTENDS Registry, TLAPS

\* A name has an entry of one kind, for whatever names the maps hold.
Kinds ==
  \A n : /\ n \in DOMAIN registry =>
              n \notin DOMAIN factoryRegistry \cup DOMAIN respFactRegistry
                         \cup DOMAIN rawRegistry
         /\ n \in DOMAIN factoryRegistry =>
              n \notin DOMAIN respFactRegistry \cup DOMAIN rawRegistry
         /\ n \in DOMAIN respFactRegistry => n \notin DOMAIN rawRegistry

\* The maps that complete an entry have it; this is what makes a name free in
\* all the maps once it is unregistered.
Completing ==
  /\ DOMAIN configRegistry \cup DOMAIN respRegistry \subseteq DOMAIN registry
  /\ DOMAIN respModeRegistry = DOMAIN respRegistry \cup DOMAIN respFactRegistry

\* Every entry is one that some registration asks for.
Whole ==
  /\ \A n \in Published : FactoryOf(n) \in Entries
  /\ \A n \in DOMAIN factories : factories[n] \in Entries

TableInv == Kinds /\ Completing /\ Whole

-----------------------------------------------------------------------------

\* The maps have the same under x before and after a step.
Agree(m, l, x) == (x \in DOMAIN m <=> x \in DOMAIN l) /\ (x \in DOMAIN m => l[x] = m[x])
SameAt(x) ==
  /\ Agree(registry, registry', x) /\ Agree(configRegistry, configRegistry', x)
  /\ Agree(respRegistry, respRegistry', x)
  /\ Agree(respModeRegistry, respModeRegistry', x)
  /\ Agree(rawRegistry, rawRegistry', x)
  /\ Agree(factoryRegistry, factoryRegistry', x)
  /\ Agree(respFactRegistry, respFactRegistry', x)

LEMMA Agreement ==
  /\ \A m, x : Agree(m, m, x)
  /\ \A m, n, v, x : x # n => Agree(m, Set(m, n, v), x) /\ Agree(m, Delete(m, n), x)
<1>1. \A m, x : Agree(m, m, x)
  BY DEF Agree
<1>2. ASSUME NEW m, NEW n, NEW v, NEW x, x # n
      PROVE  Agree(m, Set(m, n, v), x) /\ Agree(m, Delete(m, n), x)
  BY <1>2 DEF Agree, Set, Delete
<1> QED
  BY <1>1, <1>2

\* An entry depends on what the maps have under its own name.
LEMMA OtherEntry ==
  ASSUME NEW x, SameAt(x)
  PROVE  /\ x \in Published' <=> x \in Published
         /\ x \in Published => FactoryOf(x)' = FactoryOf(x)
<1>1. x \in Published' <=> x \in Published
  BY DEF SameAt, Agree, Published
<1>2. ASSUME x \in Published PROVE FactoryOf(x)' = FactoryOf(x)
  <2>1. /\ Get(configRegistry, x, Nil)' = Get(configRegistry, x, Nil)
        /\ Get(respRegistry, x, Nil)' = Get(respRegistry, x, Nil)
        /\ Get(respModeRegistry, x, DefaultMode)' = Get(respModeRegistry, x, DefaultMode)
    BY DEF SameAt, Agree, Get
  <2>2. CASE x \in DOMAIN rawRegistry
    BY <2>2 DEF SameAt, Agree, FactoryOf
  <2>3. CASE x \notin DOMAIN rawRegistry /\ x \in DOMAIN respFactRegistry
    BY <2>1, <2>3 DEF SameAt, Agree, FactoryOf
  <2>4. CASE /\ x \notin DOMAIN rawRegistry \cup DOMAIN respFactRegistry
             /\ x \in DOMAIN factoryRegistry
    BY <2>4 DEF SameAt, Agree, FactoryOf
  <2>5. CASE x \notin DOMAIN rawRegistry \cup DOMAIN respFactRegistry
                        \cup DOMAIN factoryRegistry
    BY <1>2, <2>1, <2>5 DEF SameAt, Agree, FactoryOf, Published
  <2> QED
    BY <2>2, <2>3, <2>4, <2>5
<1> QED
  BY <1>1, <1>2

-----------------------------------------------------------------------------
(***************************************************************************)
(* What the operations do to the table.                                    *)
(***************************************************************************)

\* A step that makes an entry for n, and nothing else.
Adds(n) ==
  /\ n \notin Published /\ n \in Published'
  /\ FactoryOf(n)' \in Entries
  /\ \A x : x # n => SameAt(x)

\* A registration that is accepted finds every map free of the name.
LEMMA AllFree ==
  ASSUME Completing, NEW n, ~filterRegistered(n)
  PROVE  /\ n \notin Published
         /\ n \notin DOMAIN registry /\ n \notin DOMAIN configRegistry
         /\ n \notin DOMAIN respRegistry /\ n \notin DOMAIN respModeRegistry
         /\ n \notin DOMAIN rawRegistry /\ n \notin DOMAIN factoryRegistry
         /\ n \notin DOMAIN respFactRegistry
  BY DEF Completing, filterRegistered, Published

LEMMA RegistrationAdds ==
  ASSUME Kinds, Completing, NEW n, Registration(n), ~Refuse(n)
  PROVE  Adds(n) /\ Kinds' /\ Completing'
<1> USE DEF Kinds, Completing, Published, Accept
<1>1. ASSUME NEW fn \in MaybeFuncs, Register(n, fn)
      PROVE  Adds(n) /\ Kinds' /\ Completing'
  <2>1. ~filterRegistered(n)
    BY <1>1 DEF Register
  <2>2. \A x : x # n => SameAt(x)
    BY <1>1, Agreement DEF Register, SameAt
  <2>3. /\ DOMAIN registry' = DOMAIN registry \cup {n} /\ registry'[n] = fn
        /\ UNCHANGED <<configRegistry, respRegistry, respModeRegistry, rawRegistry,
                       factoryRegistry, respFactRegistry>>
    BY <1>1 DEF Register, Set, Accept
  <2>4. FactoryOf(n)' = Factory(Nil, Nil, Nil, fn, Nil, DefaultMode)
    BY <2>1, <2>3, AllFree DEF FactoryOf, Get
  <2>5. FactoryOf(n)' \in Entries
    BY <2>4 DEF Entries, MaybeFuncs
  <2>6. Kinds' /\ Completing'
    BY <2>1, <2>3, AllFree
  <2> QED
    BY <2>1, <2>2, <2>3, <2>5, <2>6, AllFree DEF Adds
<1>2. ASSUME NEW cfg \in Funcs, NEW fn \in Funcs, RegisterWithConfig(n, cfg, fn)
      PROVE  Adds(n) /\ Kinds' /\ Completing'
  <2>1. ~filterRegistered(n)
    BY <1>2 DEF RegisterWithConfig
  <2>2. \A x : x # n => SameAt(x)
    BY <1>2, Agreement DEF RegisterWithConfig, SameAt
  <2>3. /\ DOMAIN registry' = DOMAIN registry \cup {n} /\ registry'[n] = fn
        /\ DOMAIN configRegistry' = DOMAIN configRegistry \cup {n}
        /\ configRegistry'[n] = cfg
        /\ UNCHANGED <<respRegistry, respModeRegistry, rawRegistry,
                       factoryRegistry, respFactRegistry>>
    BY <1>2 DEF RegisterWithConfig, Set, Accept
  <2>4. FactoryOf(n)' = Factory(cfg, Nil, Nil, fn, Nil, DefaultMode)
    BY <2>1, <2>3, AllFree DEF FactoryOf, Get
  <2>5. FactoryOf(n)' \in Entries
    BY <2>4 DEF Entries, MaybeFuncs
  <2>6. Kinds' /\ Completing'
    BY <2>1, <2>3, AllFree
  <2> QED
    BY <2>1, <2>2, <2>3, <2>5, <2>6, AllFree DEF Adds
<1>3. ASSUME NEW req \in Funcs, NEW resp \in Funcs, NEW mode \in Modes,
             RegisterWithResponse(n, req, resp, mode)
      PROVE  Adds(n) /\ Kinds' /\ Completing'
  <2>1. ~filterRegistered(n)
    BY <1>3 DEF RegisterWithResponse
  <2>2. \A x : x # n => SameAt(x)
    BY <1>3, Agreement DEF RegisterWithResponse, SameAt
  <2>3. /\ DOMAIN registry' = DOMAIN registry \cup {n} /\ registry'[n] = req
        /\ DOMAIN respRegistry' = DOMAIN respRegistry \cup {n}
        /\ respRegistry'[n] = resp
        /\ DOMAIN respModeRegistry' = DOMAIN respModeRegistry \cup {n}
        /\ respModeRegistry'[n] = mode
        /\ UNCHANGED <<configRegistry, rawRegistry, factoryRegistry, respFactRegistry>>
    BY <1>3 DEF RegisterWithResponse, Set, Accept
  <2>4. FactoryOf(n)' = Factory(Nil, Nil, Nil, req, resp, mode)
    BY <2>1, <2>3, AllFree DEF FactoryOf, Get
  <2>5. FactoryOf(n)' \in Entries
    BY <2>4 DEF Entries, MaybeFuncs
  <2>6. Kinds' /\ Completing'
    BY <2>1, <2>3, AllFree
  <2> QED
    BY <2>1, <2>2, <2>3, <2>5, <2>6, AllFree DEF Adds
<1>4. ASSUME NEW cfg \in Funcs, NEW req \in Funcs, NEW resp \in Funcs,
             NEW mode \in Modes,
             RegisterWithConfigAndResponse(n, cfg, req, resp, mode)
      PROVE  Adds(n) /\ Kinds' /\ Completing'
  <2>1. ~filterRegistered(n)
    BY <1>4 DEF RegisterWithConfigAndResponse
  <2>2. \A x : x # n => SameAt(x)
    BY <1>4, Agreement DEF RegisterWithConfigAndResponse, SameAt
  <2>3. /\ DOMAIN registry' = DOMAIN registry \cup {n} /\ registry'[n] = req
        /\ DOMAIN configRegistry' = DOMAIN configRegistry \cup {n}
        /\ configRegistry'[n] = cfg
        /\ DOMAIN respRegistry' = DOMAIN respRegistry \cup {n}
        /\ respRegistry'[n] = resp
        /\ DOMAIN respModeRegistry' = DOMAIN respModeRegistry \cup {n}
        /\ respModeRegistry'[n] = mode
        /\ UNCHANGED <<rawRegistry, factoryRegistry, respFactRegistry>>
    BY <1>4 DEF RegisterWithConfigAndResponse, Set, Accept
  <2>4. FactoryOf(n)' = Factory(cfg, Nil, Nil, req, resp, mode)
    BY <2>1, <2>3, AllFree DEF FactoryOf, Get
  <2>5. FactoryOf(n)' \in Entries
    BY <2>4 DEF Entries, MaybeFuncs
  <2>6. Kinds' /\ Completing'
    BY <2>1, <2>3, AllFree
  <2> QED
    BY <2>1, <2>2, <2>3, <2>5, <2>6, AllFree DEF Adds
<1>5. ASSUME NEW fn \in MaybeFuncs, RegisterFactory(n, fn)
      PROVE  Adds(n) /\ Kinds' /\ Completing'
  <2>1. ~filterRegistered(n)
    BY <1>5 DEF RegisterFactory
  <2>2. \A x : x # n => SameAt(x)
    BY <1>5, Agreement DEF RegisterFactory, SameAt
  <2>3. /\ DOMAIN factoryRegistry' = DOMAIN factoryRegistry \cup {n}
        /\ factoryRegistry'[n] = fn
        /\ UNCHANGED <<registry, configRegistry, respRegistry, respModeRegistry,
                       rawRegistry, respFactRegistry>>
    BY <1>5 DEF RegisterFactory, Set, Accept
  <2>4. FactoryOf(n)' = Factory(Nil, fn, Nil, Nil, Nil, DefaultMode)
    BY <2>1, <2>3, AllFree DEF FactoryOf
  <2>5. FactoryOf(n)' \in Entries
    BY <2>4 DEF Entries
  <2>6. Kinds' /\ Completing'
    BY <2>1, <2>3, AllFree
  <2> QED
    BY <2>1, <2>2, <2>3, <2>5, <2>6, AllFree DEF Adds
<1>6. ASSUME NEW fn \in Funcs, NEW mode \in Modes,
             RegisterFactoryWithResponse(n, fn, mode)
      PROVE  Adds(n) /\ Kinds' /\ Completing'
  <2>1. ~filterRegistered(n)
    BY <1>6 DEF RegisterFactoryWithResponse
  <2>2. \A x : x # n => SameAt(x)
    BY <1>6, Agreement DEF RegisterFactoryWithResponse, SameAt
  <2>3. /\ DOMAIN respFactRegistry' = DOMAIN respFactRegistry \cup {n}
        /\ respFactRegistry'[n] = fn
        /\ DOMAIN respModeRegistry' = DOMAIN respModeRegistry \cup {n}
        /\ respModeRegistry'[n] = mode
        /\ UNCHANGED <<registry, configRegistry, respRegistry, rawRegistry,
                       factoryRegistry>>
    BY <1>6 DEF RegisterFactoryWithResponse, Set, Accept
  <2>4. FactoryOf(n)' = Factory(Nil, Nil, fn, Nil, Nil, mode)
    BY <2>1, <2>3, AllFree DEF FactoryOf, Get
  <2>5. FactoryOf(n)' \in Entries
    BY <2>4 DEF Entries
  <2>6. Kinds' /\ Completing'
    BY <2>1, <2>3, AllFree
  <2> QED
    BY <2>1, <2>2, <2>3, <2>5, <2>6, AllFree DEF Adds
<1>7. ASSUME NEW fn \in Funcs, RegisterRaw(n, fn)
      PROVE  Adds(n) /\ Kinds' /\ Completing'
  <2>1. ~filterRegistered(n)
    BY <1>7 DEF RegisterRaw
  <2>2. \A x : x # n => SameAt(x)
    BY <1>7, Agreement DEF RegisterRaw, SameAt
  <2>3. /\ DOMAIN rawRegistry' = DOMAIN rawRegistry \cup {n} /\ rawRegistry'[n] = fn
        /\ UNCHANGED <<registry, configRegistry, respRegistry, respModeRegistry,
                       factoryRegistry, respFactRegistry>>
    BY <1>7 DEF RegisterRaw, Set, Accept
  <2>4. FactoryOf(n)' = RawFactory(fn)
    BY <2>3 DEF FactoryOf
  <2>5. FactoryOf(n)' \in Entries
    BY <2>4 DEF Entries
  <2>6. Kinds' /\ Completing'
    BY <2>1, <2>3, AllFree
  <2> QED
    BY <2>1, <2>2, <2>3, <2>5, <2>6, AllFree DEF Adds
<1> HIDE DEF Kinds, Completing, Published, Accept
<1> QED
  BY <1>1, <1>2, <1>3, <1>4, <1>5, <1>6, <1>7 DEF Registration

\* Unregister leaves nothing behind under the name.
LEMMA UnregisterFrees ==
  ASSUME Kinds, Completing, NEW n, Unregister(n)
  PROVE  /\ n \notin Published' /\ \A x : x # n => SameAt(x)
         /\ Kinds' /\ Completing'
<1>1. \A x : x # n => SameAt(x)
  BY Agreement DEF Unregister, SameAt
<1>2. /\ DOMAIN registry' = DOMAIN registry \ {n}
      /\ DOMAIN configRegistry' = DOMAIN configRegistry \ {n}
      /\ DOMAIN respRegistry' = DOMAIN respRegistry \ {n}
      /\ DOMAIN respModeRegistry' = DOMAIN respModeRegistry \ {n}
      /\ DOMAIN rawRegistry' = DOMAIN rawRegistry \ {n}
      /\ DOMAIN factoryRegistry' = DOMAIN factoryRegistry \ {n}
      /\ DOMAIN respFactRegistry' = DOMAIN respFactRegistry \ {n}
  BY DEF Unregister, Delete
<1> QED
  BY <1>1, <1>2 DEF Kinds, Completing, Published

\* A filter is built only with the handlers it owes.
LEMMA CreatesWhole ==
  ASSUME NEW n, NEW fails, NEW req, NEW resp, Create(n, fails, req, resp)
  PROVE  created'.ok => CanServe(created)' /\ created'.name = n
<1> DEFINE f == factories[n]
<1>1. SUFFICES ASSUME created'.ok PROVE CanServe(created)' /\ created'.name = n
  OBVIOUS
<1>2. factories' = factories /\ Complete(f, req, resp)
      /\ created' = [name |-> n, ok |-> TRUE,
           handler |-> IF f.respFactFn # Nil \/ f.factoryFn # Nil THEN req ELSE f.handler,
           respHandler |-> IF f.respFactFn # Nil THEN resp ELSE f.respHandler,
           respMode |-> f.respMode]
  BY <1>1 DEF Create, NotCreated
<1> HIDE DEF f
<1>3. /\ created'.name = n
      /\ created'.handler # Nil
      /\ f.respFactFn # Nil \/ f.respHandler # Nil => created'.respHandler # Nil
  BY <1>2 DEF Complete
<1> QED
  BY <1>2, <1>3 DEF CanServe, f
-----------------------------------------------------------------------------

LEMMA TableInvCorrect ==
  /\ Init => TableInv
  /\ TableInv /\ [Next]_vars => TableInv'
<1>1. Init => TableInv
  <2>1. DOMAIN Empty = {}
    BY DEF Empty
  <2> QED
    BY <2>1 DEF Init, TableInv, Kinds, Completing, Whole, Published
<1>2. ASSUME TableInv, [Next]_vars PROVE TableInv'
  <2>1. ASSUME NEW n, Registration(n), ~Refuse(n) PROVE TableInv'
    <3>1. Adds(n) /\ Kinds' /\ Completing'
      BY <1>2, <2>1, RegistrationAdds DEF TableInv
    <3>2. factories' = factories
      BY <2>1 DEF Registration, Register, RegisterFactory, RegisterWithConfig,
         RegisterWithResponse, RegisterWithConfigAndResponse,
         RegisterFactoryWithResponse, RegisterRaw, Accept
    <3>3. \A x \in Published' : FactoryOf(x)' \in Entries
      BY <1>2, <3>1, OtherEntry DEF Adds, TableInv, Whole
    <3>4. Entries' = Entries
      BY DEF Entries
    <3> QED
      BY <1>2, <3>1, <3>2, <3>3, <3>4 DEF TableInv, Whole
  <2>2. ASSUME NEW n, Unregister(n) PROVE TableInv'
    <3>1. /\ n \notin Published' /\ \A x : x # n => SameAt(x)
          /\ Kinds' /\ Completing' /\ factories' = factories
      BY <1>2, <2>2, UnregisterFrees DEF TableInv, Unregister
    <3>2. \A x \in Published' : FactoryOf(x)' \in Entries
      BY <1>2, <3>1, OtherEntry DEF TableInv, Whole
    <3> QED
      BY <1>2, <3>1, <3>2 DEF TableInv, Whole
  <2>3. CASE WellKnownHttpFilterConfigFactories
    <3>1. /\ factories' = [n \in Published |-> FactoryOf(n)] /\ UNCHANGED maps
      BY <2>3 DEF WellKnownHttpFilterConfigFactories
    <3>2. \A x : SameAt(x)
      BY <3>1, Agreement DEF SameAt, maps
    <3>3. Kinds' /\ Completing'
      BY <1>2, <3>1 DEF TableInv, Kinds, Completing, maps
    <3> QED
      BY <1>2, <3>1, <3>2, <3>3, OtherEntry DEF TableInv, Whole
  <2>4. ASSUME UNCHANGED <<maps, factories>> PROVE TableInv'
    <3>1. \A x : SameAt(x)
      BY <2>4, Agreement DEF SameAt, maps
    <3>2. Kinds' /\ Completing'
      BY <1>2, <2>4 DEF TableInv, Kinds, Completing, maps
    <3> QED
      BY <1>2, <2>4, <3>1, <3>2, OtherEntry DEF TableInv, Whole
  <2>5. ASSUME NEW n, Refuse(n) PROVE TableInv'
    BY <2>4, <2>5 DEF Refuse
  <2>6. ASSUME NEW n, NEW fails, NEW req, NEW resp, Create(n, fails, req, resp)
        PROVE  TableInv'
    BY <2>4, <2>6 DEF Create
  <2>7. CASE UNCHANGED vars
    BY <2>4, <2>7 DEF vars
  <2> QED
    BY <1>2, <2>1, <2>2, <2>3, <2>5, <2>6, <2>7, Zenon DEF Next
<1> QED
  BY <1>1, <1>2

\* A name is in one of the maps that make an entry, and the maps that complete
\* one have no other names: the order in which the factory map is filled decides
\* nothing (handler.go, mustRegisterFilter and the functions that call it).
THEOREM OneEntryPerNameCorrect == Spec => []OneEntryPerName
<1>1. TableInv => OneEntryPerName
  BY DEF TableInv, Kinds, Completing, OneEntryPerName
<1> QED
  BY <1>1, TableInvCorrect, PTL DEF Spec

\* The seven maps implement one table: a registration adds one entry or panics,
\* Unregister takes one away, Envoy is given the table of the moment, and a
\* filter is built only from an entry that is in it, with the handlers it owes.
THEOREM RegistryIsTable == Spec => ImplementsTable
<1> DEFINE table == [n \in Names |-> IF n \in Published THEN FactoryOf(n) ELSE Nil]
           published == [n \in Names |-> Get(factories, n, Nil)]
           built == IF ~created.ok THEN Nil
                    ELSE IF CanServe(created) THEN created.name ELSE "broken"
           tvars == <<table, published, panicked, built>>
<1>1. Init => Table!Init
  <2>1. DOMAIN Empty = {}
    BY DEF Empty
  <2> QED
    BY <2>1 DEF Init, Table!Init, Published, Get, NotCreated
<1>2. created' = NotCreated => built' = Nil
  BY DEF NotCreated
<1>3. UNCHANGED maps => table' = table
  <2>1. ASSUME UNCHANGED maps, NEW x PROVE SameAt(x)
    BY <2>1, Agreement DEF SameAt, maps
  <2> QED
    BY <2>1, OtherEntry
<1>4. factories' = factories => published' = published
  BY DEF Get
<1>5. ASSUME TableInv, [Next]_vars PROVE Table!Next \/ UNCHANGED tvars
  <2>1. ASSUME NEW n \in Names, Registration(n), ~Refuse(n) PROVE Table!Next
    <3>1. Adds(n)
      BY <1>5, <2>1, RegistrationAdds DEF TableInv
    <3>2. panicked' = FALSE /\ created' = NotCreated /\ factories' = factories
      BY <2>1 DEF Registration, Register, RegisterFactory, RegisterWithConfig,
         RegisterWithResponse, RegisterWithConfigAndResponse,
         RegisterFactoryWithResponse, RegisterRaw, Accept
    <3>3. table[n] = Nil /\ table' = [table EXCEPT ![n] = FactoryOf(n)']
      BY <3>1, OtherEntry DEF Adds
    <3>4. PICK e \in Entries : e = FactoryOf(n)'
      BY <3>1 DEF Adds
    <3>5. Table!Register(n, e)
      BY <1>2, <1>4, <3>2, <3>3, <3>4 DEF Table!Register
    <3> QED
      BY <3>5 DEF Table!Next
  <2>2. ASSUME NEW n \in Names, Refuse(n) PROVE Table!Next
    <3>1. n \in Published
      BY <1>5, <2>2 DEF Refuse, TableInv, Completing, filterRegistered, Published
    <3>2. table[n] # Nil
      BY <1>5, <3>1, EntryAssumption DEF TableInv, Whole
    <3>3. Table!Refuse(n)
      BY <1>2, <1>3, <1>4, <2>2, <3>2 DEF Table!Refuse, Refuse
    <3> QED
      BY <3>3 DEF Table!Next
  <2>3. ASSUME NEW n \in Names, Unregister(n) PROVE Table!Next
    <3>1. n \notin Published' /\ \A x : x # n => SameAt(x)
      BY <1>5, <2>3, UnregisterFrees DEF TableInv
    <3>2. table' = [table EXCEPT ![n] = Nil]
      BY <3>1, OtherEntry
    <3>3. Table!Unregister(n)
      BY <1>2, <1>4, <2>3, <3>2 DEF Table!Unregister, Unregister
    <3> QED
      BY <3>3 DEF Table!Next
  <2>4. ASSUME NEW n \in Names, NEW fails \in BOOLEAN, NEW req \in MaybeFuncs,
               NEW resp \in MaybeFuncs, Create(n, fails, req, resp)
        PROVE  Table!Next
    <3>1. published[n] # Nil
      BY <1>5, <2>4, EntryAssumption DEF Create, Get, TableInv, Whole
    <3>2. built' \in {n, Nil}
      BY <2>4, CreatesWhole
    <3>3. Table!Build(n)
      BY <1>3, <1>4, <2>4, <3>1, <3>2 DEF Table!Build, Create
    <3> QED
      BY <3>3 DEF Table!Next
  <2>5. CASE WellKnownHttpFilterConfigFactories
    <3>1. published' = table
      BY <2>5 DEF WellKnownHttpFilterConfigFactories, Get
    <3>2. Table!Publish
      BY <1>2, <1>3, <2>5, <3>1
         DEF Table!Publish, WellKnownHttpFilterConfigFactories
    <3> QED
      BY <3>2 DEF Table!Next
  <2>6. CASE UNCHANGED vars
    <3>1. created' = created /\ panicked' = panicked /\ UNCHANGED <<maps, factories>>
      BY <2>6 DEF vars
    <3>2. built' = built
      BY <3>1 DEF CanServe
    <3> QED
      BY <1>3, <1>4, <3>1, <3>2
  <2> HIDE DEF tvars
  <2> QED
    BY <1>5, <2>1, <2>2, <2>3, <2>4, <2>5, <2>6, Zenon DEF Next
<1>6. TableInv /\ [Next]_vars => [Table!Next]_tvars
  BY <1>5
<1> QED
  BY <1>1, <1>6, TableInvCorrect, PTL DEF Spec, ImplementsTable, Table!Spec
===============================================================================
