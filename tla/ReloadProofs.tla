---------------------------- MODULE ReloadProofs ----------------------------
(***************************************************************************)
(* The invariants of Reload, proved for every set of names, every number   *)
(* of slots, every configuration file and every command line.              *)
(***************************************************************************)
EXTENDS Reload, SelectionProofs

USE ReloadAssumption

-----------------------------------------------------------------------------
(* The inductive invariant *)

\* A name is registered once.
Unique == \A j, k \in DOMAIN registry : registry[j] = registry[k] => j = k

Known(components) == \A i \in DOMAIN components : components[i].slot # NoSlot

\* The runtime that is waiting for the scheduler's lock is the one its
\* configuration asks for, all its names are registered, and they stay so.
Waiting ==
    /\ phase \in {"build", "swap"} => loading # << >>
    /\ phase = "swap" => built = Resolved(Entries) /\ Known(built)

Running ==
    /\ LiveIsAccepted
    /\ Known(live)
    /\ phase \in {"idle", "list"} => Started
    /\ poisoned => Started

Fresh ==
    /\ file \in current
    /\ phase \notin {"gone", "dead"} /\ ~sighup => lastRead \in current

LastLine == [role |-> Last(live).role, signal |-> Last(live).signal]

\* A program with a list loads once; between the two halves of adding a node
\* its list is one line short.
Listing ==
    /\ phase = "list" => program = "rvo-web"
    /\ program # "rvo-bin" =>
          /\ ~sighup
          /\ Started => phase \in {"idle", "list", "dead"}
          /\ phase \in {"build", "swap"} => listed = Seeded(Entries)
          /\ phase = "idle" => listed = Seeded(accepted)
          /\ phase = "list" => Append(listed, LastLine) = Seeded(accepted)

IInv == TypeOK /\ Unique /\ Waiting /\ Running /\ Fresh /\ Listing

-----------------------------------------------------------------------------
(* Names and slots *)

RegistryOK ==
    registry \in Seq(Custom) /\ Len(registry) <= MaxCustom /\ Unique

NamesOK ==
    \A name \in Name :
        /\ FromName(name) \in Slot \cup {NoSlot}
        /\ FromName(name) = NoSlot <=> name \notin BuiltIn \cup ToSet(registry)
        /\ name \in BuiltIn => FromName(name) = name
        /\ name \in ToSet(registry) =>
              FromName(name) \in DOMAIN registry /\ registry[FromName(name)] = name

LEMMA NamesHold == RegistryOK => NamesOK
    <1> SUFFICES ASSUME RegistryOK, NEW name \in Name
                 PROVE  /\ FromName(name) \in Slot \cup {NoSlot}
                        /\ FromName(name) = NoSlot <=>
                              name \notin BuiltIn \cup ToSet(registry)
                        /\ name \in BuiltIn => FromName(name) = name
                        /\ name \in ToSet(registry) =>
                              /\ FromName(name) \in DOMAIN registry
                              /\ registry[FromName(name)] = name
        BY DEF NamesOK
    <1>0. /\ registry \in Seq(Custom) /\ Len(registry) \in 0 .. MaxCustom
          /\ DOMAIN registry = 1 .. Len(registry) /\ ToSet(registry) \subseteq Custom
        BY DEF RegistryOK, ToSet
    <1>1. CASE name \in BuiltIn
        BY <1>0, <1>1 DEF FromName, Slot, NoSlot, Name
    <1>2. CASE name \notin BuiltIn /\ name \in ToSet(registry)
        <2> DEFINE k == CHOOSE j \in DOMAIN registry : registry[j] = name
        <2>1. \E j \in DOMAIN registry : registry[j] = name
            BY <1>2 DEF ToSet
        <2>2. k \in DOMAIN registry /\ registry[k] = name
            BY <2>1
        <2>3. FromName(name) = k
            BY <1>2 DEF FromName
        <2> HIDE DEF k
        <2> QED
            BY <1>0, <1>2, <2>2, <2>3 DEF Slot, NoSlot
    <1>3. CASE name \notin BuiltIn /\ name \notin ToSet(registry)
        BY <1>3 DEF FromName, NoSlot
    <1> QED
        BY <1>1, <1>2, <1>3

LEMMA NamesNext == RegistryOK' => NamesOK'
    BY NamesHold, PTL

\* The registry grows by one unknown name, or not at all.
Grows ==
    \/ UNCHANGED registry
    \/ \E name \in Name :
          /\ FromName(name) = NoSlot
          /\ Len(registry) < MaxCustom
          /\ registry' = Append(registry, name)

LEMMA RegistryStep == TypeOK /\ [Next]_vars => Grows
    <1> SUFFICES ASSUME TypeOK, [Next]_vars, registry' # registry PROVE Grows
        BY DEF Grows
    <1>1. Check
        BY DEF Next, vars, configuration, Edit, Sighup, Load, Read, Reject, Failed,
           Menu, Build, BuildPanics, Swap, ReportPanics, TickPanics, Ends, AddNode, ListNode
    <1>2. /\ ~Full(loading[pos].signal) /\ registry' = Registered(loading[pos].signal)
          /\ pos <= Len(loading)
        BY <1>1 DEF Check, Failed
    <1>3. loading[pos].signal \in Name
        <2>1. loading \in Seq(Entry) /\ pos \in 1 .. Len(loading)
            BY <1>2 DEF TypeOK
        <2>2. loading[pos] \in Entry
            BY <2>1
        <2> QED
            BY <2>2 DEF Entry
    <1>4. Len(registry) \in Int /\ MaxCustom \in Int
        BY DEF TypeOK
    <1> QED
        BY <1>2, <1>3, <1>4 DEF Grows, Full, Registered

LEMMA RegistryKept ==
    ASSUME RegistryOK, Grows
    PROVE  RegistryOK'
    <1>1. CASE UNCHANGED registry
        BY <1>1 DEF RegistryOK, Unique
    <1>2. CASE ~UNCHANGED registry
        <2>1. PICK name \in Name :
                 /\ FromName(name) = NoSlot
                 /\ Len(registry) < MaxCustom
                 /\ registry' = Append(registry, name)
            BY <1>2 DEF Grows
        <2>2. name \in Custom /\ name \notin ToSet(registry)
            BY <2>1, NamesHold DEF NamesOK, Name
        <2>3. registry \in Seq(Custom) /\ Len(registry) \in Nat
            BY DEF RegistryOK
        <2>4. /\ registry' \in Seq(Custom) /\ Len(registry') = Len(registry) + 1
              /\ DOMAIN registry' = 1 .. Len(registry) + 1
              /\ DOMAIN registry = 1 .. Len(registry)
              /\ \A i \in 1 .. Len(registry) : registry'[i] = registry[i]
              /\ registry'[Len(registry) + 1] = name
            BY <2>1, <2>2, <2>3, AppendProperties, LenProperties
        <2>5. \A i \in 1 .. Len(registry) : registry[i] # name
            BY <2>2, <2>4 DEF ToSet
        <2>6. Unique'
            BY <2>3, <2>4, <2>5 DEF Unique, RegistryOK
        <2> QED
            BY <2>1, <2>3, <2>4, <2>6 DEF RegistryOK
    <1> QED
        BY <1>1, <1>2

\* A known name keeps its slot, whatever is registered after it.
LEMMA SlotsKept ==
    ASSUME RegistryOK, Grows, NEW name \in Name, FromName(name) # NoSlot
    PROVE  FromName(name)' = FromName(name)
    <1>0. NamesOK /\ NamesOK' /\ RegistryOK'
        BY NamesHold, NamesNext, RegistryKept
    <1>1. CASE UNCHANGED registry
        BY <1>1 DEF FromName
    <1>2. CASE name \in BuiltIn
        BY <1>2 DEF FromName
    <1>3. CASE ~UNCHANGED registry /\ name \notin BuiltIn
        <2>1. PICK new \in Custom : registry' = Append(registry, new)
            <3>1. PICK new \in Name : FromName(new) = NoSlot /\ registry' = Append(registry, new)
                BY <1>3 DEF Grows
            <3>2. new \in Custom
                BY <1>0, <3>1 DEF NamesOK, Name
            <3> QED
                BY <3>1, <3>2
        <2>2. name \in ToSet(registry)
            BY <1>0, <1>3 DEF NamesOK
        <2>3. FromName(name) \in DOMAIN registry /\ registry[FromName(name)] = name
            BY <1>0, <2>2 DEF NamesOK
        <2>4. registry \in Seq(Custom)
            BY DEF RegistryOK
        <2>5. /\ FromName(name) \in DOMAIN registry' /\ registry'[FromName(name)] = name
              /\ name \in ToSet(registry')
            <3>1. /\ DOMAIN registry = 1 .. Len(registry) /\ Len(registry) \in Nat
                  /\ DOMAIN registry' = 1 .. Len(registry) + 1
                  /\ \A i \in 1 .. Len(registry) : registry'[i] = registry[i]
                BY <2>1, <2>4, AppendProperties, LenProperties
            <3>2. FromName(name) \in DOMAIN registry' /\ registry'[FromName(name)] = name
                BY <2>3, <3>1
            <3> QED
                BY <3>2 DEF ToSet
        <2>6. FromName(name)' \in DOMAIN registry' /\ registry'[FromName(name)'] = name
            BY <1>0, <2>5 DEF NamesOK
        <2> QED
            BY <1>0, <2>5, <2>6 DEF RegistryOK, Unique
    <1> QED
        BY <1>1, <1>2, <1>3


LEMMA NameOfFromName ==
    ASSUME RegistryOK, NEW name \in Name, FromName(name) # NoSlot
    PROVE  NameOf(FromName(name)) = name
    <1>0. NamesOK /\ registry \in Seq(Custom)
        BY NamesHold DEF RegistryOK
    <1>1. CASE name \in BuiltIn
        BY <1>1 DEF NameOf, FromName
    <1>2. CASE name \notin BuiltIn
        <2>1. FromName(name) \in DOMAIN registry /\ registry[FromName(name)] = name
            BY <1>0, <1>2 DEF NamesOK
        <2>2. FromName(name) \in Nat
            BY <1>0, <2>1
        <2>3. FromName(name) \notin BuiltIn
            BY <2>2
        <2> QED
            BY <2>1, <2>3 DEF NameOf
    <1> QED
        BY <1>1, <1>2

-----------------------------------------------------------------------------
(* What a configuration asks for *)

LEMMA EntryFacts ==
    /\ \A e \in Entry : e.signal \in Name /\ e.role \in {"local", "remote", "event"}
    /\ \A name \in Name :
          /\ Node(name) \in Entry /\ Node(name).enabled = TRUE
          /\ Node(name).role = "remote" /\ Node(name).signal = name
    BY DEF Entry, Node

LEMMA EnabledType ==
    ASSUME NEW config \in Seq(Entry)
    PROVE  Enabled(config) \in Seq(Entry)
    <1>1. Enabled(config) \in Seq(Entry \cap {e \in Entry : e.enabled})
        BY SelectType DEF Enabled
    <1> QED
        BY <1>1, SeqMonotonic

LEMMA ResolveType ==
    ASSUME RegistryOK, NEW e \in Entry
    PROVE  Resolve(e) \in Component
    <1>1. FromName(e.signal) \in Slot \cup {NoSlot}
        BY NamesHold, EntryFacts DEF NamesOK
    <1> QED
        BY <1>1, EntryFacts DEF Resolve, Component

LEMMA ResolvedType ==
    ASSUME RegistryOK, NEW config \in Seq(Entry)
    PROVE  /\ Resolved(config) \in Seq(Component)
           /\ Enabled(config) \in Seq(Entry)
           /\ DOMAIN Resolved(config) = DOMAIN Enabled(config)
           /\ \A i \in DOMAIN Enabled(config) :
                 /\ Resolved(config)[i] = Resolve(Enabled(config)[i])
                 /\ Enabled(config)[i] \in Entry
    <1> DEFINE s == Enabled(config)
    <1>1. s \in Seq(Entry)
        BY EnabledType
    <1>2. Resolved(config) = [i \in DOMAIN s |-> Resolve(s[i])]
        BY DEF Resolved
    <1> HIDE DEF s
    <1>3. DOMAIN s = 1 .. Len(s) /\ Len(s) \in Nat /\ \A i \in DOMAIN s : s[i] \in Entry
        BY <1>1
    <1>4. \A i \in 1 .. Len(s) : Resolve(s[i]) \in Component
        BY <1>3, ResolveType
    <1>5. Resolved(config) \in [1 .. Len(s) -> Component]
        BY <1>2, <1>3, <1>4
    <1>6. Resolved(config) \in Seq(Component)
        BY <1>3, <1>5
    <1> QED
        BY <1>1, <1>2, <1>3, <1>6 DEF s

\* A runtime whose names are all registered does not change with the registry.
LEMMA ResolvedKept ==
    ASSUME RegistryOK, Grows, NEW config \in Seq(Entry), Known(Resolved(config))
    PROVE  Resolved(config)' = Resolved(config)
    <1>1. ASSUME NEW i \in DOMAIN Enabled(config)
          PROVE  Resolve(Enabled(config)[i])' = Resolve(Enabled(config)[i])
        <2>1. /\ Enabled(config)[i] \in Entry
              /\ Resolved(config)[i] = Resolve(Enabled(config)[i])
              /\ i \in DOMAIN Resolved(config)
            BY ResolvedType
        <2>2. FromName(Enabled(config)[i].signal) # NoSlot
            BY <2>1 DEF Known, Resolve
        <2>3. Enabled(config)[i].signal \in Name
            BY <2>1, EntryFacts
        <2>4. FromName(Enabled(config)[i].signal)' = FromName(Enabled(config)[i].signal)
            BY <2>2, <2>3, SlotsKept
        <2> QED
            BY <2>4 DEF Resolve
    <1> QED
        BY <1>1 DEF Resolved

\* One entry more.
LEMMA ResolvedAppend ==
    ASSUME RegistryOK, NEW config \in Seq(Entry), NEW e \in Entry, e.enabled = TRUE
    PROVE  /\ Enabled(Append(config, e)) = Append(Enabled(config), e)
           /\ Resolved(Append(config, e)) = Append(Resolved(config), Resolve(e))
    <1> DEFINE s == Enabled(config)
               t == Enabled(Append(config, e))
    <1>1. t = Append(s, e) /\ s \in Seq(Entry)
        BY SelectAppend, EnabledType DEF Enabled
    <1>2. Append(config, e) \in Seq(Entry)
        BY AppendProperties
    <1>3. /\ Resolved(config) \in Seq(Component) /\ DOMAIN Resolved(config) = DOMAIN s
          /\ \A i \in DOMAIN s : Resolved(config)[i] = Resolve(s[i])
        BY ResolvedType
    <1> DEFINE l == Resolved(Append(config, e))
               r == Append(Resolved(config), Resolve(e))
    <1>4. /\ l \in Seq(Component) /\ DOMAIN l = DOMAIN t
          /\ \A i \in DOMAIN t : l[i] = Resolve(t[i])
        BY <1>2, ResolvedType
    <1>5. Resolve(e) \in Component
        BY ResolveType
    <1> HIDE DEF s, t, l
    <1>6. /\ DOMAIN s = 1 .. Len(s) /\ DOMAIN t = 1 .. Len(s) + 1 /\ Len(s) \in Nat
          /\ t[Len(s) + 1] = e /\ \A i \in 1 .. Len(s) : t[i] = s[i]
        BY <1>1, AppendProperties, LenProperties
    <1>7. Len(Resolved(config)) = Len(s) /\ Len(l) = Len(s) + 1
        BY <1>3, <1>4, <1>6, LenProperties
    <1>8. /\ r \in Seq(Component) /\ Len(r) = Len(s) + 1
          /\ \A i \in 1 .. Len(s) : r[i] = Resolved(config)[i]
          /\ r[Len(s) + 1] = Resolve(e)
        BY <1>3, <1>5, <1>7, AppendProperties
    <1> HIDE DEF r
    <1>9. ASSUME NEW i \in 1 .. Len(l) PROVE l[i] = r[i]
        <2>1. CASE i = Len(s) + 1
            BY <1>4, <1>6, <1>7, <1>8, <2>1
        <2>2. CASE i # Len(s) + 1
            <3>1. i \in 1 .. Len(s) /\ i \in DOMAIN t
                BY <1>6, <1>7, <2>2
            <3> QED
                BY <1>3, <1>4, <1>6, <1>8, <3>1
        <2> QED
            BY <2>1, <2>2
    <1>10. l = r
        BY <1>4, <1>7, <1>8, <1>9, SeqEqual
    <1> QED
        BY <1>1, <1>10 DEF l, r, s, t

\* The lines of a configuration, and of one with a node more.
LineOf(e) == [role |-> e.role, signal |-> e.signal]

LEMMA SeededType ==
    ASSUME NEW config \in Seq(Entry)
    PROVE  /\ Seeded(config) \in Seq(Line)
           /\ Select(Enabled(config), Detectors) \in Seq(Entry \cap Detectors)
           /\ Seeded(config) = [i \in DOMAIN Select(Enabled(config), Detectors) |->
                                   LineOf(Select(Enabled(config), Detectors)[i])]
    <1> DEFINE s == Select(Enabled(config), Detectors)
    <1>1. s \in Seq(Entry \cap Detectors)
        BY EnabledType, SelectType
    <1>2. Seeded(config) = [i \in DOMAIN s |-> LineOf(s[i])]
        BY DEF Seeded, LineOf
    <1> HIDE DEF s
    <1>3. /\ DOMAIN s = 1 .. Len(s) /\ Len(s) \in Nat
          /\ \A i \in 1 .. Len(s) : s[i] \in Entry /\ s[i].role # "event"
        BY <1>1 DEF Detectors
    <1>4. \A i \in 1 .. Len(s) : LineOf(s[i]) \in Line
        BY <1>3, EntryFacts DEF LineOf, Line
    <1>5. Seeded(config) \in [1 .. Len(s) -> Line]
        BY <1>2, <1>3, <1>4
    <1>6. Seeded(config) \in Seq(Line)
        BY <1>3, <1>5
    <1> QED
        BY <1>1, <1>2, <1>6 DEF s

LEMMA SeededNode ==
    ASSUME RegistryOK, NEW config \in Seq(Entry), NEW name \in Name
    PROVE  Seeded(Append(config, Node(name))) = Append(Seeded(config), LineOf(Node(name)))
    <1> DEFINE e == Node(name)
               s == Select(Enabled(config), Detectors)
               t == Select(Enabled(Append(config, e)), Detectors)
    <1>1. e \in Entry /\ e.enabled = TRUE /\ e \in Detectors
        BY EntryFacts DEF Detectors
    <1>2. Enabled(Append(config, e)) = Append(Enabled(config), e)
        BY <1>1, ResolvedAppend
    <1>3. t = Append(s, e)
        BY <1>1, <1>2, EnabledType, SelectAppend
    <1>4. Append(config, e) \in Seq(Entry)
        BY <1>1, AppendProperties
    <1>5. /\ Seeded(config) = [i \in DOMAIN s |-> LineOf(s[i])]
          /\ s \in Seq(Entry \cap Detectors) /\ Seeded(config) \in Seq(Line)
        BY SeededType
    <1>6. Seeded(Append(config, e)) = [i \in DOMAIN t |-> LineOf(t[i])]
             /\ Seeded(Append(config, e)) \in Seq(Line)
        BY <1>4, SeededType
    <1> HIDE DEF e, s, t
    <1>7. /\ DOMAIN s = 1 .. Len(s) /\ DOMAIN t = 1 .. Len(s) + 1 /\ Len(s) \in Nat
          /\ t[Len(s) + 1] = e /\ \A i \in 1 .. Len(s) : t[i] = s[i]
        <2>1. e \in Entry \cap Detectors
            BY <1>1
        <2> QED
            BY <1>3, <1>5, <2>1, AppendProperties, LenProperties
    <1>8. LineOf(e) \in Line
        BY <1>1, EntryFacts DEF LineOf, Line, Detectors
    <1> DEFINE l == Seeded(Append(config, e))
               r == Append(Seeded(config), LineOf(e))
    <1>9. Len(Seeded(config)) = Len(s) /\ Len(l) = Len(s) + 1
        BY <1>5, <1>6, <1>7, LenProperties
    <1>10. /\ r \in Seq(Line) /\ Len(r) = Len(s) + 1
           /\ \A i \in 1 .. Len(s) : r[i] = Seeded(config)[i]
           /\ r[Len(s) + 1] = LineOf(e)
        BY <1>5, <1>8, <1>9, AppendProperties
    <1> HIDE DEF r
    <1>11. ASSUME NEW i \in 1 .. Len(l) PROVE l[i] = r[i]
        <2>1. CASE i = Len(s) + 1
            BY <1>6, <1>7, <1>9, <1>10, <2>1
        <2>2. CASE i # Len(s) + 1
            <3>1. i \in 1 .. Len(s) /\ i \in DOMAIN t
                BY <1>7, <1>9, <2>2
            <3> QED
                BY <1>5, <1>6, <1>7, <1>10, <3>1
        <2> QED
            BY <2>1, <2>2
    <1>12. l = r
        BY <1>6, <1>9, <1>10, <1>11, SeqEqual
    <1> QED
        BY <1>12 DEF r, e


-----------------------------------------------------------------------------
(* The invariant is inductive *)

LEMMA IInvRegistry == IInv => RegistryOK
    BY DEF IInv, TypeOK, RegistryOK

LEMMA RegistryNext == IInv /\ [Next]_vars => Grows /\ RegistryOK'
    BY IInvRegistry, RegistryStep, RegistryKept DEF IInv

LEMMA EntriesType ==
    ASSUME TypeOK
    PROVE  Entries \in Seq(Entry) /\ (loading # << >> => Entries # << >>)
    <1>1. loading \in Seq(Entry) /\ Cli \in Seq(Entry)
        BY DEF TypeOK
    <1>2. loading \o Cli \in Seq(Entry) /\ (loading # << >> => loading \o Cli # << >>)
        BY <1>1, ConcatProperties, ConcatEqualIffEmpty
    <1> QED
        BY <1>1, <1>2 DEF Entries

LEMMA InitIInv == Init => IInv
    <1> SUFFICES ASSUME Init PROVE IInv
        OBVIOUS
    <1>1. TypeOK
        <2>1. loading \in Seq(Entry) /\ loading \in Files /\ pos = 1
            BY DEF Init
        <2>2. pos \in 1 .. Len(loading) + 1
            BY <2>1
        <2>3. sighup \in BOOLEAN
            BY DEF Init
        <2>4. registry \in Seq(Custom) /\ Len(registry) <= MaxCustom
            BY DEF Init
        <2>5. /\ program \in Program /\ file \in Files /\ phase = "check"
              /\ lastRead \in Files /\ current \subseteq Files
              /\ poisoned \in BOOLEAN
            BY DEF Init
        <2>6. /\ built \in Seq(Component) /\ live \in Seq(Component)
              /\ listed \in Seq(Line) /\ accepted \in Seq(Entry)
            BY DEF Init, NotYet
        <2> QED
            BY ONLY <2>1, <2>2, <2>3, <2>4, <2>5, <2>6 DEF TypeOK
    <1>2. Unique
        BY DEF Init, Unique
    <1>3. RegistryOK
        BY <1>1, <1>2 DEF RegistryOK, TypeOK
    <1>4. Enabled(<< >>) = << >>
        BY SelectEmpty DEF Enabled
    <1>5. LiveIsAccepted
        BY <1>4 DEF Init, NotYet, LiveIsAccepted, Resolved
    <1>6. Running
        BY <1>5 DEF Init, Running, Known
    <1> QED
        BY <1>1, <1>2, <1>6 DEF Init, IInv, Waiting, Fresh, Listing, Started, NotYet

LEMMA TypeNext == IInv /\ [Next]_vars => TypeOK'
    <1> SUFFICES ASSUME IInv, [Next]_vars PROVE TypeOK'
        OBVIOUS
    <1>0. TypeOK /\ RegistryOK /\ RegistryOK'
        BY IInvRegistry, RegistryNext DEF IInv
    <1>1. registry' \in Seq(Custom) /\ Len(registry') <= MaxCustom
        BY <1>0 DEF RegistryOK
    <1>2. Entries \in Seq(Entry)
        BY <1>0, EntriesType
    <1>3. CASE UNCHANGED vars
        BY <1>0, <1>3 DEF TypeOK, vars
    <1>4. CASE Edit
        BY <1>0, <1>4 DEF TypeOK, Edit, configuration
    <1>5. CASE Sighup
        <2>1. sighup' \in BOOLEAN
            BY <1>5 DEF Sighup
        <2> QED
            BY <1>0, <1>5, <2>1 DEF TypeOK, Sighup, configuration
    <1>6. CASE Read
        <2>1. sighup' \in BOOLEAN
            BY <1>6 DEF Read
        <2>2. pos' \in 1 .. Len(loading') + 1
            <3>1. file \in Seq(Entry)
                BY <1>0 DEF TypeOK
            <3> QED
                BY <1>6, <3>1 DEF Read
        <2> QED
            BY <1>0, <1>6, <2>1, <2>2 DEF TypeOK, Read, configuration
    <1>7. CASE Reject
        BY <1>0, <1>7 DEF TypeOK, Reject, Failed
    <1>8. CASE Check
        <2>1. pos' \in 1 .. Len(loading) + 1
            <3>1. loading \in Seq(Entry)
                BY <1>0 DEF TypeOK
            <3> QED
                BY <1>0, <1>8, <3>1 DEF TypeOK, Check
        <2>2. phase' \in {"check", "idle", "dead"}
            BY <1>8 DEF Check, Failed
        <2> QED
            BY <1>0, <1>1, <1>8, <2>1, <2>2 DEF TypeOK, Check
    <1>9. CASE Menu
        <2>1. listed' \in Seq(Line)
            BY <1>2, <1>9, SeededType DEF Menu
        <2> QED
            BY <1>0, <1>9, <2>1 DEF TypeOK, Menu
    <1>10. CASE Build
        <2>1. Resolved(Entries) \in Seq(Component) /\ Seeded(Entries) \in Seq(Line)
            BY <1>0, <1>2, ResolvedType, SeededType
        <2>2. built' \in Seq(Component) /\ listed' \in Seq(Line)
            BY <1>0, <1>10, <2>1 DEF TypeOK, Build
        <2>3. phase' \in {"swap", "idle", "dead"}
            BY <1>10 DEF Build, Failed
        <2> QED
            BY <1>0, <1>1, <1>10, <2>2, <2>3 DEF TypeOK, Build
    <1>11. CASE BuildPanics
        BY <1>0, <1>11 DEF TypeOK, BuildPanics, configuration
    <1>12. CASE Swap
        <2>1. built' \in Seq(Component)
            BY <1>12 DEF Swap
        <2> QED
            BY <1>0, <1>2, <1>12, <2>1 DEF TypeOK, Swap
    <1>13. ASSUME NEW name \in Name, AddNode(name) PROVE TypeOK'
        <2>1. Node(name) \in Entry /\ Resolve(Node(name)) \in Component
            BY <1>0, EntryFacts, ResolveType
        <2>2. live' \in Seq(Component) /\ accepted' \in Seq(Entry)
            BY <1>0, <1>13, <2>1, AppendProperties DEF TypeOK, AddNode
        <2> QED
            BY <1>0, <1>13, <2>2 DEF TypeOK, AddNode
    <1>14. CASE ListNode
        <2>1. listed' = Seeded(accepted)
            BY <1>14 DEF IInv, Listing, LastLine, ListNode
        <2>2. listed' \in Seq(Line)
            BY <1>0, <2>1, SeededType DEF TypeOK
        <2> QED
            BY <1>0, <1>14, <2>2 DEF TypeOK, ListNode
    <1>15. CASE ReportPanics \/ Ends
        <2>1. sighup' \in BOOLEAN
            BY <1>0, <1>15 DEF TypeOK, ReportPanics, Ends
        <2> QED
            BY <1>0, <1>15, <2>1 DEF TypeOK, ReportPanics, Ends, configuration
    <1>16. CASE TickPanics
        <2>1. poisoned' \in BOOLEAN
            BY <1>16 DEF TickPanics
        <2> QED
            BY <1>0, <1>16, <2>1 DEF TypeOK, TickPanics
    <1> QED
        BY <1>3, <1>4, <1>5, <1>6, <1>7, <1>8, <1>9, <1>10, <1>11, <1>12, <1>13, <1>14,
           <1>15, <1>16
           DEF Next, Load

LEMMA FreshNext == IInv /\ [Next]_vars => Fresh'
    <1> SUFFICES ASSUME IInv, [Next]_vars PROVE Fresh'
        OBVIOUS
    <1>1. /\ file \in current
          /\ phase \notin {"gone", "dead"} /\ ~sighup => lastRead \in current
        BY DEF IInv, Fresh
    <1>2. CASE UNCHANGED <<file, sighup, lastRead, current>>
        <2>1. phase' \in {"gone", "dead"} \/ phase \notin {"gone", "dead"}
            BY DEF Next, vars, configuration, Edit, Sighup, Load, Read, Reject, Check, Menu,
               Build, Ready, Validated, BuildPanics, Swap, ReportPanics, TickPanics, Ends,
               AddNode, ListNode
        <2> QED
            BY <1>1, <1>2, <2>1 DEF Fresh
    <1>3. CASE Edit \/ Sighup
        BY <1>1, <1>3 DEF Fresh, Edit, Sighup
    <1>4. CASE Read
        BY <1>1, <1>4 DEF Fresh, Read
    <1>5. CASE ReportPanics
        BY <1>1, <1>5 DEF Fresh, ReportPanics
    <1> QED
        BY <1>2, <1>3, <1>4, <1>5 DEF Next, vars, Load, Reject, Check, Menu, Build,
           BuildPanics, Swap, TickPanics, Ends, AddNode, ListNode

\* Nothing a runtime is made of changes but its names' slots, and none of those.
LEMMA SameRuntime ==
    ASSUME IInv, [Next]_vars, UNCHANGED <<live, accepted>>
    PROVE  LiveIsAccepted' /\ Known(live') /\ Started' = Started
    <1>1. /\ accepted \in Seq(Entry) /\ live = Resolved(accepted) /\ Known(live)
          /\ RegistryOK /\ Grows
        BY IInvRegistry, RegistryNext DEF IInv, TypeOK, Running, LiveIsAccepted
    <1>2. PICK c \in Seq(Entry) : c = accepted
        BY <1>1
    <1>3. Resolved(c)' = Resolved(c)
        BY <1>1, <1>2, ResolvedKept
    <1>4. Resolved(accepted)' = Resolved(c)'
        BY <1>2 DEF Resolved, Resolve, FromName
    <1> QED
        BY <1>1, <1>2, <1>3, <1>4 DEF LiveIsAccepted, Known, Started

LEMMA SameEntries ==
    ASSUME UNCHANGED <<program, loading, accepted>>
    PROVE  Entries' = Entries /\ (UNCHANGED registry => Resolved(Entries)' = Resolved(Entries))
    <1>1. Entries' = Entries
        BY DEF Entries, Started
    <1> QED
        BY <1>1 DEF Resolved, Resolve, FromName


LEMMA RunningNext == IInv /\ [Next]_vars => Running'
    <1> SUFFICES ASSUME IInv, [Next]_vars PROVE Running'
        OBVIOUS
    <1>1. CASE UNCHANGED <<live, accepted>>
        <2>1. LiveIsAccepted' /\ Known(live') /\ Started' = Started
            BY <1>1, SameRuntime
        <2>2. ASSUME phase' \in {"idle", "list"} PROVE Started
            <3>1. CASE phase' = phase
                BY <2>2, <3>1 DEF IInv, Running
            <3>2. CASE phase = "list"
                BY <3>2 DEF IInv, Running
            <3>3. CASE Reject \/ Check \/ Build
                BY <2>2, <3>3 DEF Reject, Failed, Check, Build, IInv, Running
            <3>4. CASE Swap \/ \E name \in Name : AddNode(name)
                <4>1. CASE phase \in {"idle", "list"}
                    BY <4>1 DEF IInv, Running
                <4>2. CASE Swap
                    <5>1. Entries # << >> /\ (poisoned => Started)
                        BY <4>2, EntriesType DEF IInv, Waiting, Running, Swap
                    <5>2. poisoned \/ Entries = accepted
                        BY <1>1, <4>2 DEF Swap
                    <5> QED
                        BY <5>1, <5>2 DEF Started, NotYet
                <4> QED
                    BY <3>4, <4>1, <4>2 DEF AddNode
            <3> QED
                BY <2>2, <3>1, <3>2, <3>3, <3>4 DEF Next, vars, configuration, Edit,
                   Sighup, Load, Read, Menu, BuildPanics, ReportPanics, TickPanics, Ends,
                   ListNode
        <2>3. ASSUME poisoned' PROVE Started
            <3>1. poisoned' = poisoned \/ TickPanics
                BY DEF Next, vars, configuration, Edit, Sighup, Load, Read, Reject, Check,
                   Menu, Build, BuildPanics, Swap, ReportPanics, TickPanics, Ends, AddNode,
                   ListNode
            <3> QED
                BY <2>3, <3>1 DEF IInv, Running, TickPanics
        <2> QED
            BY <2>1, <2>2, <2>3 DEF Running, Known
    <1>2. CASE Swap /\ ~poisoned
        <2>1. /\ Entries \in Seq(Entry) /\ Entries # << >>
              /\ built = Resolved(Entries) /\ Known(built)
            BY <1>2, EntriesType DEF IInv, Waiting, Swap
        <2>2. accepted' = Entries /\ live' = built /\ UNCHANGED registry
            BY <1>2 DEF Swap
        <2>3. PICK c \in Seq(Entry) : c = Entries
            BY <2>1
        <2>4. Resolved(accepted)' = Resolved(c)
            BY <2>2, <2>3 DEF Resolved, Resolve, FromName
        <2>5. LiveIsAccepted' /\ Known(live') /\ Started'
            BY <2>1, <2>2, <2>3, <2>4 DEF LiveIsAccepted, Known, Started, NotYet
        <2> QED
            BY <2>5 DEF Running, Known
    <1>3. ASSUME NEW name \in Name, AddNode(name) PROVE Running'
        <2>1. /\ accepted \in Seq(Entry) /\ live = Resolved(accepted) /\ Known(live)
              /\ live \in Seq(Component) /\ RegistryOK
            BY IInvRegistry DEF IInv, TypeOK, Running, LiveIsAccepted
        <2>2. /\ accepted' = Append(accepted, Node(name))
              /\ live' = Append(live, Resolve(Node(name)))
              /\ UNCHANGED registry /\ FromName(name) # NoSlot
            BY <1>3 DEF AddNode
        <2>3. Node(name) \in Entry /\ Resolve(Node(name)) \in Component
                 /\ Resolve(Node(name)).slot # NoSlot /\ Node(name).enabled = TRUE
            BY <2>1, <2>2, EntryFacts, ResolveType DEF Resolve
        <2>4. PICK c \in Seq(Entry) : c = Append(accepted, Node(name))
            BY <2>1, <2>3, AppendProperties
        <2>5. Resolved(c) = live'
            BY <2>1, <2>2, <2>3, <2>4, ResolvedAppend
        <2>6. Resolved(accepted)' = Resolved(c)
            BY <2>2, <2>4 DEF Resolved, Resolve, FromName
        <2>7. Known(live')
            <3>1. /\ DOMAIN live' = 1 .. Len(live) + 1 /\ Len(live) \in Nat
                  /\ DOMAIN live = 1 .. Len(live)
                  /\ \A i \in 1 .. Len(live) : live'[i] = live[i]
                  /\ live'[Len(live) + 1] = Resolve(Node(name))
                BY <2>1, <2>2, <2>3, AppendProperties, LenProperties
            <3> QED
                BY <2>1, <2>3, <3>1 DEF Known
        <2>8. Started'
            BY <2>1, <2>2, <2>3, AppendProperties DEF Started, NotYet
        <2> QED
            BY <2>5, <2>6, <2>7, <2>8 DEF Running, Known, LiveIsAccepted
    <1> QED
        BY <1>1, <1>2, <1>3 DEF Next, vars, configuration, Edit, Sighup, Load, Read,
           Reject, Check, Menu, Build, BuildPanics, Swap, ReportPanics, TickPanics, Ends,
           ListNode

LEMMA WaitingNext == IInv /\ [Next]_vars => Waiting'
    <1> SUFFICES ASSUME IInv, [Next]_vars PROVE Waiting'
        OBVIOUS
    <1>1. CASE phase' \notin {"build", "swap"}
        BY <1>1 DEF Waiting
    <1>2. CASE UNCHANGED <<phase, loading, program, accepted, built>> /\ phase = "build"
        BY <1>2 DEF IInv, Waiting
    <1>3. CASE UNCHANGED <<phase, loading, program, accepted, built, registry>>
        <2>1. Resolved(Entries)' = Resolved(Entries)
            BY <1>3, SameEntries
        <2> QED
            BY <1>3, <2>1 DEF IInv, Waiting, Known
    <1>4. ASSUME Validated PROVE loading # << >>
        <2>1. DOMAIN loading # {}
            BY <1>4 DEF Validated, Incomplete
        <2>2. DOMAIN << >> = {}
            OBVIOUS
        <2> QED
            BY <2>1, <2>2
    <1>5. CASE Menu
        <2>1. loading' # << >> /\ phase' # "swap"
            BY <1>4, <1>5 DEF Menu
        <2> QED
            BY <2>1 DEF Waiting
    <1>6. CASE Build /\ phase' = "swap"
        <2>1. loading # << >>
            BY <1>4, <1>6 DEF Build, Ready, IInv, Waiting
        <2>2. /\ built' = Resolved(Entries) /\ UNCHANGED <<program, loading, accepted, registry>>
              /\ \A c \in ToSet(Resolved(Entries)) : c.slot # NoSlot
            BY <1>6 DEF Build, Failed
        <2>3. Resolved(Entries)' = Resolved(Entries)
            BY <2>2, SameEntries
        <2>4. Known(built')
            BY <2>2 DEF Known, ToSet
        <2> QED
            BY <2>1, <2>2, <2>3, <2>4 DEF Waiting, Known
    <1> QED
        BY <1>1, <1>2, <1>3, <1>5, <1>6 DEF Next, vars, configuration, Edit, Sighup, Load,
           Read, Reject, Failed, Check, Build, BuildPanics, Swap, ReportPanics, TickPanics,
           Ends, AddNode, ListNode

LEMMA ListingNext == IInv /\ [Next]_vars => Listing'
    <1> SUFFICES ASSUME IInv, [Next]_vars PROVE Listing'
        OBVIOUS
    <1>0. program' = program
        BY DEF Next, vars, configuration, Edit, Sighup, Load, Read, Reject, Check, Menu,
           Build, BuildPanics, Swap, ReportPanics, TickPanics, Ends, AddNode, ListNode
    <1>1. phase' = "list" => program' = "rvo-web"
        BY DEF IInv, Listing, Next, vars, configuration, Edit, Sighup, Load, Read, Reject,
           Failed, Check, Menu, Build, BuildPanics, Swap, ReportPanics, TickPanics, Ends,
           AddNode, ListNode
    <1>2. CASE program = "rvo-bin"
        BY <1>0, <1>1, <1>2 DEF Listing
    <1>3. CASE program # "rvo-bin"
        <2>1. /\ ~sighup
              /\ Started => phase \in {"idle", "list", "dead"}
              /\ phase \in {"build", "swap"} => listed = Seeded(Entries)
              /\ phase = "idle" => listed = Seeded(accepted)
              /\ phase = "list" => Append(listed, LastLine) = Seeded(accepted)
              /\ phase \in {"idle", "list"} => Started
              /\ poisoned => Started
            BY <1>3 DEF IInv, Listing, Running
        <2>2. CASE UNCHANGED <<sighup, phase, loading, listed, live, accepted>>
            <3>1. Entries' = Entries /\ LastLine' = LastLine /\ Started' = Started
                BY <1>0, <2>2 DEF Entries, LastLine, Started
            <3> QED
                BY <1>1, <2>1, <2>2, <3>1 DEF Listing
        <2>3. CASE Reject \/ Check \/ Menu \/ BuildPanics
            <3>1. ~Started /\ UNCHANGED <<sighup, accepted>>
                BY <2>1, <2>3 DEF Reject, Check, Menu, Validated, BuildPanics, Ready,
                   configuration
            <3>2. /\ phase' \in {"check", "build", "dead"}
                  /\ phase' = "build" => Menu
                BY <2>3, <3>1 DEF Reject, Check, Failed, Menu, BuildPanics
            <3>3. phase' = "build" => listed' = Seeded(Entries) /\ Entries' = Entries
                BY <3>2, SameEntries DEF Menu
            <3> QED
                BY <1>1, <2>1, <3>1, <3>2, <3>3 DEF Listing, Started
        <2>4. CASE Build
            <3>1. ~Started /\ UNCHANGED <<sighup, accepted, program, loading>>
                BY <2>1, <2>4 DEF Build, Ready, Validated
            <3>2. phase' \in {"swap", "dead"} /\ (phase' = "swap" => listed' = Seeded(Entries))
                <4>1. program = "rvo-web" \/ phase = "build"
                    BY <1>3, <2>4 DEF Build, Ready, IInv, TypeOK, Program
                <4> QED
                    BY <2>1, <2>4, <3>1, <4>1 DEF Build, Failed
            <3>3. Entries' = Entries
                BY <3>1, SameEntries
            <3> QED
                BY <1>1, <2>1, <3>1, <3>2, <3>3 DEF Listing, Started
        <2>5. CASE Swap
            <3>1. ~poisoned
                BY <2>1, <2>5 DEF Swap
            <3>2. /\ phase' = "idle" /\ listed' = Seeded(accepted')
                  /\ sighup' = sighup
                BY <2>1, <2>5, <3>1 DEF Swap
            <3> QED
                BY <1>1, <2>1, <3>2 DEF Listing
        <2>6. ASSUME NEW name \in Name, AddNode(name) PROVE Listing'
            <3>1. /\ phase = "idle" /\ phase' = "list" /\ UNCHANGED <<sighup, listed>>
                  /\ accepted' = Append(accepted, Node(name))
                  /\ live' = Append(live, Resolve(Node(name)))
                BY <2>6 DEF AddNode
            <3>2. accepted \in Seq(Entry) /\ live \in Seq(Component) /\ RegistryOK
                BY IInvRegistry DEF IInv, TypeOK
            <3>3. Seeded(accepted') = Append(listed, LineOf(Node(name)))
                BY <2>1, <3>1, <3>2, SeededNode
            <3>4. Last(live') = Resolve(Node(name))
                BY <3>1, <3>2, EntryFacts, ResolveType, AppendProperties, LenProperties
                   DEF Last
            <3>5. LastLine' = LineOf(Node(name))
                BY <3>4 DEF LastLine, LineOf, Resolve
            <3> QED
                BY <1>1, <2>1, <3>1, <3>3, <3>5 DEF Listing
        <2>7. CASE ListNode
            <3>1. /\ phase' = "idle" /\ listed' = Append(listed, LastLine)
                  /\ phase = "list" /\ UNCHANGED <<sighup, accepted>>
                BY <2>7 DEF ListNode, LastLine
            <3> QED
                BY <1>1, <2>1, <3>1 DEF Listing
        <2>8. CASE Ends
            <3>1. phase' = "dead" /\ UNCHANGED <<sighup, accepted>>
                BY <2>8 DEF Ends, configuration
            <3> QED
                BY <1>1, <2>1, <3>1 DEF Listing
        <2> QED
            BY <1>3, <2>1, <2>2, <2>3, <2>4, <2>5, <2>6, <2>7, <2>8 DEF Next, vars,
               configuration, Edit, Sighup, Load, Read, ReportPanics, TickPanics
    <1> QED
        BY <1>2, <1>3

LEMMA IInvAlways == Spec => []IInv
    <1>1. IInv /\ [Next]_vars => IInv'
        <2> SUFFICES ASSUME IInv, [Next]_vars PROVE IInv'
            OBVIOUS
        <2>1. Unique'
            BY RegistryNext DEF RegistryOK
        <2> QED
            BY <2>1, TypeNext, RunningNext, WaitingNext, FreshNext, ListingNext DEF IInv
    <1> QED
        BY <1>1, InitIInv, PTL DEF Spec

-----------------------------------------------------------------------------
(* Theorems *)

\* Types: the registry never holds more than MaxCustom names, whatever is
\* loaded and rejected, and every slot in use is one of them or a built-in.
THEOREM TypeCorrect == Spec => []TypeOK
    <1>1. IInv => TypeOK
        BY DEF IInv
    <1> QED
        BY <1>1, IInvAlways, PTL

\* from_name is the inverse of name() for every signal that has a name.
THEOREM RoundTripHolds == Spec => []RoundTrip
    <1>1. IInv => RoundTrip
        <2> SUFFICES ASSUME IInv, NEW slot \in BuiltIn \cup DOMAIN registry
                     PROVE  FromName(NameOf(slot)) = slot
            BY DEF RoundTrip
        <2>0. RegistryOK /\ NamesOK
            BY IInvRegistry, NamesHold
        <2>1. CASE slot \in BuiltIn
            BY <2>1 DEF NameOf, FromName
        <2>2. CASE slot \notin BuiltIn
            <3>1. slot \in DOMAIN registry /\ NameOf(slot) = registry[slot]
                BY <2>2 DEF NameOf
            <3>2. registry[slot] \in Name /\ registry[slot] \in ToSet(registry)
                BY <2>0, <3>1 DEF RegistryOK, ToSet, Name
            <3>3. /\ FromName(registry[slot]) \in DOMAIN registry
                  /\ registry[FromName(registry[slot])] = registry[slot]
                BY <2>0, <3>2 DEF NamesOK
            <3> QED
                BY <2>0, <3>1, <3>3 DEF RegistryOK, Unique
        <2> QED
            BY <2>1, <2>2
    <1> QED
        BY <1>1, IInvAlways, PTL

\* The running detectors and events are those of the last configuration that
\* was accepted, with the slots their names stand for now.
THEOREM LiveIsAcceptedHolds == Spec => []LiveIsAccepted
    <1>1. IInv => LiveIsAccepted
        BY DEF IInv, Running
    <1> QED
        BY <1>1, IInvAlways, PTL

\* When the reload thread rests with no signal to serve, it has read what the
\* file has held since the last one.
THEOREM NothingStaleHolds == Spec => []NothingStale
    <1>1. IInv => NothingStale
        BY DEF IInv, Fresh, NothingStale
    <1> QED
        BY <1>1, IInvAlways, PTL

\* Where a program shows its detectors it shows those that run: each line has
\* the name of the slot its detector writes.
THEOREM ListedRunsHolds == Spec => []ListedRuns
    <1>1. IInv => ListedRuns
        <2> DEFINE running == Select(live, {c \in Component : c.role # "event"})
        <2> SUFFICES ASSUME IInv, program # "rvo-bin", Started, phase = "idle"
                     PROVE  /\ Len(listed) = Len(running)
                            /\ \A i \in DOMAIN listed :
                                  /\ listed[i].role = running[i].role
                                  /\ listed[i].signal = NameOf(running[i].slot)
            BY DEF ListedRuns
        <2>1. /\ listed = Seeded(accepted) /\ live = Resolved(accepted) /\ Known(live)
              /\ accepted \in Seq(Entry) /\ RegistryOK /\ NamesOK
              /\ live \in Seq(Component)
            BY IInvRegistry, NamesHold
               DEF IInv, Listing, Running, LiveIsAccepted, TypeOK
        <2> DEFINE s == Enabled(accepted)
                   F == [e \in Entry |-> Resolve(e)]
                   d == Select(s, Detectors)
        <2>2. /\ s \in Seq(Entry) /\ DOMAIN live = DOMAIN s
              /\ \A i \in DOMAIN s : live[i] = Resolve(s[i]) /\ s[i] \in Entry
            BY <2>1, ResolvedType
        <2> HIDE DEF s
        <2>4. F \in [Entry -> Component]
            BY <2>1, ResolveType
        <2>5. \A e \in Entry :
                 F[e] \in {c \in Component : c.role # "event"} <=> e \in Detectors
            BY <2>4 DEF Resolve, Detectors
        <2>6. /\ DOMAIN running = DOMAIN d
              /\ \A i \in DOMAIN d : running[i] = F[d[i]]
            <3> DEFINE C == {c \in Component : c.role # "event"}
            <3>1. Carries(F, Entry, Component, Detectors, C)
                BY <2>4, <2>5 DEF Carries
            <3>2. Image(F, s, live)
                BY <2>2 DEF Image
            <3>3. running = Select(live, C)
                OBVIOUS
            <3> HIDE DEF F, C, running, d
            <3>4. Image(F, Select(s, Detectors), Select(live, C))
                BY <2>1, <2>2, <3>1, <3>2, SelectMapped
            <3> QED
                BY <3>3, <3>4 DEF Image, d
        <2>7. /\ d \in Seq(Entry \cap Detectors)
              /\ listed = [i \in DOMAIN d |-> LineOf(d[i])]
            BY <2>1, SeededType DEF s
        <2>8. running \in Seq({c \in Component : c.slot # NoSlot})
            <3> DEFINE K == {c \in Component : c.slot # NoSlot}
            <3>1. live \in Seq(K)
                <4>1. DOMAIN live = 1 .. Len(live) /\ Len(live) \in Nat
                         /\ \A i \in 1 .. Len(live) : live[i] \in K
                    BY <2>1 DEF Known
                <4>2. live \in [1 .. Len(live) -> K]
                    BY <2>1, <4>1
                <4> QED
                    BY <4>1, <4>2
            <3> HIDE DEF K
            <3>2. running \in Seq(K \cap {c \in Component : c.role # "event"})
                BY <3>1, SelectType
            <3> QED
                BY <3>2, SeqMonotonic DEF K
        <2>9. ASSUME NEW i \in DOMAIN d
              PROVE  /\ listed[i].role = running[i].role
                     /\ listed[i].signal = NameOf(running[i].slot)
            <3> HIDE DEF d, running
            <3>1. d[i] \in Entry
                BY <2>7
            <3>2. running[i] = Resolve(d[i]) /\ listed[i] = LineOf(d[i])
                BY <2>6, <2>7, <3>1
            <3>3. i \in DOMAIN running
                BY <2>6
            <3>4. running[i].slot # NoSlot
                BY <2>8, <3>3
            <3>5. NameOf(FromName(d[i].signal)) = d[i].signal
                BY <2>1, <3>1, <3>2, <3>4, EntryFacts, NameOfFromName DEF Resolve
            <3> QED
                BY <3>2, <3>5 DEF Resolve, LineOf
        <2>10. Len(listed) = Len(running) /\ DOMAIN listed = DOMAIN d
            <3> HIDE DEF d, running
            <3>1. DOMAIN listed = DOMAIN running
                BY <2>6, <2>7
            <3>2. listed \in Seq(Line)
                BY DEF IInv, TypeOK
            <3> QED
                BY <2>7, <2>8, <3>1, <3>2, LenProperties
        <2> QED
            BY <2>9, <2>10
    <1> QED
        BY <1>1, IInvAlways, PTL

=============================================================================
