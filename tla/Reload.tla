------------------------------- MODULE Reload -------------------------------
(***************************************************************************)
(* Configuration: the names of signals (SignalRegistry in rvo-signals),    *)
(* validation (rvo-config), and what the three programs of rvo-bin do with *)
(* a configuration: rvo-bin adds the detectors of its command line and     *)
(* reloads on SIGHUP, rvo-web serves a page that lists the nodes and adds  *)
(* one, rvo-tui shows a menu first and then a fixed list of services.      *)
(*                                                                         *)
(* The registry is global and only grows: validation registers the names   *)
(* of a configuration one by one as it meets them, a rejected one          *)
(* included, and detectors and events keep the slot their name had when    *)
(* they were built.  SIGHUP sets a flag; a thread reads the file, checks   *)
(* it, builds the new runtime without a lock, and swaps it in under the    *)
(* scheduler's.  The file can change at any moment.  The HTTP server of    *)
(* rvo-web handles one request at a time.                                  *)
(*                                                                         *)
(* What depends on the build: milliseconds times 1_000_000 overflows for a *)
(* huge time to live, duration or cooldown, and then panics or wraps.      *)
(*                                                                         *)
(* accepted, lastRead and current are history variables.                   *)
(***************************************************************************)
EXTENDS Integers, Sequences, SequencesExt, Selection

CONSTANTS
    BuiltIn,        \* names of the built-in signals; each is its own slot
    Custom,         \* other names a configuration can use
    MaxCustom,      \* custom slots (8)
    Files,          \* what the configuration file can hold
    Cli,            \* the detectors of --detector
    MaxNodes        \* bound: nodes added in the browser

Name == BuiltIn \cup Custom

\* One detector or event of a configuration.  "local" is dummy, load or
\* jitter; an invalid entry is an unknown kind or a missing field of a
\* detector, or a zero cooldown of an event, and a huge one has a time that
\* overflows; enabled is a detector's.
Entry == [role : {"local", "remote", "event"}, signal : Name,
          enabled : BOOLEAN, fault : {"none", "invalid", "huge"}]

Program == {"rvo-bin", "rvo-web", "rvo-tui"}

ASSUME ReloadAssumption ==
    /\ MaxCustom \in Nat
    /\ Files \subseteq Seq(Entry)   \* detectors first; << >> is unreadable
    /\ Cli \in Seq(Entry)
    /\ MaxNodes \in Nat
    /\ BuiltIn \cap Custom = {}
    /\ (BuiltIn \cup Custom) \cap Nat = {}

VARIABLES
    program,        \* which of the three runs
    file,           \* the contents of the file
    sighup,         \* a SIGHUP the reload thread has not seen
    registry,       \* name_to_type: the name of each custom slot, in order
    phase,          \* "check", "build", "swap", "idle" or "list"; "dead" is
                    \* the end of the program, "gone" of the reload thread
    loading,        \* the configuration being loaded
    pos,            \* the entry validate is at
    built,          \* what build_runtime_config has returned
    live,           \* the scheduler's detectors and definitions
    listed,         \* the nodes of rvo-web, the service lines of rvo-tui
    poisoned,       \* whether a tick has panicked with the scheduler's lock
    accepted,       \* history: the configuration of live, or NotYet
    lastRead,       \* history: the contents last read
    current         \* history: what the file has held since the last SIGHUP

vars == <<program, file, sighup, registry, phase, loading, pos, built, live,
          listed, poisoned, accepted, lastRead, current>>

\* No runtime before startup is over.
NotYet == << >>

Slot == BuiltIn \cup 1 .. MaxCustom
NoSlot == 0

\* A detector or a definition, with the slot its name stood for when built.
Component == [role : {"local", "remote", "event"}, signal : Name,
              slot : Slot \cup {NoSlot}]

\* What a page or a dashboard shows of a detector.
Line == [role : {"local", "remote"}, signal : Name]

TypeOK ==
    /\ program \in Program
    /\ file \in Files
    /\ sighup \in BOOLEAN
    /\ registry \in Seq(Custom)
    /\ Len(registry) <= MaxCustom
    /\ phase \in {"check", "build", "swap", "idle", "list", "dead", "gone"}
    /\ loading \in Files
    /\ pos \in 1 .. Len(loading) + 1
    /\ built \in Seq(Component)
    /\ live \in Seq(Component)
    /\ listed \in Seq(Line)
    /\ poisoned \in BOOLEAN
    /\ accepted \in Seq(Entry)
    /\ lastRead \in Files
    /\ current \subseteq Files

\* main reads the file and begins to validate it; nobody listens to SIGHUP.
Init ==
    /\ program \in Program
    /\ file \in Files
    /\ sighup = FALSE
    /\ registry = << >>
    /\ phase = "check"
    /\ loading = file
    /\ pos = 1
    /\ built = << >>
    /\ live = << >>
    /\ listed = << >>
    /\ poisoned = FALSE
    /\ accepted = NotYet
    /\ lastRead = file
    /\ current = {file}

Started == accepted # NotYet

configuration == <<program, registry, built, live, listed, poisoned, accepted>>

-----------------------------------------------------------------------------
(* The environment *)

\* Somebody rewrites the file, in one step.
Edit ==
    /\ \E contents \in Files : file' = contents
    /\ current' = current \cup {file'}
    /\ UNCHANGED <<sighup, phase, loading, pos, lastRead, configuration>>

\* Mutant of Sighup: a signal during a reload is dropped.
SighupWhenIdle ==
    /\ program = "rvo-bin"
    /\ Started
    /\ sighup' = (sighup \/ phase = "idle")
    /\ current' = {file}
    /\ UNCHANGED <<file, phase, loading, pos, lastRead, configuration>>

\* SIGHUP, once main has installed its handler: signals that come before the
\* thread looks are one.  The other programs install none.
Sighup ==
    /\ program = "rvo-bin"
    /\ Started
    /\ sighup' = TRUE
    /\ current' = {file}
    /\ UNCHANGED <<file, phase, loading, pos, lastRead, configuration>>

-----------------------------------------------------------------------------
(* SignalRegistry *)

\* SignalType::from_name, SignalRegistry::lookup.
FromName(name) ==
    IF name \in BuiltIn THEN name
    ELSE IF name \in ToSet(registry)
    THEN CHOOSE k \in DOMAIN registry : registry[k] = name
    ELSE NoSlot

\* SignalType::name of a built-in or registered signal.
NameOf(slot) == IF slot \in BuiltIn THEN slot ELSE registry[slot]

\* Mutant of Full: one slot too many.
FullLate(name) == FromName(name) = NoSlot /\ Len(registry) > MaxCustom

\* register returns Err.
Full(name) == FromName(name) = NoSlot /\ Len(registry) >= MaxCustom

\* Mutant of Registered: a known name is registered again.
RegisteredTwice(name) ==
    IF name \in BuiltIn \/ Len(registry) >= MaxCustom THEN registry
    ELSE Append(registry, name)

\* The registry after register has returned Ok.
Registered(name) ==
    IF FromName(name) # NoSlot THEN registry ELSE Append(registry, name)

-----------------------------------------------------------------------------
(* Loading a configuration *)

\* Mutant of Failed: the names of a rejected configuration, and all others,
\* are given back.
FailedForgets ==
    /\ phase' = IF Started THEN "idle" ELSE "dead"
    /\ registry' = << >>

\* expect() ends the program at startup; a reload is reported and forgotten.
Failed ==
    /\ phase' = IF Started THEN "idle" ELSE "dead"
    /\ UNCHANGED registry

\* The reload thread sees the signal and reads the file.
Read ==
    /\ phase = "idle"
    /\ sighup
    /\ sighup' = FALSE
    /\ loading' = file
    /\ lastRead' = file
    /\ pos' = 1
    /\ phase' = "check"
    /\ UNCHANGED <<file, current, configuration>>

\* The file does not parse, or lacks a detector or an event.
Incomplete(config) ==
    \/ ~\E i \in DOMAIN config : config[i].role = "event"
    \/ ~\E i \in DOMAIN config : config[i].role # "event"

Reject ==
    /\ phase = "check"
    /\ Incomplete(loading)
    /\ Failed
    /\ UNCHANGED <<program, file, sighup, loading, pos, built, live, listed,
                   poisoned, accepted, lastRead, current>>

\* The turn of validate for the entry at pos: it names a signal to register.
Names(e) == e.role = "event" \/ (e.role = "remote" /\ e.fault # "invalid")

\* validate goes through the detectors, then the events.  A disabled detector
\* is validated, and its signal registered, too; an event's signal is
\* registered before its cooldown is looked at.
Check ==
    /\ phase = "check"
    /\ ~Incomplete(loading)
    /\ pos <= Len(loading)
    /\ LET e == loading[pos] IN
       \/ /\ Names(e) /\ ~Full(e.signal)
          /\ e.fault # "invalid"
          /\ registry' = Registered(e.signal)
          /\ pos' = pos + 1
          /\ UNCHANGED phase
       \/ /\ Names(e) /\ ~Full(e.signal)
          /\ e.fault = "invalid"
          /\ registry' = Registered(e.signal)
          /\ phase' = IF Started THEN "idle" ELSE "dead"
          /\ UNCHANGED pos
       \/ /\ Names(e) /\ Full(e.signal)
          /\ Failed
          /\ UNCHANGED pos
       \/ /\ ~Names(e) /\ e.fault = "invalid"
          /\ Failed
          /\ UNCHANGED pos
       \/ /\ ~Names(e) /\ e.fault # "invalid"
          /\ pos' = pos + 1
          /\ UNCHANGED <<registry, phase>>
    /\ UNCHANGED <<program, file, sighup, loading, built, live, listed, poisoned,
                   accepted, lastRead, current>>

Validated ==
    /\ phase = "check"
    /\ ~Incomplete(loading)
    /\ pos = Len(loading) + 1

\* The entries a runtime is built from: main adds the command line's.
Entries ==
    IF Started \/ program # "rvo-bin" THEN loading ELSE loading \o Cli

Enabled(config) == Select(config, {e \in Entry : e.enabled})

Resolve(e) == [role |-> e.role, signal |-> e.signal, slot |-> FromName(e.signal)]

Resolved(config) == [i \in DOMAIN Enabled(config) |-> Resolve(Enabled(config)[i])]

Detectors == {e \in Entry : e.role # "event"}

\* Mutant of Seeded: disabled detectors are listed.
SeededAll(config) ==
    LET shown == Select(config, Detectors)
    IN  [i \in DOMAIN shown |-> [role |-> shown[i].role, signal |-> shown[i].signal]]

\* seed_nodes of rvo-web, describe_detectors of rvo-tui.
Seeded(config) ==
    LET shown == Select(Enabled(config), Detectors)
    IN  [i \in DOMAIN shown |-> [role |-> shown[i].role, signal |-> shown[i].signal]]

\* rvo-tui lists its services once the configuration is there, and shows its
\* menu: Enter, or q.
Menu ==
    /\ program = "rvo-tui"
    /\ Validated
    /\ listed' = Seeded(Entries)
    /\ phase' \in {"build", "dead"}
    /\ UNCHANGED <<program, file, sighup, registry, loading, pos, built, live,
                   poisoned, accepted, lastRead, current>>

Overflows == \E e \in ToSet(Enabled(Entries)) : e.fault = "huge"

Ready == phase = "build" \/ (Validated /\ program # "rvo-tui")

\* build_detectors and build_event_engine, after rvo-web has listed its nodes;
\* only a detector of the command line can name a signal that validation has
\* not registered.
Build ==
    /\ Ready
    /\ \/ /\ \E c \in ToSet(Resolved(Entries)) : c.slot = NoSlot
          /\ Failed
          /\ UNCHANGED <<built, listed>>
       \/ /\ \A c \in ToSet(Resolved(Entries)) : c.slot # NoSlot
          /\ built' = Resolved(Entries)
          /\ listed' = IF program = "rvo-web" THEN Seeded(Entries) ELSE listed
          /\ phase' = "swap"
          /\ UNCHANGED registry
    /\ UNCHANGED <<program, file, sighup, loading, pos, live, poisoned, accepted,
                   lastRead, current>>

\* In a build with overflow checks the multiplication panics: of the program
\* at startup, and of the reload thread, which nobody restarts, later.
BuildPanics ==
    /\ Ready
    /\ Overflows
    /\ phase' = IF Started THEN "gone" ELSE "dead"
    /\ UNCHANGED <<file, sighup, loading, pos, lastRead, current, configuration>>

\* Scheduler::new, or swap_runtime between two ticks; reload_scheduler returns
\* an error when it finds the lock poisoned.
Swap ==
    /\ phase = "swap"
    /\ \/ ~poisoned /\ live' = built /\ accepted' = Entries
       \/ poisoned /\ UNCHANGED <<live, accepted>>
    /\ built' = << >>
    /\ phase' = "idle"
    /\ UNCHANGED <<program, file, sighup, registry, loading, pos, listed, poisoned,
                   lastRead, current>>

\* The reload thread prints about each signal first, and panics once nobody
\* reads the output.
ReportPanics ==
    /\ phase = "idle"
    /\ sighup
    /\ sighup' = FALSE
    /\ phase' = "gone"
    /\ UNCHANGED <<file, loading, pos, lastRead, current, configuration>>

Load ==
    \/ Read \/ ReportPanics \/ Reject \/ Check \/ Menu \/ Build \/ BuildPanics
    \/ Swap

-----------------------------------------------------------------------------
(* The scheduler's lock *)

\* A tick panics with the lock in hand: see Scheduler.
TickPanics ==
    /\ Started
    /\ phase # "dead"
    /\ ~poisoned
    /\ poisoned' = TRUE
    /\ UNCHANGED <<program, file, sighup, registry, phase, loading, pos, built,
                   live, listed, accepted, lastRead, current>>

\* The program ends with its main thread: rvo-bin's is the one that ticks, that
\* of rvo-web unwraps the lock in a later request and that of rvo-tui when it
\* draws the dashboard.
Ends ==
    /\ poisoned
    /\ phase \notin {"list", "dead"}
    /\ phase' = "dead"
    /\ UNCHANGED <<file, sighup, loading, pos, lastRead, current, configuration>>

-----------------------------------------------------------------------------
(* The node form of rvo-web: POST /api/nodes *)

Node(name) == [role |-> "remote", signal |-> name, enabled |-> TRUE, fault |-> "none"]

\* handle_add_node: a name the registry knows is enough, whoever registered
\* it; any other, and an empty endpoint, is refused.  The detector is added
\* under the scheduler's mutex...
AddNode(name) ==
    /\ program = "rvo-web"
    /\ phase = "idle"
    /\ ~poisoned
    /\ Len(live) < Len(Resolved(loading)) + MaxNodes
    /\ FromName(name) # NoSlot
    /\ live' = Append(live, Resolve(Node(name)))
    /\ accepted' = Append(accepted, Node(name))
    /\ phase' = "list"
    /\ UNCHANGED <<program, file, sighup, registry, loading, pos, built, listed,
                   poisoned, lastRead, current>>

\* ... and the node under that of the list, before the next request is read.
ListNode ==
    /\ phase = "list"
    /\ listed' = Append(listed, [role |-> Last(live).role, signal |-> Last(live).signal])
    /\ phase' = "idle"
    /\ UNCHANGED <<program, file, sighup, registry, loading, pos, built, live,
                   poisoned, accepted, lastRead, current>>

Next ==
    \/ Edit \/ Sighup \/ Load
    \/ \E name \in Name : AddNode(name)
    \/ ListNode
    \/ TickPanics \/ Ends

Spec == Init /\ [][Next]_vars

-----------------------------------------------------------------------------
(* Properties *)

\* from_name is the inverse of name() for every signal that has a name
\* (store.rs:68): no two signals share one.
RoundTrip ==
    \A slot \in BuiltIn \cup DOMAIN registry : FromName(NameOf(slot)) = slot

\* Invalid configs preserve the live runtime (DEVELOPER_GUIDE.md:255), whatever
\* loads have failed since and however far: the running detectors and events
\* are those of the last configuration accepted, and the slots they were built
\* with, perhaps many reloads ago, are still those of their names - a reload
\* never splits an event from the detector whose signal it watches.
LiveIsAccepted == live = Resolved(accepted)

\* No SIGHUP is lost to a reload in progress: when the thread rests, what it
\* last read is what the file has held since the last signal.
NothingStale == phase = "idle" /\ ~sighup => lastRead \in current

\* What the page of rvo-web or the screen of rvo-tui shows is what runs: one
\* line per detector of the scheduler, in its order and with the name of the
\* slot it writes, so that a lit dot means that detector's signal
\* (rvo-web.rs:57-85, 210-219, rvo-tui.rs:73-88) - disabled entries, rejected
\* nodes and edits of the file after it was read included.
ListedRuns ==
    (program # "rvo-bin" /\ Started /\ phase = "idle") =>
        LET running == Select(live, {c \in Component : c.role # "event"}) IN
        /\ Len(listed) = Len(running)
        /\ \A i \in DOMAIN listed :
              /\ listed[i].role = running[i].role
              /\ listed[i].signal = NameOf(running[i].slot)
=============================================================================
