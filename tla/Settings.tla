------------------------------- MODULE Settings -------------------------------
(***************************************************************************)
(* The settings of a program (ConfigCache, crates/core/src/config.rs) and  *)
(* the commands that change them: the application's (commands.rs) and the  *)
(* daemon's (http_api).  Each program has a file of its own, and one       *)
(* process writes it, from as many threads as there are commands.          *)
(*                                                                         *)
(* A command edits the cache under its write lock and then persists all of *)
(* it; nothing makes one command wait for another between the two, and the *)
(* temporary file has one name.  set_config gives the lock back between    *)
(* reading and writing, too.                                               *)
(*                                                                         *)
(* A command also announces its change to the peers, where it changes no   *)
(* settings: the coordinator only logs it.  What it does to the bus is in  *)
(* SyncBus, and to proxy instances in ProxySupervisor.                     *)
(***************************************************************************)
EXTENDS FiniteSets, Integers

CONSTANTS
    Writers,     \* commands that may be running at once
    Peers, Hosts, Instances, SyncKeys, Options,   \* what can be set
    NoKey,
    Missing,     \* no file of that name
    Garbled,        \* what cannot be parsed: empty, or of two writers
    MaxEdits,    \* bound: commands
    MaxTroubles  \* bound: crashes, and writes that fail

ASSUME SettingsAssumption ==
    /\ NoKey \notin SyncKeys /\ Options # {}
    /\ MaxEdits \in Nat /\ MaxTroubles \in Nat

VARIABLES
    settings,   \* inner of the ConfigCache
    step,       \* where each command is
    holding,    \* the configuration that it holds a copy of
    opened,     \* the file that its fs::write has open
    data,       \* the contents of each file that there is
    tmpName,    \* the file that is called settings.tmp
    fileName,   \* and settings.json
    kept,       \* history: what the last command saved that ran alone and to its end
    unsaved,    \* history: the last persist failed
    overlapped, \* history: since the start two commands have run at once
    edits, troubles

settingsVars ==
    <<settings, step, holding, opened, data, tmpName, fileName, kept, unsaved, overlapped,
      edits, troubles>>

Configs ==
    [peers : SUBSET Peers, hosts : SUBSET Hosts, instances : SUBSET Instances,
     key : SyncKeys \cup {NoKey}, option : Options, enabled : BOOLEAN]

ASSUME SettingsFileAssumption ==
    /\ Writers # {} /\ IsFiniteSet(Writers)
    /\ Missing \notin Nat /\ Garbled \notin Configs

\* ProxyConfig::default(): the router and the impersonator.
DefaultInstances == Instances

\* AppConfig::default().
Default ==
    [peers |-> {}, hosts |-> {}, instances |-> DefaultInstances, key |-> NoKey,
     option |-> CHOOSE o \in Options : TRUE, enabled |-> FALSE]

\* Files are told apart however they are called: each command may have one open, one
\* is the settings and one is to be.
Files == 1 .. Cardinality(Writers) + 2

SettingsTypeOK ==
    /\ settings \in Configs /\ kept \in Configs
    /\ step \in [Writers -> {"idle", "set", "copy", "open", "fill", "rename"}]
    /\ holding \in [Writers -> Configs]
    /\ opened \in [Writers -> Files]
    /\ data \in [Files -> Configs \cup {Garbled}]
    /\ tmpName \in Files \cup {Missing} /\ fileName \in Files \cup {Missing}
    /\ unsaved \in BOOLEAN /\ overlapped \in BOOLEAN
    /\ edits \in 0 .. MaxEdits /\ troubles \in 0 .. MaxTroubles

SettingsInit ==
    /\ settings = Default /\ kept = Default
    /\ step = [w \in Writers |-> "idle"]
    /\ holding = [w \in Writers |-> Default]
    /\ opened = [w \in Writers |-> 1]
    /\ data = [f \in Files |-> Garbled]
    /\ tmpName = Missing /\ fileName = Missing
    /\ unsaved = FALSE /\ overlapped = FALSE
    /\ edits = 0 /\ troubles = 0

\* ConfigCache::load: what is not there or cannot be parsed is the default.
Loaded ==
    IF fileName = Missing \/ data[fileName] = Garbled THEN Default ELSE data[fileName]

Waits(w) == step[w] = "idle"
NoneRuns == \A w \in Writers : Waits(w)

Go(w, from, to) ==
    /\ step[w] = from
    /\ step' = [step EXCEPT ![w] = to]

-----------------------------------------------------------------------------
(* The commands.                                                            *)

Called(w, next) ==
    /\ Go(w, "idle", next)
    /\ edits < MaxEdits /\ edits' = edits + 1
    /\ overlapped' = (overlapped \/ ~NoneRuns)

\* Mutant of Edit: what is changed is not saved.
EditOnly(w, c) ==
    /\ Called(w, "idle")
    /\ settings' = c
    /\ UNCHANGED <<holding, opened, data, tmpName, fileName, kept, unsaved, troubles>>

\* A change under the write lock, after which the command goes on to persist().
Edit(w, c) ==
    /\ Called(w, "copy")
    /\ settings' = c
    /\ UNCHANGED <<holding, opened, data, tmpName, fileName, kept, unsaved, troubles>>

AddPeerTo(w, p) == Edit(w, [settings EXCEPT !.peers = @ \cup {p}])
RemovePeerFrom(w, p) == Edit(w, [settings EXCEPT !.peers = @ \ {p}])

AddSshHost(w, h) == Edit(w, [settings EXCEPT !.hosts = @ \cup {h}])
RemoveSshHost(w, h) == Edit(w, [settings EXCEPT !.hosts = @ \ {h}])

GenerateSyncKey(w, k) == Edit(w, [settings EXCEPT !.key = k])
SetSyncKey(w, k) == Edit(w, [settings EXCEPT !.key = k])

ToggleSync(w, on) == Edit(w, [settings EXCEPT !.enabled = on])

\* What an instance is set to is left out, but not that it is saved.
AddProxyInstance(w, i) ==
    i \notin settings.instances /\ Edit(w, [settings EXCEPT !.instances = @ \cup {i}])
UpdateProxyInstance(w, i) == i \in settings.instances /\ Edit(w, settings)
DeleteProxyInstance(w, i) == Edit(w, [settings EXCEPT !.instances = @ \ {i}])

\* merge_json: the patch has one of the options.
Patched(c, o) == [c EXCEPT !.option = o]

\* set_config reads all of the configuration, and lets the lock go.
SetConfig(w, o) ==
    /\ Called(w, "set")
    /\ holding' = [holding EXCEPT ![w] = Patched(settings, o)]
    /\ UNCHANGED <<settings, opened, data, tmpName, fileName, kept, unsaved, troubles>>

\* It writes all of it back, patched.
WriteBack(w) ==
    /\ Go(w, "set", "copy")
    /\ settings' = holding[w]
    /\ UNCHANGED <<holding, opened, data, tmpName, fileName, kept, unsaved, overlapped,
                   edits, troubles>>

-----------------------------------------------------------------------------
(* persist(), one system call at a time.                                    *)

CopyConfig(w) ==
    /\ Go(w, "copy", "open")
    /\ holding' = [holding EXCEPT ![w] = settings]
    /\ UNCHANGED <<settings, opened, data, tmpName, fileName, kept, unsaved,
                   overlapped, edits, troubles>>

Unused ==
    CHOOSE f \in Files :
        f \notin {tmpName, fileName} \cup {opened[w] : w \in {v \in Writers : step[v] = "fill"}}

\* Mutant of OpenSettingsTmp: the settings are written in place.
OpenFile(w) ==
    /\ Go(w, "open", "fill")
    /\ LET f == IF fileName = Missing THEN Unused ELSE fileName IN
       /\ opened' = [opened EXCEPT ![w] = f]
       /\ data' = [data EXCEPT ![f] = Garbled]
       /\ fileName' = f
    /\ UNCHANGED <<settings, holding, tmpName, kept, unsaved, overlapped, edits, troubles>>

\* fs::write creates the file, or empties the one that has its name.
OpenSettingsTmp(w) ==
    /\ Go(w, "open", "fill")
    /\ LET f == IF tmpName = Missing THEN Unused ELSE tmpName IN
       /\ opened' = [opened EXCEPT ![w] = f]
       /\ data' = [data EXCEPT ![f] = Garbled]
       /\ tmpName' = f
    /\ UNCHANGED <<settings, holding, fileName, kept, unsaved, overlapped, edits, troubles>>

\* It fills what it has opened, whatever that is called by now.  Over what another has
\* filled in the meantime it leaves the end of the longer text.
FillSettingsTmp(w) ==
    /\ Go(w, "fill", "rename")
    /\ \/ data' = [data EXCEPT ![opened[w]] = holding[w]]
       \/ /\ data[opened[w]] \notin {Garbled, holding[w]}
          /\ data' = [data EXCEPT ![opened[w]] = Garbled]
    /\ UNCHANGED <<settings, holding, opened, tmpName, fileName, kept, unsaved,
                   overlapped, edits, troubles>>

\* The rename, and the command's answer; where another has taken the file away there is
\* nothing to rename.
RenameSettingsTmp(w) ==
    /\ Go(w, "rename", "idle")
    /\ IF tmpName = Missing
       THEN unsaved' = TRUE /\ UNCHANGED <<fileName, tmpName, kept>>
       ELSE /\ fileName' = tmpName /\ tmpName' = Missing
            /\ unsaved' = FALSE
            /\ kept' = IF overlapped THEN kept ELSE settings
    /\ UNCHANGED <<settings, holding, opened, data, overlapped, edits, troubles>>

Trouble == troubles < MaxTroubles /\ troubles' = troubles + 1

\* One of the calls fails, fs::write perhaps with a part of the text written.  Some of the
\* commands report it, the others (let _ = ...) do not; the cache keeps the change.
SaveFails(w) ==
    /\ Trouble
    /\ \E from \in {"open", "fill", "rename"} : Go(w, from, "idle")
    /\ unsaved' = TRUE
    /\ UNCHANGED <<settings, holding, opened, data, tmpName, fileName, kept, overlapped, edits>>

\* The process ends and is started again: load() reads the file.
RestartProgram ==
    /\ Trouble
    /\ step' = [w \in Writers |-> "idle"]
    /\ settings' = Loaded /\ kept' = Loaded
    /\ unsaved' = FALSE /\ overlapped' = FALSE
    /\ UNCHANGED <<holding, opened, data, tmpName, fileName, edits>>

-----------------------------------------------------------------------------
Command(w) ==
    \/ \E p \in Peers : AddPeerTo(w, p) \/ RemovePeerFrom(w, p)
    \/ \E h \in Hosts : AddSshHost(w, h) \/ RemoveSshHost(w, h)
    \/ \E k \in SyncKeys : GenerateSyncKey(w, k) \/ SetSyncKey(w, k)
    \/ \E on \in BOOLEAN : ToggleSync(w, on)
    \/ \E i \in Instances :
          AddProxyInstance(w, i) \/ UpdateProxyInstance(w, i) \/ DeleteProxyInstance(w, i)
    \/ \E o \in Options : SetConfig(w, o)

PersistStep(w) ==
    CopyConfig(w) \/ OpenSettingsTmp(w) \/ FillSettingsTmp(w) \/ RenameSettingsTmp(w) \/ SaveFails(w)

SettingsNext ==
    \/ \E w \in Writers : Command(w) \/ WriteBack(w) \/ PersistStep(w)
    \/ RestartProgram

SettingsSpec == SettingsInit /\ [][SettingsNext]_settingsVars

-----------------------------------------------------------------------------
(* Properties.                                                              *)

\* Where commands do not overlap, none of them is lost: between two commands the file
\* is what is in the cache, unless the last one could not write it.
AloneIsDurable == ~overlapped /\ NoneRuns /\ ~unsaved => Loaded = settings

\* Nor does a crash in the midst of one lose more than what that one, and those before
\* it that could not write, have changed: the file is what was saved last, or what is
\* to be, and never the default for being half written.
CrashKeepsOldOrNew == ~overlapped => Loaded \in {kept, settings}

\* The cache is documented as thread-safe: when commands that ran at once have all been
\* able to save, the file is what is in the cache.
ThreadSafe == NoneRuns /\ ~unsaved => Loaded = settings
=============================================================================
