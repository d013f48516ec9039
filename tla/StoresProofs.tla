----------------------------- MODULE StoresProofs -----------------------------
(***************************************************************************)
(* What the program keeps of its configuration and of what it runs: the    *)
(* settings file where commands do not overlap, for any number of          *)
(* commands, and whatever crashes or cannot be written; and the proxy      *)
(* instances on which no command met another, for any number of instances  *)
(* and commands.                                                           *)
(***************************************************************************)
EXTENDS Settings, ProxySupervisor, FiniteSetTheorems, TLAPS

Steps == {"idle", "set", "copy", "open", "fill", "rename"}

\* What is used of the types.
StoreTypeOK ==
    /\ settings \in Configs /\ kept \in Configs
    /\ step \in [Writers -> Steps]
    /\ holding \in [Writers -> Configs]
    /\ opened \in [Writers -> Files]
    /\ data \in [Files -> Configs \cup {Garbled}]
    /\ tmpName \in Files \cup {Missing} /\ fileName \in Files \cup {Missing}
    /\ unsaved \in BOOLEAN /\ overlapped \in BOOLEAN

\* No file has both names.
NamesDiffer == tmpName = fileName => tmpName = Missing

\* One command at a time: the file is what was saved last, until the rename, and what
\* is to be renamed is what the command has set.
AloneInv ==
    /\ Loaded = kept
    /\ \A v, w \in Writers : ~Waits(v) /\ ~Waits(w) => v = w
    /\ NoneRuns /\ ~unsaved => kept = settings
    /\ \A w \in Writers :
          /\ step[w] \in {"open", "fill", "rename"} => holding[w] = settings
          /\ step[w] = "fill" => opened[w] = tmpName /\ data[tmpName] = Garbled
          /\ step[w] = "rename" => tmpName # Missing /\ data[tmpName] = settings

StoreInv == StoreTypeOK /\ NamesDiffer /\ (~overlapped => AloneInv)

-----------------------------------------------------------------------------
(* Configurations and files.                                                *)

\* Missing is no file.
LEMMA FilesAreNumbers == Files \in SUBSET Nat /\ Missing \notin Files
  BY SettingsFileAssumption, FS_CardinalityType DEF Files

\* The default is a configuration, and so is what is loaded.
LEMMA LoadedType ==
    /\ Default \in Configs
    /\ StoreTypeOK => Loaded \in Configs
  <1>1. (CHOOSE o \in Options : TRUE) \in Options
    BY SettingsAssumption
  <1>2. Default \in Configs
    BY <1>1 DEF Default, Configs, DefaultInstances
  <1>. QED BY <1>2 DEF Loaded, StoreTypeOK

\* A command that opens the temporary file finds one that nobody uses.
LEMMA UnusedIsThere ==
    ASSUME StoreTypeOK, NEW w \in Writers, step[w] = "open"
    PROVE  Unused \in Files \ {tmpName, fileName}
  <1> DEFINE Filling == {v \in Writers : step[v] = "fill"}
             Open == {opened[v] : v \in Filling}
             Names == {tmpName, fileName}
  <1>1. /\ IsFiniteSet(Writers) /\ Cardinality(Writers) \in Nat
        /\ IsFiniteSet(Writers \ {w}) /\ Cardinality(Writers \ {w}) = Cardinality(Writers) - 1
    BY SettingsFileAssumption, FS_CardinalityType, FS_RemoveElement
  <1>2. /\ IsFiniteSet(Filling) /\ Cardinality(Filling) <= Cardinality(Writers) - 1
    <2>1. Filling \in SUBSET (Writers \ {w})
      OBVIOUS
    <2>. QED BY <1>1, <2>1, FS_Subset
  <1>3. /\ IsFiniteSet(Open) /\ Cardinality(Open) <= Cardinality(Filling)
    <2>1. [v \in Filling |-> opened[v]] \in Surjection(Filling, Open)
      BY DEF Surjection
    <2>. QED BY <1>2, <2>1, FS_Surjection
  <1>4. /\ IsFiniteSet(Names) /\ Cardinality(Names) <= 2
    <2>1. /\ IsFiniteSet({tmpName}) /\ Cardinality({tmpName}) = 1
      BY FS_Singleton
    <2>2. Names = {tmpName} \cup {fileName}
      OBVIOUS
    <2>3. /\ IsFiniteSet({tmpName} \cup {fileName})
          /\ Cardinality({tmpName} \cup {fileName}) <= 2
      <3>. DEFINE One == {tmpName}
      <3>1. IsFiniteSet(One) /\ Cardinality(One) = 1
        BY <2>1
      <3>. HIDE DEF One
      <3>2. /\ IsFiniteSet(One \cup {fileName})
            /\ Cardinality(One \cup {fileName}) =
                  IF fileName \in One THEN Cardinality(One) ELSE Cardinality(One) + 1
        BY <3>1, FS_AddElement
      <3>3. IsFiniteSet(One \cup {fileName}) /\ Cardinality(One \cup {fileName}) <= 2
        BY <3>1, <3>2
      <3>. QED BY <3>3 DEF One
    <2>. QED BY <2>2, <2>3
  <1>5. /\ IsFiniteSet(Names \cup Open)
        /\ Cardinality(Names \cup Open) < Cardinality(Writers) + 2
    <2>1. /\ Cardinality(Names) \in Nat /\ Cardinality(Open) \in Nat
          /\ Cardinality(Filling) \in Nat
      BY <1>2, <1>3, <1>4, FS_CardinalityType
    <2>2. IsFiniteSet(Names \cap Open) /\ Cardinality(Names \cap Open) \in Nat
      BY <1>4, FS_Subset, FS_CardinalityType
    <2>3. /\ IsFiniteSet(Names \cup Open)
          /\ Cardinality(Names \cup Open) =
                Cardinality(Names) + Cardinality(Open) - Cardinality(Names \cap Open)
      BY <1>3, <1>4, FS_Union
    <2>. QED BY <1>1, <1>2, <1>3, <1>4, <2>1, <2>2, <2>3
  <1>6. IsFiniteSet(Files) /\ Cardinality(Files) = Cardinality(Writers) + 2
    <2>. DEFINE top == Cardinality(Writers) + 2
    <2>1. 1 \in Int /\ top \in Int /\ ~(1 > top) /\ top - 1 + 1 = top
      BY <1>1
    <2>. HIDE DEF top
    <2>2. IsFiniteSet(1 .. top) /\ Cardinality(1 .. top) = top - 1 + 1
      BY <2>1, FS_Interval
    <2>. QED BY <2>1, <2>2 DEF Files, top
  <1>7. \E f \in Files : f \notin Names \cup Open
    <2>1. SUFFICES ASSUME Files \in SUBSET (Names \cup Open) PROVE FALSE
      OBVIOUS
    <2>2. Cardinality(Files) <= Cardinality(Names \cup Open)
      BY <1>5, <2>1, FS_Subset
    <2>3. Cardinality(Names \cup Open) \in Nat
      BY <1>5, FS_CardinalityType
    <2>. QED BY <1>1, <1>5, <1>6, <2>2, <2>3
  <1>. QED BY <1>7 DEF Unused

-----------------------------------------------------------------------------
(* The steps.                                                               *)

\* Nothing is there, and the default is what is loaded.
LEMMA StoreInvInit == SettingsInit => StoreInv
  <1> SUFFICES ASSUME SettingsInit PROVE StoreInv
    OBVIOUS
  <1>1. 1 \in Files
    BY SettingsFileAssumption, FS_CardinalityType DEF Files
  <1>2. StoreTypeOK
    BY <1>1, LoadedType DEF SettingsInit, StoreTypeOK, Steps
  <1>. QED BY <1>2 DEF SettingsInit, StoreInv, NamesDiffer, AloneInv, Loaded, Waits

\* A command begins, to change the cache or to read it.
LEMMA CalledKeeps ==
    ASSUME StoreInv, NEW w \in Writers, NEW next \in {"set", "copy"}, Called(w, next),
           settings' \in Configs, holding' \in [Writers -> Configs],
           UNCHANGED <<opened, data, tmpName, fileName, kept, unsaved>>
    PROVE  StoreInv'
  <1>1. /\ step[w] = "idle" /\ step' = [step EXCEPT ![w] = next]
        /\ step \in [Writers -> Steps]
        /\ overlapped' = (overlapped \/ ~NoneRuns)
    BY DEF Called, Go, StoreInv, StoreTypeOK
  <1>2. StoreTypeOK' /\ NamesDiffer'
    BY <1>1 DEF StoreInv, StoreTypeOK, NamesDiffer, Steps
  <1>3. ASSUME ~overlapped'
        PROVE  AloneInv'
    <2>1. ~overlapped /\ NoneRuns
      BY <1>1, <1>3
    <2>2. \A v \in Writers : v # w => Waits(v)' /\ Waits(v)
      BY <1>1, <2>1 DEF NoneRuns, Waits
    <2>3. Loaded' = kept'
      BY <2>1 DEF Loaded, StoreInv, AloneInv
    <2>4. ~NoneRuns' /\ step'[w] = next
      BY <1>1 DEF NoneRuns, Waits
    <2>5. \A v \in Writers : step'[v] \in {"idle", "set", "copy"}
      BY <2>2, <2>4 DEF Waits
    <2>. QED BY <2>2, <2>3, <2>4, <2>5 DEF AloneInv
  <1>. QED BY <1>2, <1>3 DEF StoreInv

\* Each of the commands begins so.
LEMMA CommandKeeps ==
    ASSUME StoreInv, NEW w \in Writers, Command(w)
    PROVE  StoreInv'
  <1>1. settings \in Configs /\ holding \in [Writers -> Configs]
    BY DEF StoreInv, StoreTypeOK
  <1>2. ASSUME NEW c \in Configs, Edit(w, c)
        PROVE  StoreInv'
    BY <1>1, <1>2, CalledKeeps DEF Edit
  <1>3. ASSUME NEW p \in Peers, AddPeerTo(w, p) \/ RemovePeerFrom(w, p)
        PROVE  StoreInv'
    <2>1. /\ [settings EXCEPT !.peers = @ \cup {p}] \in Configs
          /\ [settings EXCEPT !.peers = @ \ {p}] \in Configs
      BY <1>1 DEF Configs
    <2>. QED BY <1>2, <1>3, <2>1 DEF AddPeerTo, RemovePeerFrom
  <1>4. ASSUME NEW h \in Hosts, AddSshHost(w, h) \/ RemoveSshHost(w, h)
        PROVE  StoreInv'
    <2>1. /\ [settings EXCEPT !.hosts = @ \cup {h}] \in Configs
          /\ [settings EXCEPT !.hosts = @ \ {h}] \in Configs
      BY <1>1 DEF Configs
    <2>. QED BY <1>2, <1>4, <2>1 DEF AddSshHost, RemoveSshHost
  <1>5. ASSUME NEW k \in SyncKeys, GenerateSyncKey(w, k) \/ SetSyncKey(w, k)
        PROVE  StoreInv'
    <2>1. [settings EXCEPT !.key = k] \in Configs
      BY <1>1 DEF Configs
    <2>. QED BY <1>2, <1>5, <2>1 DEF GenerateSyncKey, SetSyncKey
  <1>6. ASSUME NEW on \in BOOLEAN, ToggleSync(w, on)
        PROVE  StoreInv'
    <2>1. [settings EXCEPT !.enabled = on] \in Configs
      BY <1>1 DEF Configs
    <2>. QED BY <1>2, <1>6, <2>1 DEF ToggleSync
  <1>7. ASSUME NEW i \in Instances,
               AddProxyInstance(w, i) \/ UpdateProxyInstance(w, i) \/ DeleteProxyInstance(w, i)
        PROVE  StoreInv'
    <2>1. /\ [settings EXCEPT !.instances = @ \cup {i}] \in Configs
          /\ [settings EXCEPT !.instances = @ \ {i}] \in Configs
      BY <1>1 DEF Configs
    <2>. QED BY <1>1, <1>2, <1>7, <2>1
             DEF AddProxyInstance, UpdateProxyInstance, DeleteProxyInstance
  <1>8. ASSUME NEW o \in Options, SetConfig(w, o)
        PROVE  StoreInv'
    <2>1. Patched(settings, o) \in Configs
      BY <1>1 DEF Configs, Patched
    <2>2. holding' \in [Writers -> Configs]
      BY <1>1, <1>8, <2>1 DEF SetConfig
    <2>. QED BY <1>1, <1>8, <2>2, CalledKeeps DEF SetConfig
  <1>. QED BY <1>3, <1>4, <1>5, <1>6, <1>7, <1>8 DEF Command

\* A running command goes on, and nobody else is one of those that do not overlap.
LEMMA GoStep ==
    ASSUME StoreInv, NEW w \in Writers, NEW from \in Steps \ {"idle"}, NEW to \in Steps,
           Go(w, from, to)
    PROVE  /\ step \in [Writers -> Steps] /\ step' \in [Writers -> Steps]
           /\ step[w] = from /\ step'[w] = to
           /\ \A v \in Writers : v # w => step'[v] = step[v]
           /\ ~overlapped => \A v \in Writers : v # w => step[v] = "idle"
           /\ ~NoneRuns /\ (to # "idle" => ~NoneRuns')
  <1>1. /\ step \in [Writers -> Steps] /\ step[w] = from
        /\ step' = [step EXCEPT ![w] = to]
    BY DEF StoreInv, StoreTypeOK, Go
  <1>2. /\ step' \in [Writers -> Steps] /\ step'[w] = to
        /\ \A v \in Writers : v # w => step'[v] = step[v]
    BY <1>1
  <1>3. ~overlapped => \A v \in Writers : v # w => step[v] = "idle"
    BY <1>1 DEF StoreInv, AloneInv, Waits
  <1>. QED BY <1>1, <1>2, <1>3 DEF NoneRuns, Waits

\* set_config writes back what it has patched.
LEMMA WriteBackKeeps ==
    ASSUME StoreInv, NEW w \in Writers, WriteBack(w)
    PROVE  StoreInv'
  <1>1. /\ step' \in [Writers -> Steps] /\ step'[w] = "copy"
        /\ \A v \in Writers : v # w => step'[v] = step[v]
        /\ ~overlapped => \A v \in Writers : v # w => step[v] = "idle"
        /\ ~NoneRuns'
    BY GoStep DEF WriteBack, Steps
  <1>2. /\ settings' = holding[w] /\ settings' \in Configs
        /\ UNCHANGED <<holding, opened, data, tmpName, fileName, kept, unsaved, overlapped>>
    BY DEF WriteBack, StoreInv, StoreTypeOK
  <1>3. StoreTypeOK' /\ NamesDiffer'
    BY <1>1, <1>2 DEF StoreInv, StoreTypeOK, NamesDiffer
  <1>4. ASSUME ~overlapped
        PROVE  AloneInv'
    <2>1. Loaded' = kept'
      BY <1>2, <1>4 DEF Loaded, StoreInv, AloneInv
    <2>. QED BY <1>1, <1>4, <2>1 DEF AloneInv, Waits
  <1>. QED BY <1>2, <1>3, <1>4 DEF StoreInv

\* persist() copies the configuration.
LEMMA CopyConfigKeeps ==
    ASSUME StoreInv, NEW w \in Writers, CopyConfig(w)
    PROVE  StoreInv'
  <1>1. /\ step' \in [Writers -> Steps] /\ step'[w] = "open"
        /\ \A v \in Writers : v # w => step'[v] = step[v]
        /\ ~overlapped => \A v \in Writers : v # w => step[v] = "idle"
        /\ ~NoneRuns'
    BY GoStep DEF CopyConfig, Steps
  <1>2. /\ holding' \in [Writers -> Configs] /\ holding'[w] = settings
        /\ UNCHANGED <<settings, opened, data, tmpName, fileName, kept, unsaved, overlapped>>
    BY DEF CopyConfig, StoreInv, StoreTypeOK
  <1>3. StoreTypeOK' /\ NamesDiffer'
    BY <1>1, <1>2 DEF StoreInv, StoreTypeOK, NamesDiffer
  <1>4. ASSUME ~overlapped
        PROVE  AloneInv'
    <2>1. Loaded' = kept'
      BY <1>2, <1>4 DEF Loaded, StoreInv, AloneInv
    <2>. QED BY <1>1, <1>2, <1>4, <2>1 DEF AloneInv, Waits
  <1>. QED BY <1>2, <1>3, <1>4 DEF StoreInv

\* The temporary file is opened, which is never the settings.
LEMMA OpenKeeps ==
    ASSUME StoreInv, NEW w \in Writers, OpenSettingsTmp(w)
    PROVE  StoreInv'
  <1> DEFINE f == IF tmpName = Missing THEN Unused ELSE tmpName
  <1>1. /\ step' \in [Writers -> Steps] /\ step'[w] = "fill" /\ step[w] = "open"
        /\ \A v \in Writers : v # w => step'[v] = step[v]
        /\ ~overlapped => \A v \in Writers : v # w => step[v] = "idle"
        /\ ~NoneRuns'
    BY GoStep DEF OpenSettingsTmp, Steps
  <1>2. f \in Files /\ f # fileName /\ f # Missing
    BY <1>1, UnusedIsThere, FilesAreNumbers DEF StoreInv, StoreTypeOK, NamesDiffer
  <1>3. /\ opened' = [opened EXCEPT ![w] = f]
        /\ data' = [data EXCEPT ![f] = Garbled]
        /\ tmpName' = f
        /\ UNCHANGED <<settings, holding, fileName, kept, unsaved, overlapped>>
    BY DEF OpenSettingsTmp
  <1> HIDE DEF f
  <1>4. StoreTypeOK' /\ NamesDiffer'
    BY <1>1, <1>2, <1>3 DEF StoreInv, StoreTypeOK, NamesDiffer
  <1>5. ASSUME ~overlapped
        PROVE  AloneInv'
    <2>1. Loaded' = Loaded
      BY <1>2, <1>3 DEF Loaded, StoreInv, StoreTypeOK
    <2>2. opened'[w] = tmpName' /\ data'[tmpName'] = Garbled
      BY <1>2, <1>3 DEF StoreInv, StoreTypeOK
    <2>3. Loaded' = kept' /\ holding'[w] = settings'
      BY <1>1, <1>3, <1>5, <2>1 DEF StoreInv, AloneInv
    <2>. QED BY <1>1, <1>5, <2>2, <2>3 DEF AloneInv, Waits
  <1>. QED BY <1>3, <1>4, <1>5 DEF StoreInv

\* It is filled: of one command's text, or what two have left of theirs.
LEMMA FillKeeps ==
    ASSUME StoreInv, NEW w \in Writers, FillSettingsTmp(w)
    PROVE  StoreInv'
  <1>1. /\ step' \in [Writers -> Steps] /\ step'[w] = "rename" /\ step[w] = "fill"
        /\ \A v \in Writers : v # w => step'[v] = step[v]
        /\ ~overlapped => \A v \in Writers : v # w => step[v] = "idle"
        /\ ~NoneRuns'
    BY GoStep DEF FillSettingsTmp, Steps
  <1>2. PICK c \in Configs \cup {Garbled} :
           /\ data' = [data EXCEPT ![opened[w]] = c]
           /\ c = holding[w] \/ data[opened[w]] # Garbled
    BY DEF FillSettingsTmp, StoreInv, StoreTypeOK
  <1>3. /\ opened[w] \in Files
        /\ UNCHANGED <<settings, holding, opened, tmpName, fileName, kept, unsaved, overlapped>>
    BY DEF FillSettingsTmp, StoreInv, StoreTypeOK
  <1>4. StoreTypeOK' /\ NamesDiffer'
    BY <1>1, <1>2, <1>3 DEF StoreInv, StoreTypeOK, NamesDiffer
  <1>5. ASSUME ~overlapped
        PROVE  AloneInv'
    <2>1. /\ opened[w] = tmpName /\ data[tmpName] = Garbled /\ holding[w] = settings
          /\ Loaded = kept
      BY <1>1, <1>5 DEF StoreInv, AloneInv
    <2>2. tmpName # Missing /\ tmpName # fileName
      BY <1>3, <2>1, FilesAreNumbers DEF StoreInv, NamesDiffer
    <2>3. data'[tmpName'] = settings'
      BY <1>2, <1>3, <2>1 DEF StoreInv, StoreTypeOK
    <2>4. Loaded' = kept'
      BY <1>2, <1>3, <2>1, <2>2 DEF Loaded, StoreInv, StoreTypeOK
    <2>5. \A v \in Writers : v # w => step'[v] = "idle"
      BY <1>1, <1>5
    <2>6. holding'[w] = settings' /\ tmpName' # Missing
      BY <1>3, <2>1, <2>2
    <2>. QED BY <1>1, <2>3, <2>4, <2>5, <2>6 DEF AloneInv, Waits
  <1>. QED BY <1>3, <1>4, <1>5 DEF StoreInv

\* The rename makes it the settings, or finds nothing.
LEMMA RenameKeeps ==
    ASSUME StoreInv, NEW w \in Writers, RenameSettingsTmp(w)
    PROVE  StoreInv'
  <1>1. /\ step' \in [Writers -> Steps] /\ step'[w] = "idle" /\ step[w] = "rename"
        /\ \A v \in Writers : v # w => step'[v] = step[v]
        /\ ~overlapped => \A v \in Writers : v # w => step[v] = "idle"
    BY GoStep DEF RenameSettingsTmp, Steps
  <1>2. UNCHANGED <<settings, holding, opened, data, overlapped>>
    BY DEF RenameSettingsTmp
  <1>3. /\ unsaved' \in BOOLEAN /\ kept' \in Configs
        /\ tmpName' \in Files \cup {Missing} /\ fileName' \in Files \cup {Missing}
    BY DEF RenameSettingsTmp, StoreInv, StoreTypeOK
  <1>4. StoreTypeOK' /\ NamesDiffer'
    BY <1>1, <1>2, <1>3 DEF RenameSettingsTmp, StoreInv, StoreTypeOK, NamesDiffer
  <1>5. ASSUME ~overlapped
        PROVE  AloneInv'
    <2>1. tmpName # Missing /\ data[tmpName] = settings
      BY <1>1, <1>5 DEF StoreInv, AloneInv
    <2>2. fileName' = tmpName /\ kept' = settings
      BY <1>5, <2>1 DEF RenameSettingsTmp
    <2>3. settings # Garbled
      BY SettingsFileAssumption DEF StoreInv, StoreTypeOK
    <2>4. Loaded' = kept' /\ kept' = settings'
      BY <1>2, <2>1, <2>2, <2>3 DEF Loaded
    <2>. QED BY <1>1, <1>5, <2>4 DEF AloneInv, Waits
  <1>. QED BY <1>2, <1>4, <1>5 DEF StoreInv

\* A command that cannot write leaves the file as it was.
LEMMA SaveFailsKeeps ==
    ASSUME StoreInv, NEW w \in Writers, SaveFails(w)
    PROVE  StoreInv'
  <1>1. PICK from \in {"open", "fill", "rename"} : Go(w, from, "idle")
    BY DEF SaveFails
  <1>2. /\ step' \in [Writers -> Steps] /\ step'[w] = "idle"
        /\ \A v \in Writers : v # w => step'[v] = step[v]
        /\ ~overlapped => \A v \in Writers : v # w => step[v] = "idle"
    BY <1>1, GoStep DEF Steps
  <1>3. /\ UNCHANGED <<settings, holding, opened, data, tmpName, fileName, kept, overlapped>>
        /\ unsaved' = TRUE
    BY DEF SaveFails
  <1>4. StoreTypeOK' /\ NamesDiffer'
    BY <1>2, <1>3 DEF StoreInv, StoreTypeOK, NamesDiffer
  <1>5. ASSUME ~overlapped
        PROVE  AloneInv'
    <2>1. Loaded' = kept'
      BY <1>3, <1>5 DEF Loaded, StoreInv, AloneInv
    <2>. QED BY <1>2, <1>3, <1>5, <2>1 DEF AloneInv, Waits
  <1>. QED BY <1>3, <1>4, <1>5 DEF StoreInv

\* A program that starts has what it has loaded.
LEMMA RestartKeeps ==
    ASSUME StoreInv, RestartProgram
    PROVE  StoreInv'
  <1>1. /\ step' = [w \in Writers |-> "idle"]
        /\ settings' = Loaded /\ kept' = Loaded /\ Loaded \in Configs
        /\ unsaved' = FALSE /\ overlapped' = FALSE
        /\ UNCHANGED <<holding, opened, data, tmpName, fileName>>
    BY LoadedType DEF RestartProgram, StoreInv
  <1>2. StoreTypeOK' /\ NamesDiffer'
    BY <1>1 DEF StoreInv, StoreTypeOK, NamesDiffer, Steps
  <1>3. AloneInv'
    <2>1. Loaded' = Loaded
      BY <1>1 DEF Loaded
    <2>. QED BY <1>1, <2>1 DEF AloneInv, Waits
  <1>. QED BY <1>2, <1>3 DEF StoreInv

\* Every step keeps the invariant.
LEMMA StoreStepKeeps ==
    ASSUME StoreInv, [SettingsNext]_settingsVars
    PROVE  StoreInv'
  <1>1. CASE UNCHANGED settingsVars
    BY <1>1 DEF settingsVars, StoreInv, StoreTypeOK, NamesDiffer, AloneInv, Loaded, Waits, NoneRuns
  <1>2. ASSUME NEW w \in Writers, PersistStep(w)
        PROVE  StoreInv'
    BY <1>2, CopyConfigKeeps, OpenKeeps, FillKeeps, RenameKeeps, SaveFailsKeeps DEF PersistStep
  <1>. QED BY <1>1, <1>2, CommandKeeps, WriteBackKeeps, RestartKeeps DEF SettingsNext

-----------------------------------------------------------------------------
\* Commands that do not overlap lose nothing between them (ConfigCache::persist), for any
\* number of them, and whatever cannot be written in the meantime.
THEOREM CommandsAloneAreKept == SettingsSpec => []AloneIsDurable
  <1>1. StoreInv => AloneIsDurable
    BY DEF StoreInv, AloneInv, AloneIsDurable
  <1>2. StoreInv /\ [SettingsNext]_settingsVars => StoreInv'
    BY StoreStepKeeps
  <1>. QED BY StoreInvInit, <1>1, <1>2, PTL DEF SettingsSpec

\* And wherever a crash leaves the program, the file is what was saved last.
THEOREM SettingsSurviveCrash == SettingsSpec => []CrashKeepsOldOrNew
  <1>1. StoreInv => CrashKeepsOldOrNew
    BY DEF StoreInv, AloneInv, CrashKeepsOldOrNew
  <1>2. StoreInv /\ [SettingsNext]_settingsVars => StoreInv'
    BY StoreStepKeeps
  <1>. QED BY StoreInvInit, <1>1, <1>2, PTL DEF SettingsSpec
-----------------------------------------------------------------------------
(* Proxy instances: where objects, handles and runs belong.                 *)

\* The types, with what is stored where: a handle is that of a run on its object, and a
\* start about to store its run knows the object it started it for.
HandleInv ==
    /\ \A o \in Runtimes :
           /\ task[o] # None => task[o] \in DOMAIN runs /\ runs[task[o]].rt = o
                                /\ runs[task[o]].kind = "task"
           /\ child[o] # None => child[o] \in DOMAIN runs /\ runs[child[o]].rt = o
                                 /\ runs[child[o]].kind = "child"
    /\ \A r \in DOMAIN runs : runs[r].kind = "task" => runs[r].at # "starting"
    /\ \A r \in DOMAIN runs :
           runs[r].kind = "child" => runs[r].at \in {"starting", "serving", "gone"}
    /\ \A c \in Commands : job[c] # Idle /\ job[c].at = "store" =>
           /\ job[c].run \in DOMAIN runs /\ runs[job[c].run].rt = job[c].rt
           /\ runs[job[c].run].of = job[c].id

\* An object is made for one instance, and whatever runs on it belongs to that one.
OwnInv(own) ==
    /\ \A i \in Ids : entry[i] # None => entry[i] <= objects /\ own[entry[i]] = i
    /\ \A r \in DOMAIN runs : runs[r].rt <= objects /\ own[runs[r].rt] = runs[r].of
    /\ \A c \in Commands : job[c] # Idle /\ job[c].rt # None =>
           job[c].rt <= objects /\ own[job[c].rt] = job[c].id

SlotInv ==
    /\ SupervisorTypeOK /\ HandleInv
    /\ \E own \in [Runtimes -> Ids] : OwnInv(own)

\* What a command does to its job.
Moves(c, at) ==
    /\ job' \in [Commands -> Job \cup {Idle}]
    /\ job'[c] \in Job /\ job'[c] # Idle /\ job'[c].id = job[c].id /\ job'[c].op = job[c].op
    /\ job'[c].at = at
    /\ \A d \in Commands \ {c} : job'[d] = job[d]

Ends(c) ==
    /\ job' \in [Commands -> Job \cup {Idle}]
    /\ job'[c] = Idle
    /\ \A d \in Commands \ {c} : job'[d] = job[d]

\* A command that is done leaves the others.
LEMMA DoneEnds ==
    ASSUME NEW c \in Commands, SupervisorTypeOK, Done(c)
    PROVE  Ends(c)
  BY DEF Done, Ends, SupervisorTypeOK

\* A job is still of its command and instance.
SameCommand(j, k) == k.op = j.op /\ k.id = j.id

\* A command whose job goes on moves to the step of the job.
LEMMA JobMoves ==
    ASSUME NEW c \in Commands, NEW j \in Job, job \in [Commands -> Job \cup {Idle}],
           job' = [job EXCEPT ![c] = j], SameCommand(job[c], j), NEW at, j.at = at
    PROVE  Moves(c, at) /\ job'[c] = j
  BY SupervisorIdleAssumption DEF Moves, SameCommand

\* A start looks: it is done, or goes on with the object of the instance, not shown as running.
LEMMA LookDoes ==
    ASSUME NEW c \in Commands, SlotInv, Look(c)
    PROVE  /\ Doing(c, "look") /\ job[c] \in Job
           /\ UNCHANGED <<program, config, entry, status, task, child, runs, others, objects,
                          crossed, begun, flips>>
           /\ \/ Ends(c)
              \/ /\ Moves(c, "launch") /\ job'[c].rt = entry[job[c].id] /\ entry[job[c].id] # None
                 /\ job'[c].cfg = config[job[c].id] /\ config[job[c].id] # NoConfig
                 /\ ~status[entry[job[c].id]].running
  <1>. DEFINE i == job[c].id
  <1>1. job[c] \in Job /\ i \in Ids /\ job \in [Commands -> Job \cup {Idle}]
    BY DEF SlotInv, SupervisorTypeOK, Look, Doing, Job
  <1>2. CASE Done(c)
    BY <1>1, <1>2, DoneEnds DEF Look, CommandOnly, slotVars, SlotInv
  <1>3. CASE ~Done(c)
    <2>1. job' = [job EXCEPT ![c].at = "launch", ![c].rt = entry[i], ![c].cfg = config[i]]
      BY <1>3 DEF Look
    <2>2. job' = [job EXCEPT ![c] = [[[job[c] EXCEPT !.at = "launch"] EXCEPT !.rt = entry[i]] EXCEPT !.cfg = config[i]]]
      BY <2>1, <1>1
    <2>3. entry[i] \in Runtimes \cup {None} /\ config[i] \in Config \cup {NoConfig}
      BY <1>1 DEF SlotInv, SupervisorTypeOK
    <2>. DEFINE j1 == [job[c] EXCEPT !.at = "launch"]
                j2 == [j1 EXCEPT !.rt = entry[i]]
                j3 == [j2 EXCEPT !.cfg = config[i]]
    <2>4. j1 \in Job /\ SameCommand(job[c], j1) /\ j1.at = "launch"
      BY <1>1 DEF Job, SameCommand
    <2>5. j2 \in Job /\ SameCommand(j1, j2) /\ j2.at = j1.at /\ j2.rt = entry[i]
      <3>. HIDE DEF j1
      <3>. QED BY <2>3, <2>4 DEF Job, SameCommand
    <2>6. j3 \in Job /\ SameCommand(j2, j3) /\ j3.at = j2.at /\ j3.rt = j2.rt /\ j3.cfg = config[i]
      <3>. HIDE DEF j2
      <3>. QED BY <2>3, <2>5 DEF Job, SameCommand
    <2>7. job' = [job EXCEPT ![c] = j3]
      BY <2>2
    <2>. HIDE DEF j1, j2, j3
    <2>8. SameCommand(job[c], j3)
      BY <2>4, <2>5, <2>6 DEF SameCommand
    <2>9. Moves(c, "launch") /\ job'[c] = j3
      <3>1. j3 \in Job /\ j3.at = "launch"
        BY <2>4, <2>5, <2>6
      <3>. QED BY <1>1, <2>7, <2>8, <3>1, JobMoves
    <2>10. job'[c].rt = entry[i] /\ job'[c].cfg = config[i]
      BY <2>5, <2>6, <2>9
    <2>. QED BY <1>1, <1>3, <2>9, <2>10 DEF Look, CommandOnly, slotVars
  <1>. QED BY <1>2, <1>3

\* The number of runs is what they are numbered by.
LEMMA NextRun ==
    ASSUME SupervisorTypeOK
    PROVE  \E n \in Nat : DOMAIN runs = 1 .. n /\ Cardinality(DOMAIN runs) = n
  <1>1. DOMAIN runs = 1 .. Cardinality(DOMAIN runs) /\ DOMAIN runs \subseteq 1 .. MaxRuns
    BY DEF SupervisorTypeOK, Runs
  <1>2. MaxRuns \in Nat
    BY SupervisorBoundsAssumption
  <1>3. IsFiniteSet(1 .. MaxRuns)
    BY <1>2, FS_Interval
  <1>4. IsFiniteSet(DOMAIN runs)
    BY <1>1, <1>3, FS_Subset
  <1>5. Cardinality(DOMAIN runs) \in Nat
    BY <1>4, FS_CardinalityType
  <1>. QED BY <1>1, <1>5

\* A new run is one that was not there, of the instance and on the object of the command.
Launched(c, kind, at) ==
    /\ Moves(c, "store") /\ job'[c].rt = job[c].rt /\ job'[c].cfg = job[c].cfg
    /\ \E r \in Runs :
          /\ r \notin DOMAIN runs /\ DOMAIN runs' = DOMAIN runs \cup {r}
          /\ DOMAIN runs' = 1 .. Cardinality(DOMAIN runs')
          /\ job'[c].run = r
          /\ \A s \in DOMAIN runs : runs'[s] = runs[s]
          /\ runs'[r] \in Run
          /\ runs'[r].kind = kind /\ runs'[r].of = job[c].id /\ runs'[r].rt = job[c].rt
          /\ runs'[r].port = job[c].cfg.port /\ ~runs'[r].aborted /\ runs'[r].at = at

\* What is started is new, and of the instance and on the object of its command.
LEMMA NewRunDoes ==
    ASSUME NEW c \in Commands, NEW kind \in {"task", "child"}, NEW at \in {"queued", "starting"},
           SlotInv, Doing(c, "launch"), NewRun(c, kind, at)
    PROVE  Launched(c, kind, at)
  <1>. DEFINE r == Cardinality(DOMAIN runs) + 1
  <1>1. PICK n \in Nat : DOMAIN runs = 1 .. n /\ Cardinality(DOMAIN runs) = n
    BY NextRun DEF SlotInv
  <1>2. /\ job[c] \in Job /\ job \in [Commands -> Job \cup {Idle}]
        /\ job[c].rt # None /\ job[c].cfg # NoConfig
    BY DEF SlotInv, SupervisorTypeOK, Doing
  <1>3. job' = [job EXCEPT ![c] = [[job[c] EXCEPT !.at = "store"] EXCEPT !.run = r]]
    BY <1>2 DEF NewRun
  <1>4. r \in Runs /\ r = n + 1
    BY <1>1 DEF NewRun
  <1>5. Moves(c, "store") /\ job'[c].rt = job[c].rt /\ job'[c].cfg = job[c].cfg /\ job'[c].run = r
    <2>. DEFINE j1 == [job[c] EXCEPT !.at = "store"]
                j2 == [j1 EXCEPT !.run = r]
    <2>. HIDE DEF r
    <2>1. /\ j1 \in Job /\ SameCommand(job[c], j1) /\ j1.at = "store"
          /\ j1.rt = job[c].rt /\ j1.cfg = job[c].cfg
      BY <1>2 DEF Job, SameCommand
    <2>2. /\ j2 \in Job /\ SameCommand(j1, j2) /\ j2.at = j1.at
          /\ j2.rt = j1.rt /\ j2.cfg = j1.cfg /\ j2.run = r
      <3>. HIDE DEF j1
      <3>. QED BY <1>4, <2>1 DEF Job, SameCommand
    <2>3. job' = [job EXCEPT ![c] = j2]
      BY <1>3
    <2>. HIDE DEF j1, j2
    <2>4. SameCommand(job[c], j2)
      BY <2>1, <2>2 DEF SameCommand
    <2>5. Moves(c, "store") /\ job'[c] = j2
      BY <1>2, <2>1, <2>2, <2>3, <2>4, JobMoves
    <2>. QED BY <2>1, <2>2, <2>5
  <1>6. runs' = [s \in 1 .. r |-> IF s < r THEN runs[s]
                  ELSE [kind |-> kind, of |-> job[c].id, rt |-> job[c].rt,
                        port |-> job[c].cfg.port, aborted |-> FALSE, at |-> at]]
    BY DEF NewRun
  <1>7. DOMAIN runs' = 1 .. (n + 1) /\ \A s \in 1 .. n : runs'[s] = runs[s]
    BY <1>1, <1>4, <1>6
  <1>8. Cardinality(1 .. (n + 1)) = n + 1
    BY <1>1, FS_Interval
  <1>9. /\ runs'[r] = [kind |-> kind, of |-> job[c].id, rt |-> job[c].rt,
                       port |-> job[c].cfg.port, aborted |-> FALSE, at |-> at]
    BY <1>1, <1>4, <1>6
  <1>10. runs'[r] \in Run
    BY <1>2, <1>9 DEF Run, Job, Config
  <1>. HIDE DEF r
  <1>. QED BY <1>1, <1>4, <1>5, <1>7, <1>8, <1>9, <1>10 DEF Launched

Quiet(c, at) ==
    /\ Doing(c, at) /\ job[c] \in Job
    /\ UNCHANGED <<program, others, crossed, begun, flips>>

\* A handle is stored with the object that the run is on.
LEMMA StoreDoes ==
    ASSUME NEW c \in Commands, SlotInv, Store(c)
    PROVE  /\ Quiet(c, "store") /\ Ends(c)
           /\ UNCHANGED <<config, entry, status, runs, objects>>
           /\ \/ /\ runs[job[c].run].kind = "task" /\ child' = child
                 /\ task' = [task EXCEPT ![job[c].rt] = job[c].run]
              \/ /\ runs[job[c].run].kind = "child" /\ task' = task
                 /\ child' = [child EXCEPT ![job[c].rt] = job[c].run]
  <1>1. job[c] \in Job
    BY DEF SlotInv, SupervisorTypeOK, Store, Doing
  <1>2. job[c].run \in DOMAIN runs
    BY DEF SlotInv, HandleInv, Store, Doing
  <1>3. runs[job[c].run].kind \in {"task", "child"}
    BY <1>2 DEF SlotInv, SupervisorTypeOK, Run
  <1>. QED BY <1>1, <1>3, DoneEnds DEF Store, CommandOnly, Quiet, SlotInv

\* A stop marks its object, and a restart goes on as a start.
LEMMA MarkDoes ==
    ASSUME NEW c \in Commands, SlotInv, Mark(c)
    PROVE  /\ Quiet(c, "mark")
           /\ UNCHANGED <<config, entry, task, child, runs, objects>>
           /\ job[c].rt \in Runtimes
           /\ status' = [status EXCEPT ![job[c].rt].running = FALSE]
           /\ Ends(c) \/ (Moves(c, "look") /\ job'[c].rt = job[c].rt)
  <1>1. job[c] \in Job /\ job[c].rt \in Runtimes /\ job \in [Commands -> Job \cup {Idle}]
    BY DEF SlotInv, SupervisorTypeOK, Mark, Doing, Job
  <1>2. Ends(c) \/ (Moves(c, "look") /\ job'[c].rt = job[c].rt)
    BY <1>1, DoneEnds, SupervisorIdleAssumption DEF Mark, Moves, Job, SlotInv
  <1>. QED BY <1>1, <1>2 DEF Mark, CommandOnly, slotVars, Quiet

\* What is killed on an object is over, or told to end.
Kills(o) ==
    /\ task' = [task EXCEPT ![o] = None] /\ child' = [child EXCEPT ![o] = None]
    /\ DOMAIN runs' = DOMAIN runs
    /\ \A r \in DOMAIN runs :
          /\ r = child[o] => runs'[r] = [runs[r] EXCEPT !.at = "gone"]
          /\ r # child[o] /\ r = task[o] => runs'[r] = [runs[r] EXCEPT !.aborted = TRUE]
          /\ r # child[o] /\ r # task[o] => runs'[r] = runs[r]

\* A stop kills what the object of its instance holds, if there is one.
LEMMA KillDoes ==
    ASSUME NEW c \in Commands, SlotInv, Kill(c)
    PROVE  /\ Quiet(c, "kill")
           /\ UNCHANGED <<config, entry, status, objects>>
           /\ \/ /\ Ends(c) /\ UNCHANGED <<runs, task, child>>
              \/ /\ entry[job[c].id] \in Runtimes /\ Kills(entry[job[c].id])
                 /\ Moves(c, "mark") /\ job'[c].rt = entry[job[c].id]
  <1>1. /\ job[c] \in Job /\ job[c].id \in Ids /\ entry[job[c].id] \in Runtimes \cup {None}
        /\ job \in [Commands -> Job \cup {Idle}]
    BY DEF SlotInv, SupervisorTypeOK, Kill, Doing, Job
  <1>2. CASE entry[job[c].id] = None
    BY <1>1, <1>2, DoneEnds DEF Kill, CommandOnly, slotVars, Quiet, SlotInv
  <1>3. CASE entry[job[c].id] # None
    <2>. DEFINE o == entry[job[c].id]
    <2>1. job' = [job EXCEPT ![c] = [[job[c] EXCEPT !.at = "mark"] EXCEPT !.rt = o]]
      BY <1>1, <1>3 DEF Kill
    <2>2. KillRuns(o)
      BY <1>3 DEF Kill
    <2>3. Kills(o)
      BY <2>2 DEF Kills, KillRuns
    <2>. HIDE DEF o
    <2>4. Moves(c, "mark") /\ job'[c].rt = o
      <3>. DEFINE j1 == [job[c] EXCEPT !.at = "mark"]
                  j2 == [j1 EXCEPT !.rt = o]
      <3>1. j1 \in Job /\ SameCommand(job[c], j1) /\ j1.at = "mark"
        BY <1>1 DEF Job, SameCommand
      <3>2. j2 \in Job /\ SameCommand(j1, j2) /\ j2.at = j1.at /\ j2.rt = o
        <4>1. o \in Runtimes \cup {None}
          BY <1>1 DEF o
        <4>. HIDE DEF j1
        <4>. QED BY <3>1, <4>1 DEF Job, SameCommand
      <3>3. job' = [job EXCEPT ![c] = j2]
        BY <2>1
      <3>. HIDE DEF j1, j2
      <3>4. SameCommand(job[c], j2)
        BY <3>1, <3>2 DEF SameCommand
      <3>. QED BY <1>1, <3>1, <3>2, <3>3, <3>4, JobMoves
    <2>. QED BY <1>1, <1>3, <2>3, <2>4 DEF Kill, CommandOnly, Quiet, o
  <1>. QED BY <1>2, <1>3

\* A deletion kills likewise, and goes on to remove the object.
LEMMA KillForDeleteDoes ==
    ASSUME NEW c \in Commands, SlotInv, KillForDelete(c)
    PROVE  /\ Quiet(c, "kill")
           /\ UNCHANGED <<config, entry, status, objects>>
           /\ Moves(c, "remove") /\ job'[c].rt = job[c].rt
           /\ \/ entry[job[c].id] = None /\ UNCHANGED <<runs, task, child>>
              \/ entry[job[c].id] \in Runtimes /\ Kills(entry[job[c].id])
  <1>1. /\ job[c] \in Job /\ job[c].id \in Ids /\ entry[job[c].id] \in Runtimes \cup {None}
        /\ job \in [Commands -> Job \cup {Idle}]
    BY DEF SlotInv, SupervisorTypeOK, KillForDelete, Doing, Job
  <1>2. Moves(c, "remove") /\ job'[c].rt = job[c].rt
    BY <1>1, SupervisorIdleAssumption DEF KillForDelete, Moves, Job
  <1>3. \/ entry[job[c].id] = None /\ UNCHANGED <<runs, task, child>>
        \/ entry[job[c].id] \in Runtimes /\ Kills(entry[job[c].id])
    BY <1>1 DEF KillForDelete, KillRuns, Kills, slotVars
  <1>. QED BY <1>1, <1>2, <1>3 DEF KillForDelete, CommandOnly, Quiet

\* The instance has no object any more.
LEMMA RemoveDoes ==
    ASSUME NEW c \in Commands, SlotInv, Remove(c)
    PROVE  /\ Quiet(c, "remove") /\ Moves(c, "forget") /\ job'[c].rt = job[c].rt
           /\ entry' = [entry EXCEPT ![job[c].id] = None]
           /\ UNCHANGED <<config, status, task, child, runs, objects>>
  <1>1. job[c] \in Job /\ job \in [Commands -> Job \cup {Idle}]
    BY DEF SlotInv, SupervisorTypeOK, Remove, Doing
  <1>. QED BY <1>1, SupervisorIdleAssumption DEF Remove, Moves, Job, CommandOnly, slotVars, Quiet

\* The instance is not configured any more.
LEMMA ForgetDoes ==
    ASSUME NEW c \in Commands, SlotInv, Forget(c)
    PROVE  /\ Quiet(c, "forget") /\ Ends(c)
           /\ config' = [config EXCEPT ![job[c].id] = NoConfig]
           /\ UNCHANGED <<entry, status, task, child, runs, objects>>
  <1>1. job[c] \in Job
    BY DEF SlotInv, SupervisorTypeOK, Forget, Doing
  <1>. QED BY <1>1, DoneEnds DEF Forget, CommandOnly, slotVars, Quiet, SlotInv

\* A binary that cannot be run leaves everything as it is.
LEMMA LaunchFailsDoes ==
    ASSUME NEW c \in Commands, SlotInv, LaunchFails(c)
    PROVE  /\ Quiet(c, "launch") /\ Ends(c)
           /\ UNCHANGED <<config, entry, status, task, child, runs, objects>>
  <1>1. job[c] \in Job
    BY DEF SlotInv, SupervisorTypeOK, LaunchFails, Doing
  <1>. QED BY <1>1, DoneEnds DEF LaunchFails, CommandOnly, slotVars, Quiet, SlotInv

\* An instance that could not be saved gets no object.
LEMMA NotSavedDoes ==
    ASSUME NEW c \in Commands, SlotInv, NotSaved(c)
    PROVE  /\ Quiet(c, "enter") /\ Ends(c)
           /\ UNCHANGED <<config, entry, status, task, child, runs, objects>>
  <1>1. job[c] \in Job
    BY DEF SlotInv, SupervisorTypeOK, NotSaved, Doing
  <1>. QED BY <1>1, DoneEnds DEF NotSaved, CommandOnly, slotVars, Quiet, SlotInv

\* A new instance gets a new object.
LEMMA EnterDoes ==
    ASSUME NEW c \in Commands, SlotInv, EnterInstance(c)
    PROVE  /\ Quiet(c, "enter") /\ Ends(c) /\ job[c].cfg \in Config
           /\ objects + 1 \in Runtimes /\ objects' = objects + 1
           /\ entry' = [entry EXCEPT ![job[c].id] = objects + 1]
           /\ \E s \in Status : status' = [status EXCEPT ![objects + 1] = s]
           /\ UNCHANGED <<config, task, child, runs>>
  <1>1. job[c] \in Job /\ job[c].cfg \in Config
    BY DEF SlotInv, SupervisorTypeOK, EnterInstance, Doing, Job
  <1>2. objects + 1 \in Runtimes
    BY SupervisorBoundsAssumption DEF SlotInv, SupervisorTypeOK, EnterInstance, Runtimes
  <1>3. [running |-> FALSE, port |-> job[c].cfg.port, backend |-> FALSE] \in Status
    BY <1>1 DEF Status, Config
  <1>. QED BY <1>1, <1>2, <1>3, DoneEnds DEF EnterInstance, CommandOnly, slotVars, Quiet, SlotInv

\* A probe goes on only where no handle is held.
LEMMA AskDoes ==
    ASSUME NEW c \in Commands, SlotInv, Ask(c)
    PROVE  /\ Quiet(c, "ask")
           /\ UNCHANGED <<config, entry, status, task, child, runs, objects>>
           /\ \/ Ends(c)
              \/ /\ Moves(c, "write") /\ job'[c].rt = job[c].rt /\ job'[c].cfg = job[c].cfg
                 /\ entry[job[c].id] # None =>
                       task[entry[job[c].id]] = None /\ child[entry[job[c].id]] = None
  <1>1. job[c] \in Job /\ job \in [Commands -> Job \cup {Idle}]
    BY DEF SlotInv, SupervisorTypeOK, Ask, Doing
  <1>2. CASE Done(c)
    BY <1>1, <1>2, DoneEnds DEF Ask, CommandOnly, slotVars, Quiet, SlotInv
  <1>3. CASE ~Done(c)
    <2>1. job' = [job EXCEPT ![c].at = "write", ![c].seen = Taken(job[c].cfg.port)]
      BY <1>3 DEF Ask
    <2>2. PICK b : b = Taken(job[c].cfg.port)
      OBVIOUS
    <2>3. b \in BOOLEAN
      BY <2>2 DEF Taken
    <2>4. job' = [job EXCEPT ![c] = [[job[c] EXCEPT !.at = "write"] EXCEPT !.seen = b]]
      BY <1>1, <2>1, <2>2
    <2>5. Moves(c, "write") /\ job'[c].rt = job[c].rt /\ job'[c].cfg = job[c].cfg
      <3>. DEFINE j1 == [job[c] EXCEPT !.at = "write"]
                  j2 == [j1 EXCEPT !.seen = b]
      <3>1. /\ j1 \in Job /\ SameCommand(job[c], j1) /\ j1.at = "write"
            /\ j1.rt = job[c].rt /\ j1.cfg = job[c].cfg
        BY <1>1 DEF Job, SameCommand
      <3>2. j2 \in Job /\ SameCommand(j1, j2) /\ j2.at = j1.at /\ j2.rt = j1.rt /\ j2.cfg = j1.cfg
        <4>. HIDE DEF j1
        <4>. QED BY <2>3, <3>1 DEF Job, SameCommand
      <3>3. job' = [job EXCEPT ![c] = j2]
        BY <2>4
      <3>. HIDE DEF j1, j2
      <3>4. SameCommand(job[c], j2)
        BY <3>1, <3>2 DEF SameCommand
      <3>. QED BY <1>1, <3>1, <3>2, <3>3, <3>4, JobMoves
    <2>. QED BY <1>1, <1>3, <2>5 DEF Ask, CommandOnly, slotVars, Quiet
  <1>. QED BY <1>2, <1>3

\* A probe writes to the status of the object of that moment, if there is one.
LEMMA WriteDoes ==
    ASSUME NEW c \in Commands, SlotInv, WriteAnswer(c)
    PROVE  /\ Quiet(c, "write") /\ Ends(c)
           /\ UNCHANGED <<config, entry, task, child, runs, objects>>
           /\ \/ status' = status
              \/ /\ entry[job[c].id] \in Runtimes
                 /\ \E s \in Status : status' = [status EXCEPT ![entry[job[c].id]] = s]
  <1>1. /\ job[c] \in Job /\ job[c].cfg \in Config /\ job[c].id \in Ids
        /\ entry[job[c].id] \in Runtimes \cup {None} /\ status \in [Runtimes -> Status]
    BY DEF SlotInv, SupervisorTypeOK, WriteAnswer, Doing, Job
  <1>. DEFINE o == entry[job[c].id]
  <1>2. CASE o = None
    BY <1>1, <1>2, DoneEnds DEF WriteAnswer, CommandOnly, slotVars, Quiet, SlotInv
  <1>3. CASE o # None
    <2>1. o \in Runtimes
      BY <1>1, <1>3
    <2>2. \/ status' = [status EXCEPT ![o] = [running |-> TRUE, port |-> job[c].cfg.port,
                                              backend |-> TRUE]]
          \/ status' = [status EXCEPT ![o].running = FALSE, ![o].backend = FALSE]
          \/ status' = [status EXCEPT ![o].backend = @ /\ status[o].running]
      BY <1>3 DEF WriteAnswer
    <2>. HIDE DEF o
    <2>3. ASSUME status' = [status EXCEPT ![o] = [running |-> TRUE, port |-> job[c].cfg.port,
                                                backend |-> TRUE]]
          PROVE  \E s \in Status : status' = [status EXCEPT ![o] = s]
      <3>1. [running |-> TRUE, port |-> job[c].cfg.port, backend |-> TRUE] \in Status
        BY <1>1 DEF Status, Config
      <3>. QED BY <2>3, <3>1
    <2>4. ASSUME status' = [status EXCEPT ![o].running = FALSE, ![o].backend = FALSE]
          PROVE  \E s \in Status : status' = [status EXCEPT ![o] = s]
      <3>1. [[status[o] EXCEPT !.running = FALSE] EXCEPT !.backend = FALSE] \in Status
        BY <1>1, <2>1 DEF Status
      <3>2. status' = [status EXCEPT ![o] = [[status[o] EXCEPT !.running = FALSE] EXCEPT !.backend = FALSE]]
        BY <1>1, <2>1, <2>4
      <3>. QED BY <3>1, <3>2
    <2>5. ASSUME status' = [status EXCEPT ![o].backend = @ /\ status[o].running]
          PROVE  \E s \in Status : status' = [status EXCEPT ![o] = s]
      <3>1. PICK b \in BOOLEAN : b = (status[o].backend /\ status[o].running)
        OBVIOUS
      <3>2. [status[o] EXCEPT !.backend = b] \in Status
        BY <1>1, <2>1 DEF Status
      <3>3. status' = [status EXCEPT ![o] = [status[o] EXCEPT !.backend = b]]
        BY <2>5, <3>1
      <3>. QED BY <3>2, <3>3
    <2>6. \E s \in Status : status' = [status EXCEPT ![o] = s]
      BY <2>2, <2>3, <2>4, <2>5
    <2>. QED BY <1>1, <2>1, <2>6, DoneEnds DEF WriteAnswer, CommandOnly, slotVars, Quiet, SlotInv, o
  <1>. QED BY <1>2, <1>3

\* A command begins, and its instance is crossed if it was busy.
LEMMA StartDoes ==
    ASSUME NEW c \in Commands, NEW op \in DOMAIN FirstStep, NEW i \in Ids, SlotInv, Start(c, op, i)
    PROVE  /\ job[c] = Idle /\ job' \in [Commands -> Job \cup {Idle}]
           /\ job'[c] \in Job /\ job'[c] # Idle /\ job'[c].id = i /\ job'[c].rt = None
           /\ job'[c].at \in {"look", "kill", "ask"}
           /\ job'[c].at = "ask" => job'[c].cfg # NoConfig
           /\ \A d \in Commands \ {c} : job'[d] = job[d]
           /\ crossed' = (IF Busy(i) THEN crossed \cup {i} ELSE crossed)
           /\ begun' \in 0 .. MaxCommands
           /\ UNCHANGED <<program, config, entry, status, task, child, runs, others, objects,
                          flips>>
  <1>1. /\ op \in {"start", "stop", "restart", "delete", "probe"}
        /\ FirstStep[op] \in {"look", "kill", "ask"}
        /\ FirstStep[op] = "ask" => op = "probe"
    BY DEF FirstStep
  <1>2. job \in [Commands -> Job \cup {Idle}] /\ config[i] \in Config \cup {NoConfig}
    BY DEF SlotInv, SupervisorTypeOK
  <1>. DEFINE j == [op |-> op, id |-> i, at |-> FirstStep[op], rt |-> None,
                    cfg |-> config[i], run |-> None, seen |-> FALSE]
  <1>3. j \in Job /\ j.id = i /\ j.rt = None /\ j.at = FirstStep[op] /\ j.cfg = config[i]
    BY <1>1, <1>2 DEF Job
  <1>4. job' = [job EXCEPT ![c] = j] /\ job[c] = Idle /\ (op = "probe" => config[i] # NoConfig)
    BY DEF Start
  <1>5. begun' \in 0 .. MaxCommands
    BY SupervisorBoundsAssumption DEF Start, SlotInv, SupervisorTypeOK
  <1>. HIDE DEF j
  <1>6. /\ job' \in [Commands -> Job \cup {Idle}] /\ job'[c] = j
        /\ \A d \in Commands \ {c} : job'[d] = job[d]
    BY <1>2, <1>3, <1>4
  <1>. QED BY <1>1, <1>3, <1>4, <1>5, <1>6, SupervisorIdleAssumption DEF Start, slotVars

\* An addition begins with an instance that was not configured.
LEMMA AddDoes ==
    ASSUME NEW c \in Commands, NEW i \in Ids, NEW cfg \in Config, SlotInv, AddInstance(c, i, cfg)
    PROVE  /\ job[c] = Idle /\ job' \in [Commands -> Job \cup {Idle}]
           /\ job'[c] \in Job /\ job'[c] # Idle /\ job'[c].id = i /\ job'[c].rt = None
           /\ job'[c].at = "enter" /\ job'[c].cfg # NoConfig
           /\ \A d \in Commands \ {c} : job'[d] = job[d]
           /\ crossed' = (IF Busy(i) THEN crossed \cup {i} ELSE crossed)
           /\ begun' \in 0 .. MaxCommands
           /\ config[i] = NoConfig /\ config' = [config EXCEPT ![i] = cfg]
           /\ UNCHANGED <<program, entry, status, task, child, runs, others, objects, flips>>
  <1>2. job \in [Commands -> Job \cup {Idle}]
    BY DEF SlotInv, SupervisorTypeOK
  <1>. DEFINE j == [op |-> "add", id |-> i, at |-> "enter", rt |-> None, cfg |-> cfg,
                    run |-> None, seen |-> FALSE]
  <1>3. j \in Job /\ j.id = i /\ j.rt = None /\ j.at = "enter" /\ j.cfg = cfg
    BY DEF Job
  <1>4. job' = [job EXCEPT ![c] = j] /\ job[c] = Idle
    BY DEF AddInstance
  <1>5. begun' \in 0 .. MaxCommands
    BY SupervisorBoundsAssumption DEF AddInstance, SlotInv, SupervisorTypeOK
  <1>. HIDE DEF j
  <1>6. /\ job' \in [Commands -> Job \cup {Idle}] /\ job'[c] = j
        /\ \A d \in Commands \ {c} : job'[d] = job[d]
    BY <1>2, <1>3, <1>4
  <1>7. cfg # NoConfig
    BY SupervisorNamesAssumption DEF Config
  <1>. QED BY <1>3, <1>4, <1>5, <1>6, <1>7, SupervisorIdleAssumption DEF AddInstance, slotVars

\* A step of a run changes where it is and, if a task begins or ends, its object's status.
LEMMA RunDoes ==
    ASSUME NEW r \in DOMAIN runs, SlotInv, RunStep(r)
    PROVE  /\ UNCHANGED <<program, config, entry, task, child, job, others, objects, begun, flips>>
           /\ runs[r].rt \in Runtimes /\ runs[r].of \in Ids
           /\ \E at \in {"binding", "serving", "ending", "gone"} :
                 /\ runs' = [runs EXCEPT ![r].at = at]
                 /\ at # "gone" => (runs[r].kind = "child" => at = "serving")
           /\ \/ status' = status
              \/ TaskBegins(r)
                 /\ status' = [status EXCEPT ![runs[r].rt] =
                        [[status[runs[r].rt] EXCEPT !.running = TRUE] EXCEPT !.port = runs[r].port]]
              \/ TaskEnds(r)
                 /\ status' = [status EXCEPT ![runs[r].rt] =
                        [status[runs[r].rt] EXCEPT !.running = FALSE]]
           /\ \/ crossed' = crossed
              \/ crossed' = crossed \cup {runs[r].of}
  <1>1. runs[r] \in Run /\ status \in [Runtimes -> Status]
    BY DEF SlotInv, SupervisorTypeOK
  <1>2. /\ runs[r].kind = "task" => runs[r].at # "starting"
        /\ runs[r].kind = "child" => runs[r].at \in {"starting", "serving", "gone"}
    BY DEF SlotInv, HandleInv
  <1>3. runs[r].rt \in Runtimes /\ runs[r].of \in Ids
    BY <1>1 DEF Run
  <1>. USE DEF RunOnly, slotVars, To
  <1>4. CASE TaskBegins(r)
    <2>1. status' = [status EXCEPT ![runs[r].rt] =
                        [[status[runs[r].rt] EXCEPT !.running = TRUE] EXCEPT !.port = runs[r].port]]
      BY <1>1, <1>3, <1>4 DEF TaskBegins
    <2>. QED BY <1>2, <1>3, <1>4, <2>1 DEF TaskBegins
  <1>5. CASE Bind(r)
    BY <1>2, <1>3, <1>5 DEF Bind
  <1>6. CASE Shutdown(r)
    BY <1>2, <1>3, <1>6 DEF Shutdown
  <1>7. CASE TaskEnds(r)
    BY <1>2, <1>3, <1>7 DEF TaskEnds
  <1>8. CASE Dropped(r)
    BY <1>2, <1>3, <1>8 DEF Dropped
  <1>9. CASE ChildListens(r)
    BY <1>2, <1>3, <1>9 DEF ChildListens
  <1>10. CASE ChildExits(r)
    BY <1>2, <1>3, <1>10 DEF ChildExits
  <1>. QED BY <1>4, <1>5, <1>6, <1>7, <1>8, <1>9, <1>10 DEF RunStep

\* What a job must be for its command to be where it is.
JobOK(c) ==
    job'[c] # Idle =>
        /\ job'[c].at \in {"launch", "store", "mark"} => job'[c].rt # None
        /\ job'[c].at \in {"launch", "ask", "write", "enter"} => job'[c].cfg # NoConfig

\* A step that leaves the runs and their handles, and the owners of what is used.
LEMMA CalmKeepsSlots ==
    ASSUME NEW c \in Commands, SlotInv,
           UNCHANGED <<program, task, child, runs, others>>,
           job' \in [Commands -> Job \cup {Idle}], \A d \in Commands \ {c} : job'[d] = job[d],
           JobOK(c), job'[c] # Idle => job'[c].at # "store",
           job'[c] # Idle /\ job'[c].rt # None =>
               job'[c].rt <= objects
               /\ \A own \in [Runtimes -> Ids] : OwnInv(own) => own[job'[c].rt] = job'[c].id,
           config' \in [Ids -> Config \cup {NoConfig}], entry' \in [Ids -> Runtimes \cup {None}],
           \A i \in Ids : entry'[i] # entry[i] => entry'[i] = None,
           status' \in [Runtimes -> Status], objects' = objects, crossed' \subseteq Ids,
           begun' \in 0 .. MaxCommands, flips' \in 0 .. MaxFlips
    PROVE  SlotInv'
  <1>1. SupervisorTypeOK'
    <2>1. \A d \in Commands : job'[d] # Idle =>
              /\ job'[d].at \in {"launch", "store", "mark"} => job'[d].rt # None
              /\ job'[d].at \in {"launch", "ask", "write", "enter"} => job'[d].cfg # NoConfig
      BY DEF SlotInv, SupervisorTypeOK, JobOK
    <2>. QED BY <2>1 DEF SlotInv, SupervisorTypeOK
  <1>2. HandleInv'
    <2>1. \A d \in Commands : job'[d] # Idle /\ job'[d].at = "store" => job'[d] = job[d]
      OBVIOUS
    <2>. QED BY <2>1 DEF SlotInv, HandleInv
  <1>3. PICK own \in [Runtimes -> Ids] : OwnInv(own)
    BY DEF SlotInv
  <1>4. OwnInv(own)'
    <2>1. \A d \in Commands : job'[d] # Idle /\ job'[d].rt # None =>
              job'[d].rt <= objects /\ own[job'[d].rt] = job'[d].id
      BY <1>3 DEF OwnInv
    <2>2. \A i \in Ids : entry'[i] # None => entry'[i] <= objects /\ own[entry'[i]] = i
      BY <1>3 DEF OwnInv
    <2>. QED BY <1>3, <2>1, <2>2 DEF OwnInv
  <1>. QED BY <1>1, <1>2, <1>4 DEF SlotInv

\* What a task or process does leaves handles and owners as they are.
LEMMA RunKeepsSlots ==
    ASSUME NEW r \in DOMAIN runs, SlotInv, RunStep(r)
    PROVE  SlotInv'
  <1>1. /\ UNCHANGED <<program, config, entry, task, child, job, others, objects, begun, flips>>
        /\ runs[r].rt \in Runtimes /\ runs[r].of \in Ids
        /\ crossed' = crossed \/ crossed' = crossed \cup {runs[r].of}
    BY RunDoes
  <1>2. PICK at \in {"binding", "serving", "ending", "gone"} :
                 /\ runs' = [runs EXCEPT ![r].at = at]
                 /\ at # "gone" => (runs[r].kind = "child" => at = "serving")
    BY RunDoes
  <1>3. \A s \in DOMAIN runs : runs[s] \in Run
    BY DEF SlotInv, SupervisorTypeOK
  <1>4. /\ DOMAIN runs' = DOMAIN runs
        /\ runs'[r] = [runs[r] EXCEPT !.at = at]
        /\ \A s \in DOMAIN runs : s # r => runs'[s] = runs[s]
    BY <1>2
  <1>5. /\ runs'[r] \in Run /\ runs'[r].kind = runs[r].kind /\ runs'[r].rt = runs[r].rt
        /\ runs'[r].of = runs[r].of /\ runs'[r].at = at
    BY <1>3, <1>4 DEF Run
  <1>6. status' \in [Runtimes -> Status]
    <2>1. \/ status' = status
          \/ status' = [status EXCEPT ![runs[r].rt] =
                        [[status[runs[r].rt] EXCEPT !.running = TRUE] EXCEPT !.port = runs[r].port]]
          \/ status' = [status EXCEPT ![runs[r].rt] =
                        [status[runs[r].rt] EXCEPT !.running = FALSE]]
      BY RunDoes
    <2>2. status \in [Runtimes -> Status] /\ status[runs[r].rt] \in Status /\ runs[r].port \in Ports
      BY <1>1, <1>3 DEF SlotInv, SupervisorTypeOK, Run
    <2>3. /\ [[status[runs[r].rt] EXCEPT !.running = TRUE] EXCEPT !.port = runs[r].port] \in Status
          /\ [status[runs[r].rt] EXCEPT !.running = FALSE] \in Status
      BY <2>2 DEF Status
    <2>. QED BY <2>1, <2>2, <2>3
  <1>7. SupervisorTypeOK'
    BY <1>1, <1>3, <1>4, <1>5, <1>6 DEF SlotInv, SupervisorTypeOK
  <1>8. HandleInv'
    <2>1. \A s \in DOMAIN runs : /\ runs'[s].kind = runs[s].kind /\ runs'[s].rt = runs[s].rt
                                 /\ runs'[s].of = runs[s].of
      BY <1>4, <1>5
    <2>2. \A s \in DOMAIN runs :
              /\ runs'[s].kind = "task" => runs'[s].at # "starting"
              /\ runs'[s].kind = "child" => runs'[s].at \in {"starting", "serving", "gone"}
      BY <1>2, <1>4, <1>5 DEF SlotInv, HandleInv
    <2>. QED BY <1>1, <1>4, <2>1, <2>2 DEF SlotInv, HandleInv
  <1>9. PICK own \in [Runtimes -> Ids] : OwnInv(own)
    BY DEF SlotInv
  <1>10. OwnInv(own)'
    <2>1. \A s \in DOMAIN runs' : runs'[s].rt = runs[s].rt /\ runs'[s].of = runs[s].of
      BY <1>4, <1>5
    <2>2. \A s \in DOMAIN runs' : runs'[s].rt <= objects' /\ own[runs'[s].rt] = runs'[s].of
      BY <1>1, <1>4, <1>9, <2>1 DEF OwnInv
    <2>. QED BY <1>1, <1>9, <2>2 DEF OwnInv
  <1>. QED BY <1>7, <1>8, <1>10 DEF SlotInv

\* A kill takes handles away and gives none.
LEMMA KillsKeepsSlots ==
    ASSUME NEW c \in Commands, NEW o \in Runtimes, SlotInv, Kills(o),
           UNCHANGED <<program, config, entry, status, others, objects, crossed, begun, flips>>,
           job' \in [Commands -> Job \cup {Idle}], \A d \in Commands \ {c} : job'[d] = job[d],
           JobOK(c), job'[c] # Idle => job'[c].at # "store",
           job'[c] # Idle /\ job'[c].rt # None =>
               job'[c].rt <= objects
               /\ \A own \in [Runtimes -> Ids] : OwnInv(own) => own[job'[c].rt] = job'[c].id
    PROVE  SlotInv'
  <1>1. \A s \in DOMAIN runs : runs[s] \in Run
    BY DEF SlotInv, SupervisorTypeOK
  <1>2. /\ DOMAIN runs' = DOMAIN runs
        /\ \A s \in DOMAIN runs :
              /\ runs'[s] \in Run /\ runs'[s].kind = runs[s].kind
              /\ runs'[s].rt = runs[s].rt /\ runs'[s].of = runs[s].of
              /\ runs'[s].at = runs[s].at \/ runs'[s].at = "gone"
    <2>1. ASSUME NEW s \in DOMAIN runs
          PROVE  /\ runs'[s] \in Run /\ runs'[s].kind = runs[s].kind
                 /\ runs'[s].rt = runs[s].rt /\ runs'[s].of = runs[s].of
                 /\ runs'[s].at = runs[s].at \/ runs'[s].at = "gone"
      <3>1. \/ runs'[s] = [runs[s] EXCEPT !.at = "gone"]
            \/ runs'[s] = [runs[s] EXCEPT !.aborted = TRUE]
            \/ runs'[s] = runs[s]
        BY DEF Kills
      <3>. QED BY <1>1, <3>1 DEF Run
    <2>. QED BY <2>1 DEF Kills
  <1>3. /\ task' \in [Runtimes -> Runs \cup {None}] /\ child' \in [Runtimes -> Runs \cup {None}]
        /\ \A p \in Runtimes : /\ task'[p] = None \/ task'[p] = task[p]
                               /\ child'[p] = None \/ child'[p] = child[p]
    BY DEF Kills, SlotInv, SupervisorTypeOK
  <1>4. SupervisorTypeOK'
    <2>1. \A d \in Commands : job'[d] # Idle =>
              /\ job'[d].at \in {"launch", "store", "mark"} => job'[d].rt # None
              /\ job'[d].at \in {"launch", "ask", "write", "enter"} => job'[d].cfg # NoConfig
      BY DEF SlotInv, SupervisorTypeOK, JobOK
    <2>. QED BY <1>2, <1>3, <2>1 DEF SlotInv, SupervisorTypeOK
  <1>5. HandleInv'
    <2>1. \A d \in Commands : job'[d] # Idle /\ job'[d].at = "store" => job'[d] = job[d]
      OBVIOUS
    <2>2. \A p \in Runtimes :
           /\ task'[p] # None => task'[p] \in DOMAIN runs /\ runs'[task'[p]].rt = p
                                /\ runs'[task'[p]].kind = "task"
           /\ child'[p] # None => child'[p] \in DOMAIN runs /\ runs'[child'[p]].rt = p
                                 /\ runs'[child'[p]].kind = "child"
      BY <1>2, <1>3 DEF SlotInv, HandleInv
    <2>3. \A s \in DOMAIN runs :
              /\ runs'[s].kind = "task" => runs'[s].at # "starting"
              /\ runs'[s].kind = "child" => runs'[s].at \in {"starting", "serving", "gone"}
      BY <1>2 DEF SlotInv, HandleInv
    <2>4. \A d \in Commands : job'[d] # Idle /\ job'[d].at = "store" =>
           /\ job'[d].run \in DOMAIN runs /\ runs'[job'[d].run].rt = job'[d].rt
           /\ runs'[job'[d].run].of = job'[d].id
      BY <1>2, <2>1 DEF SlotInv, HandleInv
    <2>. QED BY <1>2, <2>2, <2>3, <2>4 DEF HandleInv
  <1>6. PICK own \in [Runtimes -> Ids] : OwnInv(own)
    BY DEF SlotInv
  <1>7. OwnInv(own)'
    <2>1. \A d \in Commands : job'[d] # Idle /\ job'[d].rt # None =>
              job'[d].rt <= objects /\ own[job'[d].rt] = job'[d].id
      BY <1>6 DEF OwnInv
    <2>. QED BY <1>2, <1>6, <2>1 DEF OwnInv
  <1>. QED BY <1>4, <1>5, <1>7 DEF SlotInv

\* What is started belongs to the instance that the object belongs to.
LEMMA LaunchKeepsSlots ==
    ASSUME NEW c \in Commands, SlotInv, LaunchTask(c) \/ LaunchChild(c)
    PROVE  SlotInv'
  <1>1. /\ Doing(c, "launch") /\ UNCHANGED <<program, config, entry, task, child, others, objects,
                                             crossed, begun, flips>>
        /\ \E kind \in {"task", "child"}, at \in {"queued", "starting"} :
              /\ NewRun(c, kind, at)
              /\ kind = "task" => at # "starting"
              /\ kind = "child" => at = "starting"
    BY DEF LaunchTask, LaunchChild, CommandOnly, slotVars
  <1>2. PICK r \in Runs :
                 /\ Moves(c, "store") /\ job'[c].rt = job[c].rt /\ job'[c].cfg = job[c].cfg
                 /\ r \notin DOMAIN runs /\ DOMAIN runs' = DOMAIN runs \cup {r}
                 /\ DOMAIN runs' = 1 .. Cardinality(DOMAIN runs')
                 /\ job'[c].run = r
                 /\ \A s \in DOMAIN runs : runs'[s] = runs[s]
                 /\ runs'[r] \in Run
                 /\ runs'[r].of = job[c].id /\ runs'[r].rt = job[c].rt
                 /\ runs'[r].kind = "task" => runs'[r].at # "starting"
                 /\ runs'[r].kind = "child" => runs'[r].at = "starting"
    <2>1. PICK kind \in {"task", "child"}, at \in {"queued", "starting"} :
              /\ NewRun(c, kind, at)
              /\ kind = "task" => at # "starting"
              /\ kind = "child" => at = "starting"
      BY <1>1
    <2>2. Launched(c, kind, at)
      BY <1>1, <2>1, NewRunDoes
    <2>. QED BY <2>1, <2>2 DEF Launched
  <1>3. job[c] # Idle /\ job[c] \in Job /\ job[c].rt \in Runtimes /\ job[c].cfg \in Config
    BY <1>1 DEF Doing, SlotInv, SupervisorTypeOK, Job
  <1>4. status' \in [Runtimes -> Status]
    <2>1. \/ status' = status
          \/ status' = [status EXCEPT ![job[c].rt].running = TRUE, ![job[c].rt].port = job[c].cfg.port]
      BY DEF LaunchTask, LaunchChild
    <2>2. status \in [Runtimes -> Status] /\ status[job[c].rt] \in Status
          /\ job[c].cfg.port \in Ports
      BY <1>3 DEF SlotInv, SupervisorTypeOK, Config
    <2>3. [[status[job[c].rt] EXCEPT !.running = TRUE] EXCEPT !.port = job[c].cfg.port] \in Status
      BY <2>2 DEF Status
    <2>. QED BY <1>3, <2>1, <2>2, <2>3
  <1>5. SupervisorTypeOK'
    <2>1. \A d \in Commands : job'[d] # Idle =>
              /\ job'[d].at \in {"launch", "store", "mark"} => job'[d].rt # None
              /\ job'[d].at \in {"launch", "ask", "write", "enter"} => job'[d].cfg # NoConfig
      <3>1. ASSUME NEW d \in Commands, d # c
            PROVE  job'[d] = job[d]
        BY <1>2, <3>1 DEF Moves
      <3>2. job'[c].at = "store" /\ job'[c].rt # None
        BY <1>2, <1>3 DEF Moves, None, Runtimes
      <3>. QED BY <3>1, <3>2 DEF SlotInv, SupervisorTypeOK
    <2>2. DOMAIN runs' \subseteq Runs /\ \A s \in DOMAIN runs' : runs'[s] \in Run
      BY <1>2 DEF SlotInv, SupervisorTypeOK
    <2>. QED BY <1>1, <1>2, <1>4, <2>1, <2>2 DEF SlotInv, SupervisorTypeOK, Moves
  <1>6. HandleInv'
    <2>1. ASSUME NEW d \in Commands, job'[d] # Idle, job'[d].at = "store"
          PROVE  /\ job'[d].run \in DOMAIN runs' /\ runs'[job'[d].run].rt = job'[d].rt
                 /\ runs'[job'[d].run].of = job'[d].id
      <3>1. CASE d = c
        BY <1>2, <3>1 DEF Moves
      <3>2. CASE d # c
        BY <1>2, <2>1, <3>2 DEF Moves, SlotInv, HandleInv
      <3>. QED BY <3>1, <3>2
    <2>2. \A p \in Runtimes :
           /\ task[p] # None => task[p] \in DOMAIN runs' /\ runs'[task[p]].rt = p
                                /\ runs'[task[p]].kind = "task"
           /\ child[p] # None => child[p] \in DOMAIN runs' /\ runs'[child[p]].rt = p
                                 /\ runs'[child[p]].kind = "child"
      BY <1>2 DEF SlotInv, HandleInv
    <2>3. \A s \in DOMAIN runs' :
              /\ runs'[s].kind = "task" => runs'[s].at # "starting"
              /\ runs'[s].kind = "child" => runs'[s].at \in {"starting", "serving", "gone"}
      BY <1>2 DEF SlotInv, HandleInv
    <2>. QED BY <1>1, <2>1, <2>2, <2>3 DEF HandleInv
  <1>7. PICK own \in [Runtimes -> Ids] : OwnInv(own)
    BY DEF SlotInv
  <1>8. OwnInv(own)'
    <2>1. job[c].rt <= objects /\ own[job[c].rt] = job[c].id
      BY <1>3, <1>7 DEF OwnInv, Runtimes, None
    <2>2. \A d \in Commands : job'[d] # Idle /\ job'[d].rt # None =>
              job'[d].rt <= objects /\ own[job'[d].rt] = job'[d].id
      BY <1>2, <1>7, <2>1 DEF OwnInv, Moves
    <2>. QED BY <1>1, <1>2, <1>7, <2>1, <2>2 DEF OwnInv
  <1>. QED BY <1>5, <1>6, <1>8 DEF SlotInv

\* A handle goes to the object its run is on.
LEMMA StoreKeepsSlots ==
    ASSUME NEW c \in Commands, SlotInv, Store(c)
    PROVE  SlotInv'
  <1>1. /\ Quiet(c, "store") /\ Ends(c)
        /\ UNCHANGED <<config, entry, status, runs, objects>>
        /\ \/ /\ runs[job[c].run].kind = "task" /\ child' = child
              /\ task' = [task EXCEPT ![job[c].rt] = job[c].run]
           \/ /\ runs[job[c].run].kind = "child" /\ task' = task
              /\ child' = [child EXCEPT ![job[c].rt] = job[c].run]
    BY StoreDoes
  <1>2. /\ job[c].run \in DOMAIN runs /\ runs[job[c].run].rt = job[c].rt
        /\ DOMAIN runs \subseteq Runs /\ job[c].rt \in Runtimes
    BY <1>1 DEF SlotInv, HandleInv, SupervisorTypeOK, Quiet, Doing, Job
  <1>3. SupervisorTypeOK'
    <2>1. task' \in [Runtimes -> Runs \cup {None}] /\ child' \in [Runtimes -> Runs \cup {None}]
      BY <1>1, <1>2 DEF SlotInv, SupervisorTypeOK
    <2>2. \A d \in Commands : job'[d] # Idle => job'[d] = job[d]
      BY <1>1 DEF Ends
    <2>. QED BY <1>1, <2>1, <2>2 DEF SlotInv, SupervisorTypeOK, Ends, Quiet
  <1>4. HandleInv'
    <2>1. \A p \in Runtimes :
           /\ task'[p] # None => task'[p] \in DOMAIN runs /\ runs[task'[p]].rt = p
                                /\ runs[task'[p]].kind = "task"
           /\ child'[p] # None => child'[p] \in DOMAIN runs /\ runs[child'[p]].rt = p
                                 /\ runs[child'[p]].kind = "child"
      <3>1. /\ task \in [Runtimes -> Runs \cup {None}]
            /\ child \in [Runtimes -> Runs \cup {None}]
        BY DEF SlotInv, SupervisorTypeOK
      <3>. QED BY <1>1, <1>2, <3>1 DEF SlotInv, HandleInv
    <2>2. \A d \in Commands : job'[d] # Idle => job'[d] = job[d]
      BY <1>1 DEF Ends
    <2>. QED BY <1>1, <2>1, <2>2 DEF SlotInv, HandleInv
  <1>5. PICK own \in [Runtimes -> Ids] : OwnInv(own)
    BY DEF SlotInv
  <1>6. OwnInv(own)'
    BY <1>1, <1>5 DEF OwnInv, Ends
  <1>. QED BY <1>3, <1>4, <1>6 DEF SlotInv

\* A new object belongs to the instance it is made for: nothing has used it before.
LEMMA EnterKeepsSlots ==
    ASSUME NEW c \in Commands, SlotInv, EnterInstance(c)
    PROVE  SlotInv'
  <1>1. /\ Quiet(c, "enter") /\ Ends(c)
        /\ objects + 1 \in Runtimes /\ objects' = objects + 1
        /\ entry' = [entry EXCEPT ![job[c].id] = objects + 1]
        /\ \E s \in Status : status' = [status EXCEPT ![objects + 1] = s]
        /\ UNCHANGED <<config, task, child, runs>>
    BY EnterDoes
  <1>2. job[c].id \in Ids /\ objects \in Nat
    BY <1>1, SupervisorBoundsAssumption DEF Quiet, Job, SlotInv, SupervisorTypeOK
  <1>3. /\ entry' \in [Ids -> Runtimes \cup {None}] /\ objects' \in 0 .. MaxRuntimes
        /\ status' \in [Runtimes -> Status]
    BY <1>1, <1>2 DEF SlotInv, SupervisorTypeOK, Runtimes
  <1>4. \A d \in Commands : job'[d] # Idle => job'[d] = job[d]
    BY <1>1 DEF Ends
  <1>5. SupervisorTypeOK'
    BY <1>1, <1>3, <1>4 DEF SlotInv, SupervisorTypeOK, Ends, Quiet
  <1>6. HandleInv'
    BY <1>1, <1>4 DEF SlotInv, HandleInv
  <1>7. PICK own \in [Runtimes -> Ids] : OwnInv(own)
    BY DEF SlotInv
  <1>. DEFINE new == [own EXCEPT ![objects + 1] = job[c].id]
  <1>8. /\ new \in [Runtimes -> Ids] /\ new[objects + 1] = job[c].id
        /\ \A o \in Runtimes : o <= objects => new[o] = own[o]
    BY <1>1, <1>2, <1>7 DEF Runtimes
  <1>. HIDE DEF new
  <1>9. PICK more \in [Runtimes -> Ids] : more = new
    BY <1>8
  <1>10. OwnInv(more)'
    <2>1. ASSUME NEW i \in Ids, entry'[i] # None
          PROVE  entry'[i] <= objects' /\ more[entry'[i]] = i
      <3>1. CASE i = job[c].id
        BY <1>1, <1>2, <1>8, <1>9, <3>1 DEF SlotInv, SupervisorTypeOK
      <3>2. CASE i # job[c].id
        <4>1. entry'[i] = entry[i] /\ entry[i] \in Runtimes /\ entry[i] <= objects
              /\ own[entry[i]] = i
          BY <1>1, <1>7, <2>1, <3>2 DEF OwnInv, SlotInv, SupervisorTypeOK
        <4>. QED BY <1>1, <1>2, <1>8, <1>9, <4>1 DEF Runtimes
      <3>. QED BY <3>1, <3>2
    <2>2. ASSUME NEW r \in DOMAIN runs
          PROVE  runs[r].rt <= objects' /\ more[runs[r].rt] = runs[r].of
      <3>1. runs[r].rt \in Runtimes /\ runs[r].rt <= objects /\ own[runs[r].rt] = runs[r].of
        BY <1>7 DEF OwnInv, SlotInv, SupervisorTypeOK, Run
      <3>. QED BY <1>1, <1>2, <1>8, <1>9, <3>1 DEF Runtimes
    <2>3. ASSUME NEW d \in Commands, job'[d] # Idle, job'[d].rt # None
          PROVE  job'[d].rt <= objects' /\ more[job'[d].rt] = job'[d].id
      <3>1. /\ job'[d] = job[d] /\ job[d].rt \in Runtimes /\ job[d].rt <= objects
            /\ own[job[d].rt] = job[d].id
        BY <1>4, <1>7, <2>3 DEF OwnInv, SlotInv, SupervisorTypeOK, Job
      <3>. QED BY <1>1, <1>2, <1>8, <1>9, <3>1 DEF Runtimes
    <2>. QED BY <1>1, <2>1, <2>2, <2>3 DEF OwnInv
  <1>. QED BY <1>5, <1>6, <1>10 DEF SlotInv

\* What a job carries belongs to its instance, and so does the instance's object.
LEMMA JobOwns ==
    ASSUME NEW c \in Commands, SlotInv, job[c] # Idle
    PROVE  /\ job[c] \in Job /\ job[c].id \in Ids
           /\ job[c].rt # None =>
                 /\ job[c].rt <= objects
                 /\ \A own \in [Runtimes -> Ids] : OwnInv(own) => own[job[c].rt] = job[c].id
           /\ entry[job[c].id] # None =>
                 /\ entry[job[c].id] <= objects
                 /\ \A own \in [Runtimes -> Ids] : OwnInv(own) => own[entry[job[c].id]] = job[c].id
           /\ job[c].at \in {"launch", "ask", "write", "enter"} => job[c].cfg # NoConfig
           /\ job[c].at \in {"launch", "store", "mark"} => job[c].rt # None
  <1>1. job[c] \in Job /\ job[c].id \in Ids
    BY DEF SlotInv, SupervisorTypeOK, Job
  <1>. QED BY <1>1 DEF SlotInv, SupervisorTypeOK, OwnInv

\* Every step of a command keeps the types, the handles and the owners.
LEMMA CommandKeepsSlots ==
    ASSUME NEW c \in Commands, SlotInv, CommandStep(c)
    PROVE  SlotInv'
  <1>1. /\ config \in [Ids -> Config \cup {NoConfig}] /\ entry \in [Ids -> Runtimes \cup {None}]
        /\ status \in [Runtimes -> Status] /\ crossed \subseteq Ids /\ begun \in 0 .. MaxCommands
        /\ flips \in 0 .. MaxFlips
    BY DEF SlotInv, SupervisorTypeOK
  <1>2. ASSUME Ends(c), UNCHANGED <<program, task, child, runs, others, crossed, begun, flips>>,
               config' \in [Ids -> Config \cup {NoConfig}], status' \in [Runtimes -> Status],
               entry' = entry, objects' = objects
        PROVE  SlotInv'
    BY <1>1, <1>2, CalmKeepsSlots DEF Ends, JobOK
  <1>3. CASE Look(c)
    <2>1. CASE Ends(c)
      BY <1>1, <1>2, <1>3, <2>1, LookDoes
    <2>2. CASE ~Ends(c)
      <3>1. /\ Doing(c, "look") /\ job[c] \in Job
            /\ UNCHANGED <<program, config, entry, status, task, child, runs, others, objects,
                          crossed, begun, flips>>
            /\ Moves(c, "launch") /\ job'[c].rt = entry[job[c].id] /\ entry[job[c].id] # None
            /\ job'[c].cfg = config[job[c].id] /\ config[job[c].id] # NoConfig
        BY <1>3, <2>2, LookDoes
      <3>2. JobOK(c) /\ job'[c].at # "store"
        BY <3>1 DEF JobOK, Moves
      <3>3. /\ job'[c].rt <= objects
            /\ \A own \in [Runtimes -> Ids] : OwnInv(own) => own[job'[c].rt] = job'[c].id
        BY <3>1, JobOwns DEF Moves, Doing
      <3>. QED BY <1>1, <3>1, <3>2, <3>3, CalmKeepsSlots DEF Moves
    <2>. QED BY <2>1, <2>2
  <1>4. CASE LaunchTask(c) \/ LaunchChild(c)
    BY <1>4, LaunchKeepsSlots
  <1>5. CASE LaunchFails(c)
    BY <1>1, <1>2, <1>5, LaunchFailsDoes DEF Quiet
  <1>6. CASE Store(c)
    BY <1>6, StoreKeepsSlots
  <1>7. CASE Kill(c)
    <2>1. /\ Quiet(c, "kill") /\ UNCHANGED <<config, entry, status, objects>>
          /\ \/ /\ Ends(c) /\ UNCHANGED <<runs, task, child>>
             \/ /\ entry[job[c].id] \in Runtimes /\ Kills(entry[job[c].id])
                /\ Moves(c, "mark") /\ job'[c].rt = entry[job[c].id]
      BY <1>7, KillDoes
    <2>2. CASE Ends(c) /\ UNCHANGED <<runs, task, child>>
      BY <1>1, <1>2, <2>1, <2>2 DEF Quiet
    <2>3. CASE /\ entry[job[c].id] \in Runtimes /\ Kills(entry[job[c].id])
               /\ Moves(c, "mark") /\ job'[c].rt = entry[job[c].id]
      <3>1. entry[job[c].id] # None
        BY <2>3 DEF Runtimes, None
      <3>2. JobOK(c) /\ job'[c].at # "store"
        BY <2>3, <3>1 DEF JobOK, Moves
      <3>3. /\ job'[c].rt <= objects
            /\ \A own \in [Runtimes -> Ids] : OwnInv(own) => own[job'[c].rt] = job'[c].id
        BY <2>1, <2>3, <3>1, JobOwns DEF Moves, Quiet, Doing
      <3>. QED BY <2>1, <2>3, <3>2, <3>3, KillsKeepsSlots DEF Moves, Quiet
    <2>. QED BY <2>1, <2>2, <2>3
  <1>8. CASE Mark(c)
    <2>1. /\ Quiet(c, "mark") /\ UNCHANGED <<config, entry, task, child, runs, objects>>
          /\ job[c].rt \in Runtimes
          /\ status' = [status EXCEPT ![job[c].rt].running = FALSE]
          /\ Ends(c) \/ (Moves(c, "look") /\ job'[c].rt = job[c].rt)
      BY <1>8, MarkDoes
    <2>2. status' \in [Runtimes -> Status]
      <3>1. [status[job[c].rt] EXCEPT !.running = FALSE] \in Status
        BY <1>1, <2>1 DEF Status
      <3>. QED BY <1>1, <2>1, <3>1
    <2>3. CASE Ends(c)
      BY <1>1, <1>2, <2>1, <2>2, <2>3 DEF Quiet
    <2>4. CASE Moves(c, "look") /\ job'[c].rt = job[c].rt
      <3>1. JobOK(c) /\ job'[c].at # "store"
        BY <2>4 DEF JobOK, Moves
      <3>2. /\ job'[c].rt <= objects
            /\ \A own \in [Runtimes -> Ids] : OwnInv(own) => own[job'[c].rt] = job'[c].id
        BY <2>1, <2>4, JobOwns DEF Moves, Quiet, Doing
      <3>. QED BY <1>1, <2>1, <2>2, <2>4, <3>1, <3>2, CalmKeepsSlots DEF Moves, Quiet
    <2>. QED BY <2>1, <2>3, <2>4
  <1>9. CASE KillForDelete(c)
    <2>1. /\ Quiet(c, "kill") /\ UNCHANGED <<config, entry, status, objects>>
          /\ Moves(c, "remove") /\ job'[c].rt = job[c].rt
          /\ \/ entry[job[c].id] = None /\ UNCHANGED <<runs, task, child>>
             \/ entry[job[c].id] \in Runtimes /\ Kills(entry[job[c].id])
      BY <1>9, KillForDeleteDoes
    <2>2. JobOK(c) /\ job'[c].at # "store"
      BY <2>1 DEF JobOK, Moves
    <2>3. job'[c].rt # None =>
              /\ job'[c].rt <= objects
              /\ \A own \in [Runtimes -> Ids] : OwnInv(own) => own[job'[c].rt] = job'[c].id
      BY <2>1, JobOwns DEF Moves, Quiet, Doing
    <2>4. CASE UNCHANGED <<runs, task, child>>
      BY <1>1, <2>1, <2>2, <2>3, <2>4, CalmKeepsSlots DEF Moves, Quiet
    <2>5. CASE entry[job[c].id] \in Runtimes /\ Kills(entry[job[c].id])
      BY <2>1, <2>2, <2>3, <2>5, KillsKeepsSlots DEF Moves, Quiet
    <2>. QED BY <2>1, <2>4, <2>5
  <1>10. CASE Remove(c)
    <2>1. /\ Quiet(c, "remove") /\ Moves(c, "forget") /\ job'[c].rt = job[c].rt
          /\ entry' = [entry EXCEPT ![job[c].id] = None]
          /\ UNCHANGED <<config, status, task, child, runs, objects>>
      BY <1>10, RemoveDoes
    <2>2. JobOK(c) /\ job'[c].at # "store"
      BY <2>1 DEF JobOK, Moves
    <2>3. job'[c].rt # None =>
              /\ job'[c].rt <= objects
              /\ \A own \in [Runtimes -> Ids] : OwnInv(own) => own[job'[c].rt] = job'[c].id
      BY <2>1, JobOwns DEF Moves, Quiet, Doing
    <2>4. /\ entry' \in [Ids -> Runtimes \cup {None}]
          /\ \A i \in Ids : entry'[i] # entry[i] => entry'[i] = None
      BY <1>1, <2>1
    <2>. QED BY <1>1, <2>1, <2>2, <2>3, <2>4, CalmKeepsSlots DEF Moves, Quiet
  <1>11. CASE Forget(c)
    <2>1. /\ Quiet(c, "forget") /\ Ends(c)
          /\ config' = [config EXCEPT ![job[c].id] = NoConfig]
          /\ UNCHANGED <<entry, status, task, child, runs, objects>>
      BY <1>11, ForgetDoes
    <2>2. config' \in [Ids -> Config \cup {NoConfig}]
      BY <1>1, <2>1
    <2>. QED BY <1>1, <1>2, <2>1, <2>2 DEF Quiet
  <1>12. CASE Ask(c)
    <2>1. /\ Quiet(c, "ask")
          /\ UNCHANGED <<config, entry, status, task, child, runs, objects>>
          /\ Ends(c) \/ (Moves(c, "write") /\ job'[c].rt = job[c].rt /\ job'[c].cfg = job[c].cfg)
      BY <1>12, AskDoes
    <2>2. CASE Ends(c)
      BY <1>1, <1>2, <2>1, <2>2 DEF Quiet
    <2>3. CASE Moves(c, "write") /\ job'[c].rt = job[c].rt /\ job'[c].cfg = job[c].cfg
      <3>1. JobOK(c) /\ job'[c].at # "store"
        BY <2>1, <2>3, JobOwns DEF JobOK, Moves, Quiet, Doing
      <3>2. job'[c].rt # None =>
              /\ job'[c].rt <= objects
              /\ \A own \in [Runtimes -> Ids] : OwnInv(own) => own[job'[c].rt] = job'[c].id
        BY <2>1, <2>3, JobOwns DEF Moves, Quiet, Doing
      <3>. QED BY <1>1, <2>1, <2>3, <3>1, <3>2, CalmKeepsSlots DEF Moves, Quiet
    <2>. QED BY <2>1, <2>2, <2>3
  <1>13. CASE WriteAnswer(c)
    <2>1. /\ Quiet(c, "write") /\ Ends(c)
          /\ UNCHANGED <<config, entry, task, child, runs, objects>>
          /\ \/ status' = status
             \/ \E s \in Status : status' = [status EXCEPT ![entry[job[c].id]] = s]
      BY <1>13, WriteDoes
    <2>2. status' \in [Runtimes -> Status]
      BY <1>1, <2>1
    <2>. QED BY <1>1, <1>2, <2>1, <2>2 DEF Quiet
  <1>14. CASE NotSaved(c)
    BY <1>1, <1>2, <1>14, NotSavedDoes DEF Quiet
  <1>15. CASE EnterInstance(c)
    BY <1>15, EnterKeepsSlots
  <1>. QED
    BY <1>3, <1>4, <1>5, <1>6, <1>7, <1>8, <1>9, <1>10, <1>11, <1>12, <1>13, <1>14, <1>15
    DEF CommandStep

-----------------------------------------------------------------------------
(* One instance on which no command has met another.                        *)

Ours(i) == {r \in DOMAIN runs : runs[r].of = i}

Held(r) == entry[runs[r].of] = runs[r].rt /\ r \in {task[runs[r].rt], child[runs[r].rt]}

Shown(r) == status[runs[r].rt].running /\ status[runs[r].rt].port = runs[r].port

Storing(c, r) == Doing(c, "store") /\ job[c].run = r

\* A run that goes on is alone, held or about to be, and shown.
RunInv(i, r) ==
    /\ runs[r].aborted => runs[r].at \in {"serving", "gone"}
    /\ OnItsWay(r) => \A c \in InProgress(i) : Storing(c, r)
    /\ Alive(r) =>
          /\ Held(r) \/ \E c \in InProgress(i) : Storing(c, r)
          /\ runs[r].at # "queued" => Shown(r)
          /\ \A s \in Ours(i) : Alive(s) => s = r

\* What a command has made sure of, at the step it is at.
JobInv(i, c) ==
    /\ job[c].at \in {"launch", "mark", "remove", "forget", "enter", "write"} =>
           \A r \in Ours(i) : ~Alive(r)
    /\ job[c].at \in {"launch", "store", "mark"} => job[c].rt = entry[i]
    /\ job[c].at = "store" => \A r \in Ours(i) : Alive(r) => r = job[c].run
    /\ job[c].at \in {"forget", "enter"} => entry[i] = None
    /\ job[c].at = "enter" => config[i] # NoConfig

InstanceInv(i) ==
    /\ \A c, d \in InProgress(i) : c = d
    /\ config[i] = NoConfig => entry[i] = None
    /\ \A r \in Ours(i) : RunInv(i, r)
    /\ \A c \in InProgress(i) : JobInv(i, c)

AccountInv == \A i \in Ids : i \notin crossed => InstanceInv(i)

\* The runs of an instance are on objects of that instance.
LEMMA OursOwn ==
    ASSUME NEW i \in Ids, NEW r \in Ours(i), SlotInv
    PROVE  /\ r \in DOMAIN runs /\ runs[r] \in Run /\ runs[r].of = i /\ runs[r].rt \in Runtimes
           /\ runs[r].rt # None /\ runs[r].rt <= objects
           /\ \A own \in [Runtimes -> Ids] : OwnInv(own) => own[runs[r].rt] = i
  BY DEF Ours, SlotInv, SupervisorTypeOK, Run, OwnInv, Runtimes, None

\* A step elsewhere: nothing of the instance changes, nor of the objects its runs are on.
LEMMA Elsewhere ==
    ASSUME NEW i \in Ids, SlotInv, InstanceInv(i),
           \A c \in Commands : job[c] # Idle /\ job[c].id = i => job'[c] = job[c],
           \A c \in Commands : job'[c] # Idle /\ job'[c].id = i => job'[c] = job[c],
           DOMAIN runs \subseteq DOMAIN runs', 
           \A r \in DOMAIN runs' : runs'[r].of = i => r \in DOMAIN runs /\ runs'[r] = runs[r],
           \A r \in DOMAIN runs : runs[r].of = i => runs'[r] = runs[r],
           entry'[i] = entry[i], config'[i] = NoConfig => config[i] = NoConfig,
           \A r \in Ours(i) : /\ task'[runs[r].rt] = task[runs[r].rt]
                             /\ child'[runs[r].rt] = child[runs[r].rt]
                             /\ status'[runs[r].rt] = status[runs[r].rt]
    PROVE  InstanceInv(i)'
  <1>1. \A c \in Commands : c \in InProgress(i)' <=> c \in InProgress(i)
    BY DEF InProgress
  <1>2. \A c \in InProgress(i) : job'[c] = job[c] /\ c \in Commands
    BY DEF InProgress
  <1>3. InProgress(i)' = InProgress(i)
    BY <1>1 DEF InProgress
  <1>4. /\ Ours(i)' = Ours(i)
        /\ \A r \in Ours(i) : runs'[r] = runs[r] /\ runs[r].of = i
    BY DEF Ours
  <1>5. \A r \in Ours(i), c \in InProgress(i) : Storing(c, r)' <=> Storing(c, r)
    BY <1>2 DEF Storing, Doing
  <1>6. \A r \in Ours(i) :
            /\ Held(r)' <=> Held(r)
            /\ Shown(r)' <=> Shown(r)
            /\ Alive(r)' <=> Alive(r)
            /\ OnItsWay(r)' <=> OnItsWay(r)
    BY <1>4 DEF Held, Shown, Alive, OnItsWay
  <1>7. ASSUME NEW r \in Ours(i) PROVE RunInv(i, r)'
    <2>1. RunInv(i, r)
      BY DEF InstanceInv
    <2>2. runs'[r] = runs[r]
      BY <1>4
    <2>. QED BY <1>3, <1>4, <1>5, <1>6, <2>1, <2>2 DEF RunInv
  <1>8. ASSUME NEW c \in InProgress(i) PROVE JobInv(i, c)'
    <2>1. JobInv(i, c)
      BY DEF InstanceInv
    <2>2. job'[c] = job[c]
      BY <1>2
    <2>. QED BY <1>4, <1>6, <2>1, <2>2 DEF JobInv
  <1>. QED BY <1>3, <1>4, <1>7, <1>8 DEF InstanceInv

Unmoved(c) == \A d \in Commands \ {c} : job'[d] = job[d]

\* What a command on one instance leaves of another.
LEMMA OtherCommand ==
    ASSUME NEW i \in Ids, NEW c \in Commands, SlotInv, InstanceInv(i), NEW k \in Ids, k # i,
           job[c] # Idle => job[c].id = k, job'[c] # Idle => job'[c].id = k, Unmoved(c),
           DOMAIN runs \subseteq DOMAIN runs', 
           \A r \in DOMAIN runs' : runs'[r].of = i => r \in DOMAIN runs /\ runs'[r] = runs[r],
           \A r \in DOMAIN runs : runs[r].of = i => runs'[r] = runs[r],
           \A j \in Ids : j # k => entry'[j] = entry[j] /\ config'[j] = config[j],
           NEW o \in Runtimes,
           \/ o > objects
           \/ \A own \in [Runtimes -> Ids] : OwnInv(own) => own[o] = k,
           \A p \in Runtimes : p # o => /\ task'[p] = task[p] /\ child'[p] = child[p]
                                       /\ status'[p] = status[p]
    PROVE  InstanceInv(i)'
  <1>1. ASSUME NEW r \in Ours(i)
        PROVE  runs[r].rt \in Runtimes /\ runs[r].rt # o
    <2>1. PICK own \in [Runtimes -> Ids] : OwnInv(own)
      BY DEF SlotInv
    <2>2. runs[r].rt \in Runtimes /\ runs[r].rt <= objects /\ own[runs[r].rt] = i
      BY <2>1, OursOwn
    <2>3. objects \in Nat
      BY SupervisorBoundsAssumption DEF SlotInv, SupervisorTypeOK
    <2>4. CASE o > objects
      BY <2>2, <2>3, <2>4 DEF Runtimes
    <2>5. CASE own[o] = k
      BY <2>2, <2>5
    <2>. QED BY <2>1, <2>4, <2>5
  <1>2. \A d \in Commands : job[d] # Idle /\ job[d].id = i => job'[d] = job[d]
    BY DEF Unmoved
  <1>3. \A d \in Commands : job'[d] # Idle /\ job'[d].id = i => job'[d] = job[d]
    BY DEF Unmoved
  <1>. QED BY <1>1, <1>2, <1>3, Elsewhere

\* A command's step on its own instance that starts and stops nothing.
LEMMA OwnCommand ==
    ASSUME NEW i \in Ids, NEW c \in Commands, SlotInv, InstanceInv(i),
           job[c] # Idle, job[c].id = i, job[c].at # "store", Unmoved(c),
           job'[c] # Idle => job'[c].id = i /\ job'[c].at # "store" /\ JobInv(i, c)',
           UNCHANGED <<runs, task, child>>,
           UNCHANGED <<status, entry>> \/ \A r \in Ours(i) : ~Alive(r),
           config'[i] = NoConfig => entry'[i] = None
    PROVE  InstanceInv(i)'
  <1>1. InProgress(i) = {c}
    BY DEF InstanceInv, InProgress
  <1>2. InProgress(i)' \subseteq {c}
    BY <1>1 DEF InProgress, Unmoved
  <1>3. \A r \in Ours(i) : ~Storing(c, r)
    BY DEF Storing, Doing
  <1>4. Ours(i)' = Ours(i)
    BY DEF Ours
  <1>5. ASSUME NEW r \in Ours(i) PROVE RunInv(i, r)'
    <2>1. RunInv(i, r)
      BY DEF InstanceInv
    <2>2. ~OnItsWay(r) /\ (Alive(r) => Held(r))
      BY <1>1, <1>3, <2>1 DEF RunInv
    <2>3. ~OnItsWay(r)'
      BY <2>2 DEF OnItsWay
    <2>4. \A s : Alive(s)' <=> Alive(s)
      BY DEF Alive
    <2>5. Alive(r) => Held(r)' /\ (Shown(r)' <=> Shown(r))
      BY <2>2 DEF Held, Shown
    <2>6. \A s \in Ours(i) : Alive(r) /\ Alive(s) => s = r
      BY <2>1 DEF RunInv
    <2>. QED BY <1>4, <2>1, <2>3, <2>4, <2>5, <2>6 DEF RunInv
  <1>6. \A d \in InProgress(i)' : JobInv(i, d)'
    BY <1>2 DEF InProgress
  <1>. QED BY <1>2, <1>4, <1>5, <1>6 DEF InstanceInv

\* How a command begins.
Begins(c, i) ==
    /\ job[c] = Idle /\ Unmoved(c) /\ job'[c] # Idle /\ job'[c].id = i
    /\ \/ job'[c].at \in {"look", "kill", "ask"}
       \/ job'[c].at = "enter" /\ config[i] = NoConfig /\ config'[i] # NoConfig

\* A command that begins on an instance that is not busy finds every run held.
LEMMA OwnStart ==
    ASSUME NEW i \in Ids, NEW c \in Commands, SlotInv, InstanceInv(i), ~Busy(i), Begins(c, i),
           UNCHANGED <<runs, task, child, status, entry>>,
           config'[i] = NoConfig => config[i] = NoConfig
    PROVE  InstanceInv(i)'
  <1>1. /\ InProgress(i) = {}
        /\ \A r \in Ours(i) : ~OnItsWay(r)
    BY DEF Busy, Ours
  <1>2. InProgress(i)' = {c}
    BY <1>1 DEF InProgress, Unmoved, Begins
  <1>3. Ours(i)' = Ours(i)
    BY DEF Ours
  <1>4. \A r \in Ours(i) : Alive(r) => Held(r)
    BY <1>1 DEF InstanceInv, RunInv
  <1>5. \A r \in Ours(i) : RunInv(i, r)'
    <2>1. ASSUME NEW r \in Ours(i) PROVE RunInv(i, r)'
      <3>1. RunInv(i, r)
        BY DEF InstanceInv
      <3>2. ~OnItsWay(r)'
        BY <1>1 DEF OnItsWay
      <3>3. /\ Held(r)' <=> Held(r)
            /\ Shown(r)' <=> Shown(r)
        BY DEF Held, Shown
      <3>4. \A s : Alive(s)' <=> Alive(s)
        BY DEF Alive
      <3>. QED BY <1>3, <1>4, <3>1, <3>2, <3>3, <3>4 DEF RunInv
    <2>. QED BY <2>1
  <1>6. JobInv(i, c)'
    <2>1. CASE job'[c].at \in {"look", "kill", "ask"}
      BY <2>1 DEF JobInv
    <2>2. CASE job'[c].at = "enter" /\ config[i] = NoConfig /\ config'[i] # NoConfig
      <3>1. entry[i] = None
        BY <2>2 DEF InstanceInv
      <3>2. \A r \in Ours(i) : ~Alive(r)'
        BY <1>4, <3>1, OursOwn DEF Held, Alive
      <3>. QED BY <1>3, <2>2, <3>1, <3>2 DEF JobInv
    <2>. QED BY <2>1, <2>2 DEF Begins
  <1>7. config'[i] = NoConfig => entry'[i] = None
    BY DEF InstanceInv
  <1>. QED BY <1>2, <1>3, <1>5, <1>6, <1>7 DEF InstanceInv

\* What a start launches is alone: nothing of the instance went on.
LEMMA OwnLaunch ==
    ASSUME NEW i \in Ids, NEW c \in Commands, SlotInv, InstanceInv(i),
           LaunchTask(c) \/ LaunchChild(c), job[c].id = i
    PROVE  InstanceInv(i)'
  <1>1. /\ Doing(c, "launch") /\ job[c] # Idle /\ job[c] \in Job
        /\ UNCHANGED <<program, config, entry, task, child, others, objects, crossed, begun, flips>>
    BY DEF LaunchTask, LaunchChild, CommandOnly, slotVars, Doing, SlotInv, SupervisorTypeOK
  <1>2. \/ /\ Launched(c, "task", "queued") /\ status' = status
        \/ /\ Launched(c, "child", "starting")
           /\ status' = [status EXCEPT ![job[c].rt].running = TRUE, ![job[c].rt].port = job[c].cfg.port]
    <2>1. CASE LaunchTask(c)
      <3>1. Launched(c, "task", "queued")
        BY <1>1, <2>1, NewRunDoes DEF LaunchTask
      <3>. QED BY <2>1, <3>1 DEF LaunchTask
    <2>2. CASE LaunchChild(c)
      <3>1. Launched(c, "child", "starting")
        BY <1>1, <2>2, NewRunDoes DEF LaunchChild
      <3>. QED BY <2>2, <3>1 DEF LaunchChild
    <2>. QED BY <2>1, <2>2
  <1>3. PICK r \in Runs :
            /\ Moves(c, "store") /\ job'[c].rt = job[c].rt
            /\ r \notin DOMAIN runs /\ DOMAIN runs' = DOMAIN runs \cup {r}
            /\ job'[c].run = r
            /\ \A s \in DOMAIN runs : runs'[s] = runs[s]
            /\ runs'[r].of = i /\ runs'[r].rt = job[c].rt
            /\ runs'[r].port = job[c].cfg.port /\ ~runs'[r].aborted
            /\ \/ runs'[r].kind = "task" /\ runs'[r].at = "queued"
               \/ /\ runs'[r].kind = "child" /\ runs'[r].at = "starting"
                  /\ status' = [status EXCEPT ![job[c].rt].running = TRUE,
                                              ![job[c].rt].port = job[c].cfg.port]
    <2>1. CASE Launched(c, "task", "queued") /\ status' = status
      BY <2>1 DEF Launched
    <2>2. CASE /\ Launched(c, "child", "starting")
               /\ status' = [status EXCEPT ![job[c].rt].running = TRUE,
                                           ![job[c].rt].port = job[c].cfg.port]
      BY <2>2 DEF Launched
    <2>. QED BY <1>2, <2>1, <2>2
  <1>4. c \in InProgress(i) /\ InProgress(i) = {c}
    BY <1>1 DEF InstanceInv, InProgress
  <1>5. InProgress(i)' = {c}
    BY <1>3, <1>4 DEF InProgress, Moves
  <1>6. job[c].at = "launch" /\ JobInv(i, c)
    BY <1>1, <1>4 DEF Doing, InstanceInv
  <1>7. (\A s \in Ours(i) : ~Alive(s)) /\ job[c].rt = entry[i]
    BY <1>6 DEF JobInv
  <1>8. Ours(i)' = Ours(i) \cup {r} /\ r \notin Ours(i)
    BY <1>3 DEF Ours
  <1>9. \A s \in Ours(i) : runs'[s] = runs[s]
    BY <1>3 DEF Ours
  <1>10. Storing(c, r)'
    BY <1>3 DEF Storing, Doing, Moves
  <1>11. \A s \in Ours(i) : ~Alive(s)'
    BY <1>7, <1>9 DEF Alive
  <1>12. ASSUME NEW s \in Ours(i) PROVE RunInv(i, s)'
    <2>1. RunInv(i, s)
      BY DEF InstanceInv
    <2>2. ~Storing(c, s)
      BY <1>6 DEF Storing, Doing
    <2>3. ~OnItsWay(s)
      BY <1>4, <2>1, <2>2 DEF RunInv
    <2>4. ~OnItsWay(s)'
      BY <1>9, <2>3 DEF OnItsWay
    <2>. QED BY <1>9, <1>11, <2>1, <2>4 DEF RunInv
  <1>13. RunInv(i, r)'
    <2>1. runs'[r].at # "queued" => Shown(r)'
      <3>1. CASE runs'[r].at = "queued"
        BY <3>1
      <3>2. CASE runs'[r].at # "queued"
        <4>1. job[c].rt \in Runtimes /\ status \in [Runtimes -> Status]
          BY <1>1 DEF Doing, SlotInv, SupervisorTypeOK, Job
        <4>2. status' = [status EXCEPT ![job[c].rt].running = TRUE,
                                      ![job[c].rt].port = job[c].cfg.port]
          BY <1>3, <3>2
        <4>3. status' = [status EXCEPT ![job[c].rt] = [[status[job[c].rt] EXCEPT !.running = TRUE]
                                                                         EXCEPT !.port = job[c].cfg.port]]
          BY <4>1, <4>2
        <4>4. status'[job[c].rt] = [[status[job[c].rt] EXCEPT !.running = TRUE]
                                                      EXCEPT !.port = job[c].cfg.port]
          BY <4>1, <4>3
        <4>5. status[job[c].rt] \in Status
          BY <4>1
        <4>6. status'[job[c].rt].running /\ status'[job[c].rt].port = job[c].cfg.port
          BY <4>4, <4>5 DEF Status
        <4>. QED BY <1>3, <4>6 DEF Shown
      <3>. QED BY <3>1, <3>2
    <2>2. \A s \in Ours(i)' : Alive(s)' => s = r
      BY <1>8, <1>11
    <2>. QED BY <1>3, <1>5, <1>10, <2>1, <2>2 DEF RunInv
  <1>14. JobInv(i, c)'
    <2>1. job'[c].at = "store" /\ job'[c].rt = entry'[i] /\ job'[c].run = r
      BY <1>1, <1>3, <1>7 DEF Moves
    <2>. QED BY <1>8, <1>11, <2>1 DEF JobInv
  <1>15. config'[i] = NoConfig => entry'[i] = None
    BY <1>1 DEF InstanceInv
  <1>. QED BY <1>5, <1>8, <1>12, <1>13, <1>14, <1>15 DEF InstanceInv

\* Once stored, the run is held.
LEMMA OwnStore ==
    ASSUME NEW i \in Ids, NEW c \in Commands, SlotInv, InstanceInv(i), Store(c), job[c].id = i
    PROVE  InstanceInv(i)'
  <1>1. /\ Quiet(c, "store") /\ Ends(c)
        /\ UNCHANGED <<config, entry, status, runs, objects>>
        /\ \/ task' = [task EXCEPT ![job[c].rt] = job[c].run]
           \/ child' = [child EXCEPT ![job[c].rt] = job[c].run]
    BY StoreDoes
  <1>2. c \in InProgress(i) /\ InProgress(i) = {c}
    BY <1>1 DEF InstanceInv, InProgress, Quiet, Doing
  <1>3. InProgress(i)' = {}
    BY <1>1, <1>2 DEF InProgress, Ends
  <1>4. job[c].at = "store" /\ JobInv(i, c) /\ job[c].rt \in Runtimes
    BY <1>1, <1>2 DEF Quiet, Doing, InstanceInv, SlotInv, SupervisorTypeOK, Job
  <1>5. job[c].rt = entry[i] /\ \A r \in Ours(i) : Alive(r) => r = job[c].run
    BY <1>4 DEF JobInv
  <1>6. runs[job[c].run].rt = job[c].rt
    BY <1>1, <1>4 DEF Quiet, Doing, SlotInv, HandleInv
  <1>7. /\ task \in [Runtimes -> Runs \cup {None}] /\ child \in [Runtimes -> Runs \cup {None}]
    BY DEF SlotInv, SupervisorTypeOK
  <1>8. job[c].run \in {task'[job[c].rt], child'[job[c].rt]}
    BY <1>1, <1>4, <1>7
  <1>9. Ours(i)' = Ours(i)
    BY <1>1 DEF Ours
  <1>10. ASSUME NEW r \in Ours(i) PROVE RunInv(i, r)'
    <2>1. RunInv(i, r)
      BY DEF InstanceInv
    <2>2. \A s : Alive(s)' <=> Alive(s)
      BY <1>1 DEF Alive
    <2>3. Shown(r)' <=> Shown(r)
      BY <1>1 DEF Shown
    <2>4. Alive(r) => Held(r)'
      <3>1. runs[r].of = i
        BY DEF Ours
      <3>. QED BY <1>1, <1>5, <1>6, <1>8, <3>1 DEF Held
    <2>. QED BY <1>1, <1>3, <1>9, <2>1, <2>2, <2>3, <2>4 DEF RunInv
  <1>11. config'[i] = NoConfig => entry'[i] = None
    BY <1>1 DEF InstanceInv
  <1>. QED BY <1>3, <1>9, <1>10, <1>11 DEF InstanceInv

\* After a kill nothing of the instance goes on: whatever did was held.
LEMMA OwnKill ==
    ASSUME NEW i \in Ids, NEW c \in Commands, SlotInv, InstanceInv(i), Quiet(c, "kill"),
           job[c].id = i, entry[i] \in Runtimes, Kills(entry[i]),
           UNCHANGED <<config, entry, status>>,
           \/ Moves(c, "mark") /\ job'[c].rt = entry[i]
           \/ Moves(c, "remove")
    PROVE  InstanceInv(i)'
  <1>. DEFINE o == entry[i]
  <1>1. c \in InProgress(i) /\ InProgress(i) = {c}
    BY DEF InstanceInv, InProgress, Quiet, Doing
  <1>2. InProgress(i)' = {c}
    BY <1>1 DEF InProgress, Moves
  <1>3. ASSUME NEW r \in Ours(i)
        PROVE  /\ runs'[r].of = i /\ r \in DOMAIN runs
               /\ ~Alive(r)' /\ ~OnItsWay(r)'
               /\ runs'[r].aborted => runs'[r].at \in {"serving", "gone"}
    <2>1. RunInv(i, r) /\ r \in DOMAIN runs /\ runs[r] \in Run /\ runs[r].of = i
      BY OursOwn DEF InstanceInv
    <2>2. ~Storing(c, r)
      BY DEF Quiet, Doing, Storing
    <2>3. ~OnItsWay(r) /\ (Alive(r) => Held(r))
      BY <1>1, <2>1, <2>2 DEF RunInv
    <2>4. r = task[o] => runs[r].at \in {"serving", "gone"}
      <3>1. ASSUME r = task[o] PROVE runs[r].kind = "task" /\ runs[r].at # "starting"
        <4>1. r # None
          BY <2>1 DEF SlotInv, SupervisorTypeOK, Runs, None
        <4>. QED BY <2>1, <3>1, <4>1 DEF SlotInv, HandleInv
      <3>2. runs[r].kind = "task" => runs[r].at \notin {"queued", "binding", "ending"}
        BY <2>3 DEF OnItsWay
      <3>. QED BY <2>1, <3>1, <3>2 DEF Run
    <2>5. CASE r = child[o]
      <3>1. runs'[r] = [runs[r] EXCEPT !.at = "gone"]
        BY <2>1, <2>5 DEF Kills
      <3>. QED BY <2>1, <3>1 DEF Run, Alive, OnItsWay
    <2>6. CASE r # child[o] /\ r = task[o]
      <3>1. runs'[r] = [runs[r] EXCEPT !.aborted = TRUE]
        BY <2>1, <2>6 DEF Kills
      <3>. QED BY <2>1, <2>4, <2>6, <3>1 DEF Run, Alive, OnItsWay
    <2>7. CASE r # child[o] /\ r # task[o]
      <3>1. runs'[r] = runs[r]
        BY <2>1, <2>7 DEF Kills
      <3>2. ~Held(r)
        BY <2>1, <2>7 DEF Held
      <3>3. ~Alive(r)
        BY <2>3, <3>2
      <3>4. ~Alive(r)' /\ ~OnItsWay(r)'
        BY <2>3, <3>1, <3>3 DEF Alive, OnItsWay
      <3>. QED BY <2>1, <3>1, <3>4 DEF RunInv
    <2>. QED BY <2>5, <2>6, <2>7
  <1>4. Ours(i)' = Ours(i)
    <2>1. ASSUME NEW s \in DOMAIN runs PROVE runs'[s].of = runs[s].of
      <3>1. \/ runs'[s] = [runs[s] EXCEPT !.at = "gone"]
            \/ runs'[s] = [runs[s] EXCEPT !.aborted = TRUE]
            \/ runs'[s] = runs[s]
        BY DEF Kills
      <3>2. runs[s] \in Run
        BY DEF SlotInv, SupervisorTypeOK
      <3>. QED BY <3>1, <3>2 DEF Run
    <2>. QED BY <2>1 DEF Ours, Kills
  <1>5. \A r \in Ours(i) : RunInv(i, r)'
    BY <1>3 DEF RunInv
  <1>6. JobInv(i, c)'
    BY <1>3, <1>4 DEF JobInv, Moves
  <1>7. config'[i] = NoConfig => entry'[i] = None
    BY DEF InstanceInv
  <1>. QED BY <1>2, <1>4, <1>5, <1>6, <1>7 DEF InstanceInv

\* A run is the only one of its instance that goes on, so that what it does to the status
\* of its object takes nothing from another.
LEMMA OwnRun ==
    ASSUME NEW i \in Ids, NEW r \in Ours(i), SlotInv, InstanceInv(i), RunStep(r), i \notin crossed'
    PROVE  InstanceInv(i)'
  <1>1. r \in DOMAIN runs /\ runs[r] \in Run /\ runs[r].of = i /\ runs[r].rt \in Runtimes
        /\ RunInv(i, r)
    BY OursOwn DEF InstanceInv
  <1>2. /\ UNCHANGED <<config, entry, task, child, job>>
        /\ \/ status' = status
           \/ TaskBegins(r)
              /\ status' = [status EXCEPT ![runs[r].rt] =
                     [[status[runs[r].rt] EXCEPT !.running = TRUE] EXCEPT !.port = runs[r].port]]
           \/ TaskEnds(r)
              /\ status' = [status EXCEPT ![runs[r].rt] =
                     [status[runs[r].rt] EXCEPT !.running = FALSE]]
    BY <1>1, RunDoes
  <1>3. PICK at \in {"binding", "serving", "ending", "gone"} : runs' = [runs EXCEPT ![r].at = at]
    BY <1>1, RunDoes
  <1>4. /\ DOMAIN runs' = DOMAIN runs /\ runs'[r] = [runs[r] EXCEPT !.at = at]
        /\ \A s \in DOMAIN runs : s # r => runs'[s] = runs[s]
    BY <1>1, <1>3
  <1>5. /\ runs'[r].at = at /\ runs'[r].kind = runs[r].kind /\ runs'[r].of = i
        /\ runs'[r].rt = runs[r].rt /\ runs'[r].port = runs[r].port
        /\ runs'[r].aborted = runs[r].aborted
    BY <1>1, <1>4 DEF Run
  <1>6. Ours(i)' = Ours(i) /\ InProgress(i)' = InProgress(i)
    <2>1. \A s \in DOMAIN runs : runs'[s].of = i <=> runs[s].of = i
      BY <1>1, <1>4, <1>5
    <2>. QED BY <1>2, <1>4, <2>1 DEF Ours, InProgress
  <1>7. \A s \in Ours(i) : s # r => s \in DOMAIN runs /\ runs'[s] = runs[s]
    BY <1>4 DEF Ours
  <1>8. \A s \in Ours(i) :
            /\ \A c \in InProgress(i) : Storing(c, s)' <=> Storing(c, s)
            /\ Held(s)' <=> Held(s)
    BY <1>1, <1>2, <1>5, <1>7 DEF Held, Storing, Doing
  <1>9. /\ runs[r].at # "gone"
        /\ \/ runs[r].at = "queued" /\ ~runs[r].aborted /\ at = "binding" /\ TaskBegins(r)
           \/ runs[r].at = "binding" /\ at \in {"ending", "gone", "serving"} /\ status' = status
           \/ /\ runs[r].kind = "task" /\ runs[r].at = "serving" /\ ~runs[r].aborted
              /\ at = "ending"
              /\ InProgress(i) = {} /\ status' = status
           \/ runs[r].at \in {"ending", "queued", "serving"} /\ at = "gone"
           \/ runs[r].at = "starting" /\ at \in {"gone", "serving"} /\ status' = status
    <2>0. \A b : To(r, b) => runs'[r].at = b
      BY <1>1 DEF To, Run
    <2>1. CASE TaskBegins(r)
      BY <1>5, <2>0, <2>1 DEF TaskBegins
    <2>2. CASE Bind(r)
      BY <1>5, <2>0, <2>2 DEF Bind
    <2>3. CASE Shutdown(r)
      BY <1>1, <1>5, <2>0, <2>3 DEF Shutdown
    <2>4. CASE TaskEnds(r)
      BY <1>5, <2>0, <2>4 DEF TaskEnds
    <2>5. CASE Dropped(r)
      BY <1>5, <2>0, <2>5 DEF Dropped
    <2>6. CASE ChildListens(r)
      BY <1>5, <2>0, <2>6 DEF ChildListens
    <2>7. CASE ChildExits(r)
      BY <1>5, <2>0, <2>7 DEF ChildExits
    <2>. QED BY <2>1, <2>2, <2>3, <2>4, <2>5, <2>6, <2>7 DEF RunStep
  <1>10. \A s \in Ours(i) : Alive(s)' => Alive(s)
    BY <1>5, <1>7, <1>9 DEF Alive
  <1>11. TaskBegins(r) \/ TaskEnds(r) => Alive(r)
    BY <1>1 DEF TaskBegins, TaskEnds, Alive, RunInv
  <1>12. ASSUME NEW s \in Ours(i), s # r PROVE RunInv(i, s)'
    <2>1. RunInv(i, s) /\ runs'[s] = runs[s]
      BY <1>7, <1>12 DEF InstanceInv
    <2>2. /\ Alive(s)' <=> Alive(s)
          /\ OnItsWay(s)' <=> OnItsWay(s)
      BY <2>1 DEF Alive, OnItsWay
    <2>3. Alive(s) => status' = status
      BY <1>1, <1>2, <1>11, <1>12 DEF RunInv
    <2>4. Alive(s) => (Shown(s)' <=> Shown(s))
      BY <2>1, <2>3 DEF Shown
    <2>5. \A x \in Ours(i) : Alive(s) /\ Alive(x)' => x = s
      BY <1>10, <2>1 DEF RunInv
    <2>. QED BY <1>6, <1>8, <1>12, <2>1, <2>2, <2>4, <2>5 DEF RunInv
  <1>13. RunInv(i, r)'
    <2>1. runs'[r].aborted => runs'[r].at \in {"serving", "gone"}
      BY <1>1, <1>5, <1>9 DEF RunInv
    <2>2. OnItsWay(r)' => \A c \in InProgress(i) : Storing(c, r)
      <3>1. CASE OnItsWay(r)
        BY <1>1, <3>1 DEF RunInv
      <3>2. CASE ~OnItsWay(r)
        BY <1>1, <1>5, <1>9, <3>2 DEF OnItsWay
      <3>. QED BY <3>1, <3>2
    <2>3. Alive(r)' => Shown(r)'
      <3>1. CASE TaskBegins(r)
        <4>1. status \in [Runtimes -> Status]
          BY DEF SlotInv, SupervisorTypeOK
        <4>2. status' = [status EXCEPT ![runs[r].rt] =
                [[status[runs[r].rt] EXCEPT !.running = TRUE] EXCEPT !.port = runs[r].port]]
          <5>1. status' = [status EXCEPT ![runs[r].rt].running = TRUE,
                                         ![runs[r].rt].port = runs[r].port]
            BY <3>1 DEF TaskBegins
          <5>. QED BY <1>1, <4>1, <5>1
        <4>3. status'[runs[r].rt] = [[status[runs[r].rt] EXCEPT !.running = TRUE]
                                                         EXCEPT !.port = runs[r].port]
          BY <1>1, <4>1, <4>2
        <4>4. status[runs[r].rt] \in Status
          BY <1>1, <4>1
        <4>5. status'[runs[r].rt].running /\ status'[runs[r].rt].port = runs[r].port
          BY <4>3, <4>4 DEF Status
        <4>. QED BY <1>5, <4>5 DEF Shown
      <3>2. CASE ~TaskBegins(r)
        <4>1. SUFFICES ASSUME Alive(r)' PROVE Shown(r)'
          OBVIOUS
        <4>2. at # "gone" /\ Alive(r)
          BY <1>1, <1>5, <1>10, <4>1 DEF Alive
        <4>3. status' = status /\ runs[r].at # "queued"
          BY <1>9, <3>2, <4>2
        <4>4. Shown(r)
          BY <1>1, <4>2, <4>3 DEF RunInv
        <4>. QED BY <1>5, <4>3, <4>4 DEF Shown
      <3>. QED BY <3>1, <3>2
    <2>4. \A s \in Ours(i) : Alive(r)' /\ Alive(s)' => s = r
      BY <1>1, <1>10 DEF RunInv
    <2>5. Alive(r)' => Held(r) \/ \E c \in InProgress(i) : Storing(c, r)
      BY <1>1, <1>10 DEF RunInv
    <2>. QED BY <1>6, <1>8, <2>1, <2>2, <2>3, <2>4, <2>5 DEF RunInv
  <1>14. ASSUME NEW c \in InProgress(i) PROVE JobInv(i, c)'
    <2>1. JobInv(i, c)
      BY DEF InstanceInv
    <2>. QED BY <1>2, <1>6, <1>10, <2>1 DEF JobInv
  <1>15. /\ \A c, d \in InProgress(i)' : c = d
         /\ config'[i] = NoConfig => entry'[i] = None
    BY <1>2, <1>6 DEF InstanceInv
  <1>. QED BY <1>6, <1>12, <1>13, <1>14, <1>15 DEF InstanceInv

\* What a run of another instance does.
LEMMA OtherRun ==
    ASSUME NEW i \in Ids, NEW r \in DOMAIN runs, SlotInv, InstanceInv(i), RunStep(r), runs[r].of # i
    PROVE  InstanceInv(i)'
  <1>1. /\ UNCHANGED <<config, entry, task, child, job>>
        /\ runs[r].rt \in Runtimes
        /\ \/ status' = status
           \/ status' = [status EXCEPT ![runs[r].rt] =
                     [[status[runs[r].rt] EXCEPT !.running = TRUE] EXCEPT !.port = runs[r].port]]
           \/ status' = [status EXCEPT ![runs[r].rt] =
                     [status[runs[r].rt] EXCEPT !.running = FALSE]]
    BY RunDoes
  <1>2. PICK at \in {"binding", "serving", "ending", "gone"} : runs' = [runs EXCEPT ![r].at = at]
    BY RunDoes
  <1>3. runs[r] \in Run /\ status \in [Runtimes -> Status]
    BY DEF SlotInv, SupervisorTypeOK
  <1>4. /\ DOMAIN runs' = DOMAIN runs /\ runs'[r] = [runs[r] EXCEPT !.at = at]
        /\ \A s \in DOMAIN runs : s # r => runs'[s] = runs[s]
    BY <1>2
  <1>5. runs'[r].of = runs[r].of
    BY <1>3, <1>4 DEF Run
  <1>6. PICK own \in [Runtimes -> Ids] : OwnInv(own)
    BY DEF SlotInv
  <1>7. ASSUME NEW s \in Ours(i) PROVE status'[runs[s].rt] = status[runs[s].rt]
    <2>1. runs[s].rt \in Runtimes /\ own[runs[s].rt] = i
      BY <1>6, OursOwn
    <2>2. own[runs[r].rt] = runs[r].of
      BY <1>6 DEF OwnInv
    <2>3. runs[s].rt # runs[r].rt
      BY <2>1, <2>2
    <2>. QED BY <1>1, <1>3, <2>1, <2>3
  <1>8. /\ \A s \in DOMAIN runs' : runs'[s].of = i => s \in DOMAIN runs /\ runs'[s] = runs[s]
        /\ \A s \in DOMAIN runs : runs[s].of = i => runs'[s] = runs[s]
    BY <1>4, <1>5
  <1>. QED BY <1>1, <1>4, <1>7, <1>8, Elsewhere

\* A command's step keeps what holds of the instance it is on.
LEMMA CommandKeepsOwn ==
    ASSUME NEW i \in Ids, NEW c \in Commands, SlotInv, InstanceInv(i), CommandStep(c), job[c].id = i
    PROVE  InstanceInv(i)'
  <1>1. job[c] # Idle /\ job[c] \in Job /\ c \in InProgress(i) /\ JobInv(i, c)
    <2>1. job[c] # Idle
      BY DEF CommandStep, Look, LaunchTask, LaunchChild, LaunchFails, Store, Kill, Mark,
             KillForDelete, Remove, Forget, Ask, WriteAnswer, NotSaved, EnterInstance, Doing
    <2>. QED BY <2>1 DEF SlotInv, SupervisorTypeOK, InProgress, InstanceInv
  <1>2. /\ status \in [Runtimes -> Status] /\ entry \in [Ids -> Runtimes \cup {None}]
        /\ config \in [Ids -> Config \cup {NoConfig}]
    BY DEF SlotInv, SupervisorTypeOK
  <1>3. config[i] = NoConfig => entry[i] = None
    BY DEF InstanceInv
  <1>4. \A r \in Ours(i) : Alive(r) /\ job[c].at # "store" => Held(r) /\ Shown(r)
    <2>1. ASSUME NEW r \in Ours(i), Alive(r), job[c].at # "store" PROVE Held(r) /\ Shown(r)
      <3>1. \A d \in InProgress(i) : ~Storing(d, r)
        BY <1>1, <2>1 DEF InstanceInv, Storing, Doing
      <3>2. RunInv(i, r)
        BY DEF InstanceInv
      <3>3. ~OnItsWay(r) /\ Held(r) /\ (runs[r].at # "queued" => Shown(r))
        BY <1>1, <2>1, <3>1, <3>2 DEF RunInv
      <3>4. runs[r].at # "queued"
        BY <3>3, OursOwn DEF OnItsWay, SlotInv, HandleInv, Run
      <3>. QED BY <3>3, <3>4
    <2>. QED BY <2>1
  <1>5. \A r \in Ours(i) : Alive(r) /\ job[c].at # "store" =>
            entry[i] = runs[r].rt /\ entry[i] # None /\ r # None
    BY <1>4, OursOwn DEF Held, SlotInv, SupervisorTypeOK, Runs, None
  <1>6. ASSUME Ends(c), job[c].at # "store", UNCHANGED <<config, entry, status, runs, task, child>>
        PROVE  InstanceInv(i)'
    BY <1>1, <1>3, <1>6, OwnCommand DEF Ends, Unmoved
  <1>7. CASE Look(c)
    <2>1. CASE Ends(c)
      BY <1>6, <1>7, <2>1, LookDoes DEF Doing
    <2>2. CASE ~Ends(c)
      <3>1. /\ Doing(c, "look")
            /\ UNCHANGED <<config, entry, status, task, child, runs>>
            /\ Moves(c, "launch") /\ job'[c].rt = entry[i] /\ ~status[entry[i]].running
        BY <1>7, <2>2, LookDoes
      <3>2. \A r \in Ours(i) : ~Alive(r)
        BY <1>4, <1>5, <3>1 DEF Shown, Doing
      <3>3. JobInv(i, c)'
        <4>1. \A r \in Ours(i)' : ~Alive(r)'
          BY <3>1, <3>2 DEF Ours, Alive
        <4>. QED BY <3>1, <4>1 DEF JobInv, Moves
      <3>. QED BY <1>1, <1>3, <3>1, <3>3, OwnCommand DEF Moves, Unmoved, Doing
    <2>. QED BY <2>1, <2>2
  <1>8. CASE LaunchTask(c) \/ LaunchChild(c)
    BY <1>8, OwnLaunch
  <1>9. CASE LaunchFails(c)
    BY <1>6, <1>9, LaunchFailsDoes DEF Quiet, Doing
  <1>10. CASE Store(c)
    BY <1>10, OwnStore
  <1>11. CASE Kill(c)
    <2>1. /\ Quiet(c, "kill") /\ UNCHANGED <<config, entry, status>>
          /\ \/ /\ Ends(c) /\ UNCHANGED <<runs, task, child>>
             \/ /\ entry[i] \in Runtimes /\ Kills(entry[i])
                /\ Moves(c, "mark") /\ job'[c].rt = entry[i]
      BY <1>11, KillDoes
    <2>2. CASE Ends(c) /\ UNCHANGED <<runs, task, child>>
      BY <1>6, <2>1, <2>2 DEF Quiet, Doing
    <2>3. CASE /\ entry[i] \in Runtimes /\ Kills(entry[i])
               /\ Moves(c, "mark") /\ job'[c].rt = entry[i]
      BY <2>1, <2>3, OwnKill
    <2>. QED BY <2>1, <2>2, <2>3
  <1>12. CASE Mark(c)
    <2>1. /\ Quiet(c, "mark") /\ UNCHANGED <<config, entry, task, child, runs>>
          /\ Ends(c) \/ Moves(c, "look")
      BY <1>12, MarkDoes
    <2>2. \A r \in Ours(i) : ~Alive(r)
      BY <1>1, <2>1 DEF JobInv, Quiet, Doing
    <2>3. job'[c] # Idle => job'[c].id = i /\ job'[c].at = "look"
      BY <2>1 DEF Ends, Moves
    <2>4. Unmoved(c) /\ (job'[c] # Idle => JobInv(i, c)')
      BY <2>1, <2>3 DEF Ends, Moves, Unmoved, JobInv
    <2>. QED BY <1>1, <1>3, <2>1, <2>2, <2>3, <2>4, OwnCommand DEF Quiet, Doing
  <1>13. CASE KillForDelete(c)
    <2>1. /\ Quiet(c, "kill") /\ UNCHANGED <<config, entry, status>> /\ Moves(c, "remove")
          /\ \/ entry[i] = None /\ UNCHANGED <<runs, task, child>>
             \/ entry[i] \in Runtimes /\ Kills(entry[i])
      BY <1>13, KillForDeleteDoes
    <2>2. CASE entry[i] = None /\ UNCHANGED <<runs, task, child>>
      <3>1. \A r \in Ours(i)' : ~Alive(r)'
        BY <1>5, <2>1, <2>2 DEF Ours, Alive, Quiet, Doing
      <3>2. JobInv(i, c)'
        BY <2>1, <3>1 DEF JobInv, Moves
      <3>. QED BY <1>1, <1>3, <2>1, <2>2, <3>2, OwnCommand DEF Moves, Unmoved, Quiet, Doing
    <2>3. CASE entry[i] \in Runtimes /\ Kills(entry[i])
      BY <2>1, <2>3, OwnKill
    <2>. QED BY <2>1, <2>2, <2>3
  <1>14. CASE Remove(c)
    <2>1. /\ Quiet(c, "remove") /\ Moves(c, "forget")
          /\ entry' = [entry EXCEPT ![i] = None] /\ UNCHANGED <<task, child, runs>>
      BY <1>14, RemoveDoes
    <2>2. \A r \in Ours(i) : ~Alive(r)
      BY <1>1, <2>1 DEF JobInv, Quiet, Doing
    <2>3. \A r \in Ours(i)' : ~Alive(r)'
      BY <2>1, <2>2 DEF Ours, Alive
    <2>4. entry'[i] = None
      BY <1>2, <2>1
    <2>5. JobInv(i, c)'
      BY <2>1, <2>3, <2>4 DEF JobInv, Moves
    <2>. QED BY <1>1, <2>1, <2>2, <2>4, <2>5, OwnCommand DEF Moves, Unmoved, Quiet, Doing
  <1>15. CASE Forget(c)
    <2>1. /\ Quiet(c, "forget") /\ Ends(c) /\ UNCHANGED <<entry, status, task, child, runs>>
      BY <1>15, ForgetDoes
    <2>2. entry'[i] = None
      BY <1>1, <2>1 DEF JobInv, Quiet, Doing
    <2>. QED BY <1>1, <2>1, <2>2, OwnCommand DEF Ends, Unmoved, Quiet, Doing
  <1>16. CASE Ask(c)
    <2>1. /\ Quiet(c, "ask") /\ UNCHANGED <<config, entry, status, task, child, runs>>
          /\ \/ Ends(c)
             \/ /\ Moves(c, "write")
                /\ entry[i] # None => task[entry[i]] = None /\ child[entry[i]] = None
      BY <1>16, AskDoes
    <2>2. CASE Ends(c)
      BY <1>6, <2>1, <2>2 DEF Quiet, Doing
    <2>3. CASE ~Ends(c)
      <3>1. \A r \in Ours(i) : ~Alive(r)
        BY <1>4, <1>5, <2>1, <2>3 DEF Held, Quiet, Doing
      <3>2. \A r \in Ours(i)' : ~Alive(r)'
        BY <2>1, <3>1 DEF Ours, Alive
      <3>3. JobInv(i, c)'
        BY <2>1, <2>3, <3>2 DEF JobInv, Moves
      <3>. QED BY <1>1, <1>3, <2>1, <2>3, <3>3, OwnCommand DEF Moves, Unmoved, Quiet, Doing
    <2>. QED BY <2>2, <2>3
  <1>17. CASE WriteAnswer(c)
    <2>1. /\ Quiet(c, "write") /\ Ends(c) /\ UNCHANGED <<config, entry, task, child, runs>>
      BY <1>17, WriteDoes
    <2>2. \A r \in Ours(i) : ~Alive(r)
      BY <1>1, <2>1 DEF JobInv, Quiet, Doing
    <2>. QED BY <1>1, <1>3, <2>1, <2>2, OwnCommand DEF Ends, Unmoved, Quiet, Doing
  <1>18. CASE NotSaved(c)
    BY <1>6, <1>18, NotSavedDoes DEF Quiet, Doing
  <1>19. CASE EnterInstance(c)
    <2>1. /\ Quiet(c, "enter") /\ Ends(c) /\ UNCHANGED <<config, task, child, runs>>
      BY <1>19, EnterDoes
    <2>2. (\A r \in Ours(i) : ~Alive(r)) /\ config'[i] # NoConfig
      BY <1>1, <2>1 DEF JobInv, Quiet, Doing
    <2>. QED BY <1>1, <2>1, <2>2, OwnCommand DEF Ends, Unmoved, Quiet, Doing
  <1>. QED
    BY <1>7, <1>8, <1>9, <1>10, <1>11, <1>12, <1>13, <1>14, <1>15, <1>16, <1>17, <1>18, <1>19
    DEF CommandStep

\* A command's step leaves the other instances as they are.
LEMMA CommandKeepsOther ==
    ASSUME NEW i \in Ids, NEW c \in Commands, SlotInv, InstanceInv(i), CommandStep(c), job[c].id # i
    PROVE  InstanceInv(i)'
  <1>. DEFINE k == job[c].id
  <1>1. job[c] # Idle /\ job[c] \in Job /\ k \in Ids
    <2>1. job[c] # Idle
      BY DEF CommandStep, Look, LaunchTask, LaunchChild, LaunchFails, Store, Kill, Mark,
             KillForDelete, Remove, Forget, Ask, WriteAnswer, NotSaved, EnterInstance, Doing
    <2>. QED BY <2>1 DEF SlotInv, SupervisorTypeOK, Job
  <1>2. /\ status \in [Runtimes -> Status] /\ entry \in [Ids -> Runtimes \cup {None}]
        /\ config \in [Ids -> Config \cup {NoConfig}]
        /\ task \in [Runtimes -> Runs \cup {None}] /\ child \in [Runtimes -> Runs \cup {None}]
    BY DEF SlotInv, SupervisorTypeOK
  <1>3. /\ job[c].rt # None => /\ job[c].rt \in Runtimes
                               /\ \A own \in [Runtimes -> Ids] : OwnInv(own) => own[job[c].rt] = k
        /\ entry[k] # None => /\ entry[k] \in Runtimes
                              /\ \A own \in [Runtimes -> Ids] : OwnInv(own) => own[entry[k]] = k
    BY <1>1, <1>2, JobOwns DEF Job
  <1>. HIDE DEF k
  <1>4. ASSUME \/ Ends(c)
               \/ \E at : Moves(c, at)
        PROVE  Unmoved(c) /\ (job'[c] # Idle => job'[c].id = k)
    BY <1>4 DEF Ends, Moves, Unmoved, k
  <1>5. ASSUME \/ Ends(c)
               \/ \E at : Moves(c, at),
               UNCHANGED <<status, runs, task, child>>,
               \A j \in Ids : j # k => entry'[j] = entry[j] /\ config'[j] = config[j]
        PROVE  InstanceInv(i)'
    <2>1. \A d \in Commands : job[d] # Idle /\ job[d].id = i => job'[d] = job[d]
      BY <1>4, <1>5 DEF Unmoved, k
    <2>2. \A d \in Commands : job'[d] # Idle /\ job'[d].id = i => job'[d] = job[d]
      BY <1>4, <1>5 DEF Unmoved, k
    <2>3. entry'[i] = entry[i] /\ config'[i] = config[i]
      BY <1>5 DEF k
    <2>. QED BY <1>5, <2>1, <2>2, <2>3, Elsewhere
  <1>6. ASSUME \/ Ends(c)
               \/ \E at : Moves(c, at),
               UNCHANGED <<runs, task, child>>, NEW o \in Runtimes, NEW s \in Status,
               status' = [status EXCEPT ![o] = s],
               \/ o > objects
               \/ \A own \in [Runtimes -> Ids] : OwnInv(own) => own[o] = k,
               \A j \in Ids : j # k => entry'[j] = entry[j] /\ config'[j] = config[j]
        PROVE  InstanceInv(i)'
    <2>1. \A p \in Runtimes : p # o => /\ task'[p] = task[p] /\ child'[p] = child[p]
                                       /\ status'[p] = status[p]
      BY <1>2, <1>6
    <2>2. Unmoved(c) /\ (job'[c] # Idle => job'[c].id = k)
      BY <1>4, <1>6
    <2>3. k # i /\ (job[c] # Idle => job[c].id = k)
      BY DEF k
    <2>. QED BY <1>1, <1>6, <2>1, <2>2, <2>3, OtherCommand
  <1>7. ASSUME NEW o \in Runtimes, Kills(o), UNCHANGED <<config, entry, status>>,
               \A own \in [Runtimes -> Ids] : OwnInv(own) => own[o] = k,
               Unmoved(c), job'[c] # Idle => job'[c].id = k
        PROVE  InstanceInv(i)'
    <2>1. \A p \in Runtimes : p # o => /\ task'[p] = task[p] /\ child'[p] = child[p]
                                       /\ status'[p] = status[p]
      BY <1>2, <1>7 DEF Kills
    <2>2. PICK own \in [Runtimes -> Ids] : OwnInv(own)
      BY DEF SlotInv
    <2>3. ASSUME NEW r \in DOMAIN runs, runs[r].of # k PROVE runs'[r] = runs[r]
      <3>1. own[runs[r].rt] = runs[r].of
        BY <2>2 DEF OwnInv
      <3>2. runs[r].rt # o
        BY <1>7, <2>2, <2>3, <3>1
      <3>3. r # None
        BY DEF SlotInv, SupervisorTypeOK, Runs, None
      <3>4. r # task[o] /\ r # child[o]
        BY <3>2, <3>3 DEF SlotInv, HandleInv
      <3>. QED BY <1>7, <3>4 DEF Kills
    <2>4. ASSUME NEW r \in DOMAIN runs PROVE runs'[r].of = runs[r].of
      <3>1. \/ runs'[r] = [runs[r] EXCEPT !.at = "gone"]
            \/ runs'[r] = [runs[r] EXCEPT !.aborted = TRUE]
            \/ runs'[r] = runs[r]
        BY <1>7 DEF Kills
      <3>2. runs[r] \in Run
        BY DEF SlotInv, SupervisorTypeOK
      <3>. QED BY <3>1, <3>2 DEF Run
    <2>5. DOMAIN runs' = DOMAIN runs /\ k # i /\ (job[c] # Idle => job[c].id = k)
      BY <1>7 DEF Kills, k
    <2>6. /\ \A r \in DOMAIN runs' : runs'[r].of = i => r \in DOMAIN runs /\ runs'[r] = runs[r]
          /\ \A r \in DOMAIN runs : runs[r].of = i => runs'[r] = runs[r]
      BY <2>3, <2>4, <2>5
    <2>. QED BY <1>1, <1>7, <2>1, <2>5, <2>6, OtherCommand
  <1>8. CASE Look(c)
    BY <1>5, <1>8, LookDoes
  <1>9. CASE LaunchTask(c) \/ LaunchChild(c)
    <2>1. /\ Doing(c, "launch") /\ UNCHANGED <<config, entry, task, child>>
          /\ \E kind \in {"task", "child"}, at \in {"queued", "starting"} : NewRun(c, kind, at)
          /\ \/ status' = status
             \/ status' = [status EXCEPT ![job[c].rt].running = TRUE,
                                         ![job[c].rt].port = job[c].cfg.port]
      BY <1>9 DEF LaunchTask, LaunchChild, slotVars
    <2>2. PICK kind \in {"task", "child"}, at \in {"queued", "starting"} : NewRun(c, kind, at)
      BY <2>1
    <2>3. Launched(c, kind, at)
      BY <2>1, <2>2, NewRunDoes
    <2>4. PICK r \in Runs :
              /\ Moves(c, "store") /\ r \notin DOMAIN runs /\ DOMAIN runs' = DOMAIN runs \cup {r}
              /\ \A s \in DOMAIN runs : runs'[s] = runs[s]
              /\ runs'[r].of = k
      BY <2>3 DEF Launched, k
    <2>5. job[c].rt # None
      BY <1>1, <2>1, JobOwns DEF Doing
    <2>6. \A p \in Runtimes : p # job[c].rt => /\ task'[p] = task[p] /\ child'[p] = child[p]
                                               /\ status'[p] = status[p]
      BY <1>2, <2>1
    <2>7. Unmoved(c) /\ (job'[c] # Idle => job'[c].id = k)
      BY <1>4, <2>4
    <2>8. k # i /\ (job[c] # Idle => job[c].id = k)
      BY DEF k
    <2>9. /\ \A s \in DOMAIN runs' : runs'[s].of = i => s \in DOMAIN runs /\ runs'[s] = runs[s]
          /\ \A s \in DOMAIN runs : runs[s].of = i => runs'[s] = runs[s]
          /\ DOMAIN runs \subseteq DOMAIN runs'
      BY <2>4, <2>8
    <2>. QED BY <1>1, <1>3, <2>1, <2>5, <2>6, <2>7, <2>8, <2>9, OtherCommand
  <1>10. CASE LaunchFails(c)
    BY <1>5, <1>10, LaunchFailsDoes
  <1>11. CASE Store(c)
    <2>1. /\ Quiet(c, "store") /\ Ends(c)
          /\ UNCHANGED <<config, entry, status, runs>>
          /\ \/ child' = child /\ task' = [task EXCEPT ![job[c].rt] = job[c].run]
             \/ task' = task /\ child' = [child EXCEPT ![job[c].rt] = job[c].run]
      BY <1>11, StoreDoes
    <2>2. job[c].rt # None
      BY <1>1, <2>1, JobOwns DEF Quiet, Doing
    <2>3. \A p \in Runtimes : p # job[c].rt => /\ task'[p] = task[p] /\ child'[p] = child[p]
                                               /\ status'[p] = status[p]
      BY <1>2, <2>1
    <2>4. Unmoved(c) /\ (job'[c] # Idle => job'[c].id = k) /\ k # i /\ (job[c] # Idle => job[c].id = k)
      BY <1>4, <2>1 DEF k
    <2>. QED BY <1>1, <1>3, <2>1, <2>2, <2>3, <2>4, OtherCommand
  <1>12. CASE Kill(c)
    <2>1. /\ UNCHANGED <<config, entry, status>>
          /\ \/ /\ Ends(c) /\ UNCHANGED <<runs, task, child>>
             \/ entry[k] \in Runtimes /\ Kills(entry[k]) /\ Moves(c, "mark")
      BY <1>12, KillDoes DEF k
    <2>2. CASE Ends(c) /\ UNCHANGED <<runs, task, child>>
      BY <1>5, <2>1, <2>2
    <2>3. CASE entry[k] \in Runtimes /\ Kills(entry[k]) /\ Moves(c, "mark")
      BY <1>3, <1>4, <1>7, <2>1, <2>3 DEF Runtimes, None
    <2>. QED BY <2>1, <2>2, <2>3
  <1>13. CASE Mark(c)
    <2>1. /\ UNCHANGED <<config, entry, task, child, runs>> /\ job[c].rt \in Runtimes
          /\ status' = [status EXCEPT ![job[c].rt].running = FALSE]
          /\ Ends(c) \/ Moves(c, "look")
      BY <1>13, MarkDoes
    <2>2. job[c].rt # None
      BY <2>1 DEF Runtimes, None
    <2>3. [status[job[c].rt] EXCEPT !.running = FALSE] \in Status
      <3>. DEFINE s == status[job[c].rt]
      <3>1. s \in Status
        BY <1>2, <2>1
      <3>. HIDE DEF s
      <3>2. [s EXCEPT !.running = FALSE] \in Status
        BY <3>1 DEF Status
      <3>. QED BY <3>2 DEF s
    <2>4. status' = [status EXCEPT ![job[c].rt] = [status[job[c].rt] EXCEPT !.running = FALSE]]
      BY <1>2, <2>1
    <2>. QED BY <1>3, <1>6, <2>1, <2>2, <2>3, <2>4
  <1>14. CASE KillForDelete(c)
    <2>1. /\ UNCHANGED <<config, entry, status>> /\ Moves(c, "remove")
          /\ \/ UNCHANGED <<runs, task, child>>
             \/ entry[k] \in Runtimes /\ Kills(entry[k])
      BY <1>14, KillForDeleteDoes DEF k
    <2>2. CASE UNCHANGED <<runs, task, child>>
      BY <1>5, <2>1, <2>2
    <2>3. CASE entry[k] \in Runtimes /\ Kills(entry[k])
      BY <1>3, <1>4, <1>7, <2>1, <2>3 DEF Runtimes, None
    <2>. QED BY <2>1, <2>2, <2>3
  <1>15. CASE Remove(c)
    <2>1. /\ Moves(c, "forget") /\ entry' = [entry EXCEPT ![k] = None]
          /\ UNCHANGED <<config, status, task, child, runs>>
      BY <1>15, RemoveDoes DEF k
    <2>. QED BY <1>2, <1>5, <2>1
  <1>16. CASE Forget(c)
    <2>1. /\ Ends(c) /\ config' = [config EXCEPT ![k] = NoConfig]
          /\ UNCHANGED <<entry, status, task, child, runs>>
      BY <1>16, ForgetDoes DEF k
    <2>. QED BY <1>2, <1>5, <2>1
  <1>17. CASE Ask(c)
    BY <1>5, <1>17, AskDoes
  <1>18. CASE WriteAnswer(c)
    <2>1. /\ Ends(c) /\ UNCHANGED <<config, entry, task, child, runs>>
          /\ \/ status' = status
             \/ /\ entry[k] \in Runtimes
                /\ \E s \in Status : status' = [status EXCEPT ![entry[k]] = s]
      BY <1>18, WriteDoes DEF k
    <2>2. CASE status' = status
      BY <1>5, <2>1, <2>2
    <2>3. CASE status' # status
      <3>1. PICK s \in Status : status' = [status EXCEPT ![entry[k]] = s]
        BY <2>1, <2>3
      <3>2. entry[k] \in Runtimes /\ entry[k] # None
        BY <2>1, <2>3 DEF Runtimes, None
      <3>. QED BY <1>3, <1>6, <2>1, <3>1, <3>2
    <2>. QED BY <2>2, <2>3
  <1>19. CASE NotSaved(c)
    BY <1>5, <1>19, NotSavedDoes
  <1>20. CASE EnterInstance(c)
    <2>1. /\ Ends(c) /\ objects + 1 \in Runtimes
          /\ entry' = [entry EXCEPT ![k] = objects + 1]
          /\ \E s \in Status : status' = [status EXCEPT ![objects + 1] = s]
          /\ UNCHANGED <<config, task, child, runs>>
      BY <1>20, EnterDoes DEF k
    <2>2. PICK s \in Status : status' = [status EXCEPT ![objects + 1] = s]
      BY <2>1
    <2>3. objects + 1 > objects
      BY SupervisorBoundsAssumption DEF SlotInv, SupervisorTypeOK
    <2>4. \A j \in Ids : j # k => entry'[j] = entry[j] /\ config'[j] = config[j]
      BY <1>2, <2>1
    <2>. QED BY <1>6, <2>1, <2>2, <2>3, <2>4
  <1>. QED
    BY <1>8, <1>9, <1>10, <1>11, <1>12, <1>13, <1>14, <1>15, <1>16, <1>17, <1>18, <1>19, <1>20
    DEF CommandStep

\* At the start there is an object for each instance, and nothing runs.
LEMMA SlotsInit ==
    ASSUME SupervisorInit
    PROVE  SlotInv /\ AccountInv
  <1>1. Cardinality(Ids) \in Nat /\ Cardinality(Ids) <= MaxRuntimes /\ MaxRuntimes \in Nat
    BY SupervisorBoundsAssumption, FS_CardinalityType
  <1>2. /\ entry \in [Ids -> 1 .. Cardinality(Ids)] /\ \A i, j \in Ids : entry[i] = entry[j] => i = j
        /\ config \in [Ids -> Config] /\ objects = Cardinality(Ids)
        /\ task = [o \in Runtimes |-> None] /\ child = [o \in Runtimes |-> None]
        /\ runs = <<>> /\ job = [c \in Commands |-> Idle]
    BY DEF SupervisorInit
  <1>3. DOMAIN runs = {} /\ DOMAIN runs = 1 .. Cardinality(DOMAIN runs)
    BY <1>2, FS_EmptySet
  <1>4. PICK one \in Ids : TRUE
    BY SupervisorBoundsAssumption
  <1>5. status \in [Runtimes -> Status]
    <2>1. config[one].port \in Ports
      BY <1>2 DEF Config
    <2>2. ASSUME NEW o \in Runtimes
          PROVE  (CHOOSE q \in Ports : \A i \in Ids : entry[i] = o => q = config[i].port) \in Ports
      <3>1. CASE \E i \in Ids : entry[i] = o
        <4>1. PICK i \in Ids : entry[i] = o
          BY <3>1
        <4>2. config[i].port \in Ports /\ \A j \in Ids : entry[j] = o => config[i].port = config[j].port
          BY <1>2, <4>1 DEF Config
        <4>. QED BY <4>2
      <3>2. CASE ~\E i \in Ids : entry[i] = o
        BY <2>1, <3>2
      <3>. QED BY <3>1, <3>2
    <2>3. status = [o \in Runtimes |->
          [running |-> FALSE, backend |-> FALSE,
           port |-> CHOOSE q \in Ports : \A i \in Ids : entry[i] = o => q = config[i].port]]
      BY DEF SupervisorInit
    <2>4. ASSUME NEW o \in Runtimes PROVE status[o] \in Status
      BY <2>2, <2>3 DEF Status
    <2>. QED BY <2>3, <2>4
  <1>6. SupervisorTypeOK
    <2>1. entry \in [Ids -> Runtimes \cup {None}] /\ objects \in 0 .. MaxRuntimes
      BY <1>1, <1>2 DEF Runtimes
    <2>2. 0 \in 0 .. MaxCommands /\ 0 \in 0 .. MaxFlips
      BY SupervisorBoundsAssumption
    <2>. QED BY <1>2, <1>3, <1>5, <2>1, <2>2 DEF SupervisorInit, SupervisorTypeOK
  <1>7. HandleInv
    BY <1>2, <1>3 DEF HandleInv
  <1>8. \E own \in [Runtimes -> Ids] : OwnInv(own)
    <2>. DEFINE own == [o \in Runtimes |-> IF \E i \in Ids : entry[i] = o
                                           THEN CHOOSE i \in Ids : entry[i] = o ELSE one]
    <2>1. own \in [Runtimes -> Ids]
      OBVIOUS
    <2>2. ASSUME NEW i \in Ids PROVE entry[i] <= objects /\ own[entry[i]] = i
      <3>1. entry[i] \in Runtimes /\ entry[i] <= objects
        BY <1>1, <1>2 DEF Runtimes
      <3>. QED BY <1>2, <3>1
    <2>. HIDE DEF own
    <2>3. \A c \in Commands : job[c] = Idle
      BY <1>2
    <2>4. OwnInv(own)
      BY <1>3, <2>2, <2>3 DEF OwnInv
    <2>. QED BY <2>1, <2>4
  <1>9. ASSUME NEW i \in Ids PROVE InstanceInv(i)
    <2>1. InProgress(i) = {} /\ Ours(i) = {}
      BY <1>2, <1>3 DEF InProgress, Ours
    <2>2. config[i] # NoConfig
      BY <1>2, SupervisorNamesAssumption DEF Config
    <2>. QED BY <2>1, <2>2 DEF InstanceInv
  <1>. QED BY <1>6, <1>7, <1>8, <1>9 DEF SlotInv, AccountInv

\* A command that begins keeps what holds of every instance that it does not cross.
LEMMA StartKeeps ==
    ASSUME NEW c \in Commands, NEW k \in Ids, SlotInv, AccountInv,
           \/ \E op \in DOMAIN FirstStep : Start(c, op, k)
           \/ \E cfg \in Config : AddInstance(c, k, cfg)
    PROVE  SlotInv' /\ AccountInv'
  <1>1. /\ job[c] = Idle /\ job' \in [Commands -> Job \cup {Idle}]
        /\ job'[c] \in Job /\ job'[c] # Idle /\ job'[c].id = k /\ job'[c].rt = None
        /\ job'[c].at \in {"look", "kill", "ask", "enter"}
        /\ job'[c].at \in {"ask", "enter"} => job'[c].cfg # NoConfig
        /\ Unmoved(c)
        /\ crossed' = (IF Busy(k) THEN crossed \cup {k} ELSE crossed)
        /\ begun' \in 0 .. MaxCommands
        /\ \/ config' = config /\ job'[c].at # "enter"
           \/ /\ config[k] = NoConfig
              /\ \E cfg \in Config : config' = [config EXCEPT ![k] = cfg]
        /\ UNCHANGED <<program, entry, status, task, child, runs, others, objects, flips>>
    <2>1. CASE \E op \in DOMAIN FirstStep : Start(c, op, k)
      <3>1. PICK op \in DOMAIN FirstStep : Start(c, op, k)
        BY <2>1
      <3>. QED BY <3>1, StartDoes DEF Unmoved
    <2>2. CASE \E cfg \in Config : AddInstance(c, k, cfg)
      <3>1. PICK cfg \in Config : AddInstance(c, k, cfg)
        BY <2>2
      <3>. QED BY <3>1, AddDoes DEF Unmoved
    <2>. QED BY <2>1, <2>2
  <1>2. /\ config \in [Ids -> Config \cup {NoConfig}] /\ entry \in [Ids -> Runtimes \cup {None}]
        /\ status \in [Runtimes -> Status] /\ crossed \subseteq Ids /\ flips \in 0 .. MaxFlips
    BY DEF SlotInv, SupervisorTypeOK
  <1>3. /\ config' \in [Ids -> Config \cup {NoConfig}]
        /\ \A i \in Ids : config'[i] = NoConfig => config[i] = NoConfig
        /\ \A i \in Ids : i # k => config'[i] = config[i]
        /\ job'[c].at = "enter" => config[k] = NoConfig /\ config'[k] # NoConfig
    BY <1>1, <1>2, SupervisorNamesAssumption DEF Config
  <1>4. SlotInv'
    BY <1>1, <1>2, <1>3, CalmKeepsSlots DEF JobOK, Unmoved
  <1>5. ASSUME NEW i \in Ids, i \notin crossed' PROVE InstanceInv(i)'
    <2>1. InstanceInv(i) /\ (i = k => ~Busy(i))
      BY <1>1, <1>5 DEF AccountInv
    <2>2. CASE i = k
      <3>1. Begins(c, i)
        BY <1>1, <1>3, <2>2 DEF Begins
      <3>2. ~Busy(i)
        BY <2>1, <2>2
      <3>3. config'[i] = NoConfig => config[i] = NoConfig
        BY <1>3
      <3>4. UNCHANGED <<runs, task, child, status, entry>>
        BY <1>1
      <3>. QED BY <2>1, <3>1, <3>2, <3>3, <3>4, OwnStart
    <2>3. CASE i # k
      <3>1. \A d \in Commands : job[d] # Idle /\ job[d].id = i => job'[d] = job[d]
        BY <1>1 DEF Unmoved
      <3>2. \A d \in Commands : job'[d] # Idle /\ job'[d].id = i => job'[d] = job[d]
        BY <1>1, <2>3 DEF Unmoved
      <3>. QED BY <1>1, <1>3, <2>1, <3>1, <3>2, Elsewhere
    <2>. QED BY <2>2, <2>3
  <1>. QED BY <1>4, <1>5 DEF AccountInv

\* A changed configuration leaves what runs as it is; so does somebody else's proxy.
LEMMA UpdateKeeps ==
    ASSUME SlotInv, AccountInv,
           UNCHANGED <<program, entry, status, task, child, runs, job, objects, crossed>>,
           others' \subseteq Ports, begun' \in 0 .. MaxCommands, flips' \in 0 .. MaxFlips,
           \/ config' = config
           \/ \E i \in Ids, cfg \in Config : config' = [config EXCEPT ![i] = cfg]
    PROVE  SlotInv' /\ AccountInv'
  <1>1. config \in [Ids -> Config \cup {NoConfig}]
    BY DEF SlotInv, SupervisorTypeOK
  <1>2. /\ config' \in [Ids -> Config \cup {NoConfig}]
        /\ \A i \in Ids : config'[i] = NoConfig => config[i] = NoConfig
    BY <1>1, SupervisorNamesAssumption DEF Config
  <1>3. SupervisorTypeOK' /\ HandleInv'
    BY <1>2 DEF SlotInv, SupervisorTypeOK, HandleInv
  <1>4. \A own : OwnInv(own) => OwnInv(own)'
    BY DEF OwnInv
  <1>5. SlotInv'
    BY <1>3, <1>4 DEF SlotInv
  <1>6. ASSUME NEW i \in Ids, i \notin crossed' PROVE InstanceInv(i)'
    <2>1. InstanceInv(i)
      BY <1>6 DEF AccountInv
    <2>. QED BY <1>2, <2>1, Elsewhere
  <1>. QED BY <1>5, <1>6 DEF AccountInv

\* Every step keeps the types, and what holds of an instance that is not crossed.
LEMMA SlotsNext ==
    ASSUME SlotInv, AccountInv, [SupervisorNext]_supervisorVars
    PROVE  SlotInv' /\ AccountInv'
  <1>1. ASSUME NEW r \in DOMAIN runs, RunStep(r) PROVE SlotInv' /\ AccountInv'
    <2>1. SlotInv'
      BY <1>1, RunKeepsSlots
    <2>2. ASSUME NEW i \in Ids, i \notin crossed' PROVE InstanceInv(i)'
      <3>1. i \notin crossed
        BY <1>1, <2>2, RunDoes
      <3>2. InstanceInv(i)
        BY <3>1 DEF AccountInv
      <3>3. CASE runs[r].of = i
        BY <1>1, <2>2, <3>2, <3>3, OwnRun DEF Ours
      <3>4. CASE runs[r].of # i
        BY <1>1, <3>2, <3>4, OtherRun
      <3>. QED BY <3>3, <3>4
    <2>. QED BY <2>1, <2>2 DEF AccountInv
  <1>2. ASSUME NEW c \in Commands, CommandStep(c) PROVE SlotInv' /\ AccountInv'
    <2>1. SlotInv'
      BY <1>2, CommandKeepsSlots
    <2>2. crossed' = crossed
      BY <1>2 DEF CommandStep, Look, LaunchTask, LaunchChild, LaunchFails, Store, Kill, Mark,
         KillForDelete, Remove, Forget, Ask, WriteAnswer, NotSaved, EnterInstance, CommandOnly
    <2>3. ASSUME NEW i \in Ids, i \notin crossed' PROVE InstanceInv(i)'
      <3>1. InstanceInv(i)
        BY <2>2, <2>3 DEF AccountInv
      <3>. QED BY <1>2, <3>1, CommandKeepsOwn, CommandKeepsOther
    <2>. QED BY <2>1, <2>3 DEF AccountInv
  <1>3. ASSUME NEW c \in Commands, NEW op \in DOMAIN FirstStep, NEW i \in Ids, Start(c, op, i)
        PROVE  SlotInv' /\ AccountInv'
    BY <1>3, StartKeeps
  <1>4. ASSUME NEW c \in Commands, NEW i \in Ids, NEW cfg \in Config, AddInstance(c, i, cfg)
        PROVE  SlotInv' /\ AccountInv'
    BY <1>4, StartKeeps
  <1>5. others \subseteq Ports /\ begun \in 0 .. MaxCommands /\ flips \in 0 .. MaxFlips
    BY DEF SlotInv, SupervisorTypeOK
  <1>6. ASSUME NEW i \in Ids, NEW cfg \in Config, UpdateInstance(i, cfg)
        PROVE  SlotInv' /\ AccountInv'
    <2>1. begun' \in 0 .. MaxCommands
      BY <1>5, <1>6, SupervisorBoundsAssumption DEF UpdateInstance
    <2>. QED BY <1>5, <1>6, <2>1, UpdateKeeps DEF UpdateInstance, slotVars
  <1>7. ASSUME NEW q \in Ports, Flip(q) PROVE SlotInv' /\ AccountInv'
    <2>1. flips' \in 0 .. MaxFlips /\ others' \subseteq Ports
      BY <1>5, <1>7, SupervisorBoundsAssumption DEF Flip
    <2>. QED BY <1>5, <1>7, <2>1, UpdateKeeps DEF Flip, slotVars
  <1>8. CASE UNCHANGED supervisorVars
    BY <1>5, <1>8, UpdateKeeps DEF supervisorVars, slotVars
  <1>. QED BY <1>1, <1>2, <1>3, <1>4, <1>6, <1>7, <1>8 DEF SupervisorNext

\* Types, with what a command has read by the step it is at (start_instance_by_id,
\* stop_instance_by_id, delete_instance, probe_instances).
THEOREM SupervisorTypes == SupervisorSpec => []SupervisorTypeOK
  <1>1. SupervisorSpec => [](SlotInv /\ AccountInv)
    BY SlotsInit, SlotsNext, PTL DEF SupervisorSpec
  <1>2. SlotInv /\ AccountInv => SupervisorTypeOK
    BY DEF SlotInv
  <1>. QED BY <1>1, <1>2, PTL

\* Whatever was started by commands that did not meet on its instance can be found by the
\* next one, and is shown on its port while it answers: for any number of instances and
\* commands at once (start_instance_by_id, stop_instance_by_id, probe_instances).
THEOREM ProxiesAreAccounted == SupervisorSpec => []Accounted
  <1>1. SupervisorSpec => [](SlotInv /\ AccountInv)
    BY SlotsInit, SlotsNext, PTL DEF SupervisorSpec
  <1>2. ASSUME SlotInv, AccountInv PROVE Accounted
    <2>1. ASSUME NEW r \in DOMAIN runs, Alive(r), runs[r].of \notin crossed
          PROVE  /\ Reachable(r)
                 /\ runs[r].at = "serving" =>
                      status[runs[r].rt].running /\ status[runs[r].rt].port = runs[r].port
      <3>. DEFINE i == runs[r].of
      <3>1. i \in Ids /\ r \in Ours(i)
        <4>1. runs[r] \in Run
          BY <1>2, <2>1 DEF SlotInv, SupervisorTypeOK
        <4>. QED BY <2>1, <4>1 DEF Run, Ours
      <3>2. RunInv(i, r)
        BY <1>2, <2>1, <3>1 DEF AccountInv, InstanceInv
      <3>3. Reachable(r)
        <4>1. CASE Held(r)
          BY <3>1, <4>1 DEF Held, Reachable
        <4>2. CASE \E c \in InProgress(i) : Storing(c, r)
          BY <4>2 DEF InProgress, Storing, Reachable
        <4>. QED BY <2>1, <3>2, <4>1, <4>2 DEF RunInv
      <3>. QED BY <2>1, <3>2, <3>3 DEF RunInv, Shown
    <2>. QED BY <2>1 DEF Accounted
  <1>. QED BY <1>1, <1>2, PTL
=============================================================================
