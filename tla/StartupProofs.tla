--------------------------- MODULE StartupProofs ----------------------------
(***************************************************************************)
(* Startup for any environments, config files, sessions and bounds: what   *)
(* the process serves with, and who it lets in.                            *)
(***************************************************************************)
EXTENDS Startup, FiniteSetTheorems, TLAPS

\* The steps before the listener is up.
Early == LoadNext \/ WizardNext \/ SaveNext \/ BootNext \/ \E env \in Envs : Launch(env)

USE DEF LoadNext, WizardNext, SaveNext, BootNext, ServeNext, Outside, AccessNext

\* An early step leaves tokens and cookies alone and opens no viewer.
LEMMA EarlyAccess ==
  ASSUME Early
  PROVE  /\ proc.pc # "serving"
         /\ UNCHANGED <<tokens, cookie>>
         /\ seen' \in {seen, None}
<1>1. CASE LoadNext
  BY <1>1 DEF Load, LoadAsks, LoadRefuses, LoadUnchanged, End, accessVars
<1>2. CASE WizardNext
  BY <1>2 DEF WizardAnswered, WizardClosed, WizardComplete, WizardHostname, LoadUnchanged, End,
              accessVars
<1>3. CASE SaveNext
  BY <1>3 DEF SaveTruncates, Saved, SaveFails, End, accessVars
<1>4. CASE BootNext
  BY <1>4 DEF Open, AddColumn, Seed, StoreFails, Wire, WireFails, Listen, ListenFails,
              LoadUnchanged, End, accessVars
<1>5. CASE \E env \in Envs : Launch(env)
  BY <1>5 DEF Launch, accessVars
<1> QED BY <1>1, <1>2, <1>3, <1>4, <1>5 DEF Early

\* A cookie is a token that was handed out, and no viewer is open unless the
\* process serves.
AccessInv ==
  /\ proc.pc # "serving" => seen = None
  /\ cookie \in [Sessions -> SUBSET tokens]
  /\ WatchScoped

LEMMA AccessInvInit == Init => AccessInv
  BY DEF Init, AccessInv, WatchScoped, Off

LEMMA AccessInvEnd == AccessInv /\ End => AccessInv'
  BY DEF AccessInv, WatchScoped, End, Off

LEMMA AccessInvServe == AccessInv /\ ServeNext => AccessInv'
<1> SUFFICES ASSUME AccessInv, proc.pc = "serving", UNCHANGED proc,
                    NEW s \in Sessions,
                    \/ \E k \in DOMAIN keys : Poll(k, s)
                    \/ \E t \in tokens : Watch(t, s)
                    \/ WatchByCookie(s)
             PROVE  AccessInv'
  OBVIOUS
<1>1. CASE \E k \in DOMAIN keys : Poll(k, s)
  BY <1>1 DEF AccessInv, WatchScoped, Poll
<1>2. CASE \E t \in tokens : Watch(t, s)
  BY <1>2 DEF AccessInv, WatchScoped, Watch, ValidateViewToken
<1>3. CASE WatchByCookie(s)
  BY <1>3 DEF AccessInv, WatchScoped, WatchByCookie, ValidateViewToken
<1> QED BY <1>1, <1>2, <1>3

LEMMA AccessInvOutside == AccessInv /\ Outside => AccessInv'
<1>1. AccessInv /\ Tick /\ UNCHANGED proc => AccessInv'
  BY DEF AccessInv, WatchScoped, Tick
<1>2. ASSUME AccessInv, NEW k \in DOMAIN keys, DisableKey(k), UNCHANGED proc
      PROVE  AccessInv'
  BY <1>2 DEF AccessInv, WatchScoped, DisableKey
<1> QED BY <1>1, <1>2

LEMMA AccessInvNext == AccessInv /\ [Next]_vars => AccessInv'
<1> SUFFICES ASSUME AccessInv, [Next]_vars PROVE AccessInv'
  OBVIOUS
<1>1. CASE Early
  <2>1. proc.pc # "serving" /\ UNCHANGED <<tokens, cookie>> /\ seen' = None
    BY <1>1, EarlyAccess DEF AccessInv
  <2> QED BY <2>1 DEF AccessInv, WatchScoped
<1>2. CASE Exit
  BY <1>2, AccessInvEnd DEF Exit
<1>3. CASE UNCHANGED vars
  BY <1>3 DEF AccessInv, WatchScoped, vars, accessVars
<1> QED BY <1>1, <1>2, <1>3, AccessInvServe, AccessInvOutside DEF Next, Early

\* A viewer opens only for a session that was polled with a key, in time and with
\* this server's signature (watch.go:97-136, 184-245).
THEOREM WatchScopedAlways == Spec => []WatchScoped
<1>1. AccessInv => WatchScoped
  BY DEF AccessInv
<1> QED BY AccessInvInit, AccessInvNext, <1>1, PTL DEF Spec

-----------------------------------------------------------------------------
LEMMA KeysKept ==
  ASSUME [Next]_vars, NEW k \in DOMAIN keys, keys[k] = "disabled"
  PROVE  k \in DOMAIN keys' /\ keys'[k] = "disabled"
<1>1. CASE Early
  BY <1>1 DEF Early, Launch, Load, LoadAsks, LoadRefuses, LoadUnchanged, WizardAnswered,
              WizardClosed, WizardComplete, WizardHostname, SaveTruncates, Saved, SaveFails,
              Open, AddColumn, Seed, SeedBootstrapKey, StoreFails, Wire, WireFails, Listen,
              ListenFails, End, accessVars
<1>2. CASE Exit
  BY <1>2 DEF Exit, End
<1>3. CASE ServeNext
  BY <1>3 DEF Poll, Watch, WatchByCookie
<1>4. CASE Outside
  BY <1>4 DEF Tick, DisableKey
<1>5. CASE UNCHANGED vars
  BY <1>5 DEF vars, accessVars
<1> QED BY <1>1, <1>2, <1>3, <1>4, <1>5 DEF Next, Early

\* No restart makes a disabled key active again (keys.go:30-33).
THEOREM DisabledStaysAlways == Spec => DisabledStays
<1>1. [Next]_vars =>
        [\A k \in DOMAIN keys :
           keys[k] = "disabled" => k \in DOMAIN keys' /\ keys'[k] = "disabled"]_vars
  BY KeysKept
<1> QED BY <1>1, PTL DEF Spec, DisabledStays
-----------------------------------------------------------------------------
IsConfig(c) ==
  /\ c = [text |-> c.text, number |-> c.number]
  /\ c.text = [k \in Texts |-> c.text[k]]

\* Records keep their fields.
Shape ==
  /\ proc = [pc |-> proc.pc, env |-> proc.env, cfg |-> proc.cfg]
  /\ IsConfig(proc.cfg)
  /\ db = [made |-> db.made, columns |-> db.columns]

LEMMA Configs == IsConfig(NoConfig) /\ IsConfig(Merged)
  BY DEF IsConfig, NoConfig, FileConfigToConfig, Merged, Resolve

LEMMA ShapeOff == IsConfig(Off.cfg) /\ Off = [pc |-> Off.pc, env |-> Off.env, cfg |-> Off.cfg]
  BY Configs DEF Off

\* A step that only moves on keeps the configuration.
LEMMA Moved ==
  ASSUME Shape, NEW pc, Goto(pc)
  PROVE  /\ proc'.pc = pc /\ proc'.cfg = proc.cfg
         /\ proc' = [pc |-> proc'.pc, env |-> proc'.env, cfg |-> proc'.cfg]
  BY DEF Shape, Goto

LEMMA Answered ==
  ASSUME Shape, NEW k \in Texts, NEW pc, NEW a,
         proc' = [proc EXCEPT !.pc = pc, !.cfg.text[k] = a]
  PROVE  /\ proc'.pc = pc
         /\ proc' = [pc |-> proc'.pc, env |-> proc'.env, cfg |-> proc'.cfg]
         /\ IsConfig(proc'.cfg)
         /\ \A x \in Texts \ {k} : proc'.cfg.text[x] = proc.cfg.text[x]
  BY DEF Shape, IsConfig

\* The configuration is complete once the wizard, if it ran, is done with what it
\* must ask, and the provider was known when the process was wired.
Complete(c) == MissingRequired(c) = {}
Wirable(c) == c.text["ECU_DEV_TOOLSERVER"] # "" \/ Registered(c.text["ECU_PROVIDER"])
Named(c) == c.text["ECU_PROVIDER"] # ""
Resolved == {"hostname", "save", "saving", "open", "migrate", "seed", "wire", "listen", "serving"}

RunsInv ==
  /\ Shape
  /\ proc.pc \in Resolved \cup {"wizard"} => Named(proc.cfg)
  /\ proc.pc \in Resolved => Complete(proc.cfg)
  /\ proc.pc \in {"listen", "serving"} => Wirable(proc.cfg)

\* A name without blanks around it is looked up as it is.
LEMMA RunsInvComplete == RunsInv => RunsComplete
<1> SUFFICES ASSUME RunsInv, proc.pc \in {"listen", "serving"},
                    proc.cfg.text["ECU_DEV_TOOLSERVER"] = "",
                    proc.cfg.text["ECU_PROVIDER"] \notin LocalNames \cup DOMAIN TrimSpace
             PROVE  \A k \in CloudTexts : proc.cfg.text[k] # ""
  BY DEF RunsInv, Resolved, RunsComplete, Complete, MissingRequired, RequiredFor, CloudTexts
<1>1. /\ Complete(proc.cfg) /\ Registered(proc.cfg.text["ECU_PROVIDER"])
      /\ proc.cfg.text["ECU_PROVIDER"] # ""
  BY DEF RunsInv, Resolved, Wirable, Named
<1>2. Trimmed(proc.cfg.text["ECU_PROVIDER"]) = proc.cfg.text["ECU_PROVIDER"]
  BY DEF Trimmed, Given
<1>3. proc.cfg.text["ECU_PROVIDER"] \in HetznerNames
  BY <1>1, <1>2 DEF Registered, BuildsHetzner
<1> QED BY <1>1, <1>3 DEF Complete, MissingRequired, RequiredFor, CloudTexts

LEMMA MergedNamed == Named(Merged)
<1>1. Merged.text["ECU_PROVIDER"] =
        Pick(proc.env.layer, FileConfigToConfig(file.layer), "ECU_PROVIDER")
  BY DEF Merged, Resolve, Texts
<1>2. Builtin.text["ECU_PROVIDER"] # ""
  BY BuiltinAssumption, NamesAssumption
<1>3. ASSUME Given(proc.env.layer.text, "ECU_PROVIDER", "") # ""
      PROVE  proc.env.layer.text["ECU_PROVIDER"] # ""
  BY <1>3 DEF Given
<1> QED BY <1>1, <1>2, <1>3 DEF Pick, Named

\* What is required depends on two texts that no prompt changes.
LEMMA CompleteKept ==
  ASSUME NEW c, NEW d, Complete(c),
         \A x \in Texts \ {"ECU_HOSTNAME"} : d.text[x] = c.text[x]
  PROVE  Complete(d)
  BY DEF Complete, MissingRequired, RequiredFor, CloudTexts, Texts

LEMMA RunsInvInit == Init => RunsInv
  BY ShapeOff DEF Init, RunsInv, Shape, Off, Resolved

LEMMA RunsInvEnd == RunsInv /\ End => RunsInv'
  BY ShapeOff DEF End, RunsInv, Shape, Off, Resolved, diskVars

LEMMA RunsInvLoad == RunsInv /\ LoadNext => RunsInv'
<1>1. RunsInv /\ Load => RunsInv'
  BY Configs, MergedNamed DEF RunsInv, Shape, Load, LoadUnchanged, diskVars, Complete, Resolved
<1>2. RunsInv /\ LoadAsks => RunsInv'
  BY Configs, MergedNamed DEF RunsInv, Shape, LoadAsks, LoadUnchanged, diskVars, Resolved
<1> QED BY <1>1, <1>2, RunsInvEnd DEF LoadRefuses

LEMMA RunsInvWizard == RunsInv /\ WizardNext => RunsInv'
<1>1. ASSUME RunsInv, NEW k \in Texts, WizardAnswered(k) PROVE RunsInv'
  <2>1. /\ proc'.pc = "wizard" /\ IsConfig(proc'.cfg)
        /\ proc' = [pc |-> proc'.pc, env |-> proc'.env, cfg |-> proc'.cfg]
    BY <1>1 DEF RunsInv, Shape, IsConfig, WizardAnswered
  <2>2. k # "ECU_PROVIDER"
    BY <1>1 DEF WizardAnswered, MissingRequired, RequiredFor, CloudTexts
  <2>3. Named(proc'.cfg)
    <3>1. Named(proc.cfg)
      BY <1>1 DEF RunsInv, WizardAnswered
    <3> QED BY <1>1, <2>2, <3>1 DEF RunsInv, Shape, IsConfig, WizardAnswered, Named, Texts
  <2> QED BY <1>1, <2>1, <2>3 DEF RunsInv, Shape, WizardAnswered, LoadUnchanged, diskVars, Resolved
<1>2. ASSUME RunsInv, WizardComplete PROVE RunsInv'
  <2>1. /\ proc'.pc \in {"hostname", "save"} /\ proc'.cfg = proc.cfg
        /\ proc' = [pc |-> proc'.pc, env |-> proc'.env, cfg |-> proc'.cfg]
    BY <1>2, Moved DEF RunsInv, WizardComplete
  <2> QED BY <1>2, <2>1 DEF RunsInv, Shape, WizardComplete, LoadUnchanged, diskVars, Complete
<1>3. ASSUME RunsInv, NEW h, WizardHostname(h) PROVE RunsInv'
  <2>1. proc' = [proc EXCEPT !.pc = "save", !.cfg.text["ECU_HOSTNAME"] = h]
    BY <1>3 DEF WizardHostname
  <2>2. "ECU_HOSTNAME" \in Texts
    BY DEF Texts
  <2>3. /\ proc'.pc = "save" /\ IsConfig(proc'.cfg)
        /\ proc' = [pc |-> proc'.pc, env |-> proc'.env, cfg |-> proc'.cfg]
        /\ \A x \in Texts \ {"ECU_HOSTNAME"} : proc'.cfg.text[x] = proc.cfg.text[x]
    BY <1>3, <2>1, <2>2, Answered DEF RunsInv
  <2>4. Complete(proc.cfg)
    BY <1>3 DEF RunsInv, WizardHostname, Resolved
  <2>5. Complete(proc'.cfg)
    BY <2>3, <2>4, CompleteKept
  <2>6. Named(proc'.cfg)
    BY <1>3, <2>3 DEF RunsInv, WizardHostname, Resolved, Named, Texts
  <2> QED BY <1>3, <2>3, <2>5, <2>6 DEF RunsInv, Shape, WizardHostname, LoadUnchanged, diskVars
<1> QED BY <1>1, <1>2, <1>3, RunsInvEnd DEF WizardClosed

LEMMA RunsInvSave == RunsInv /\ SaveNext => RunsInv'
<1>1. RunsInv /\ (SaveTruncates \/ Saved) => RunsInv'
  BY Moved DEF RunsInv, Shape, SaveTruncates, Saved, Resolved
<1> QED BY <1>1, RunsInvEnd DEF SaveFails

LEMMA RunsInvBoot == RunsInv /\ BootNext => RunsInv'
<1>1. ASSUME RunsInv, Open PROVE RunsInv'
  <2>1. db' = [made |-> db'.made, columns |-> db'.columns]
    BY <1>1 DEF RunsInv, Shape, Open
  <2> QED BY <1>1, <2>1, Moved DEF RunsInv, Shape, Open, Resolved
<1>2. RunsInv /\ AddColumn => RunsInv'
  <2>1. RunsInv /\ AddColumn => db' = [made |-> db'.made, columns |-> db'.columns]
    BY DEF RunsInv, Shape, AddColumn
  <2> QED BY <2>1, Moved DEF RunsInv, Shape, AddColumn, Resolved
<1>3. RunsInv /\ (Seed \/ Listen) => RunsInv'
  BY Moved DEF RunsInv, Shape, Seed, Listen, LoadUnchanged, diskVars, Resolved
<1>4. RunsInv /\ Wire => RunsInv'
  BY Moved DEF RunsInv, Shape, Wire, Wirable, diskVars, Resolved
<1> QED BY <1>1, <1>2, <1>3, <1>4, RunsInvEnd DEF StoreFails, WireFails, ListenFails

LEMMA RunsInvNext == RunsInv /\ [Next]_vars => RunsInv'
<1>1. ASSUME RunsInv, NEW env \in Envs, Launch(env) PROVE RunsInv'
  BY <1>1, Configs DEF RunsInv, Shape, Launch, diskVars, Resolved
<1>2. RunsInv /\ UNCHANGED <<proc, db>> => RunsInv'
  BY DEF RunsInv, Shape
<1> QED BY <1>1, <1>2, RunsInvLoad, RunsInvWizard, RunsInvSave, RunsInvBoot, RunsInvEnd
        DEF Next, Exit, vars, diskVars

\* Whichever of environment, file, defaults and prompts its settings are from, a
\* control plane whose provider's name has no blanks around it listens only with all
\* that is required of it (config.go:494-530, load.go:294-368, main.go:188-199,
\* provider.go:202-212), whatever the spellings of the names are.
THEOREM RunsCompleteAlways == Spec => []RunsComplete
BY RunsInvInit, RunsInvNext, RunsInvComplete, PTL DEF Spec

-----------------------------------------------------------------------------
\* The tables are there from Open on, with no column but the known ones.
SchemaInv ==
  /\ Shape
  /\ db.columns \subseteq Columns
  /\ proc.pc \in {"migrate", "seed", "wire", "listen", "serving"} => db.made
  /\ SchemaComplete

LEMMA SchemaInvStep == RunsInv /\ SchemaInv /\ [Next]_vars => SchemaInv'
<1> SUFFICES ASSUME RunsInv, SchemaInv, [Next]_vars PROVE SchemaInv'
  OBVIOUS
<1> USE DEF SchemaInv, SchemaComplete
<1>0. Shape'
  BY RunsInvNext DEF RunsInv
<1>1. CASE End
  BY <1>0, <1>1 DEF End, Off, diskVars
<1>2. CASE \E env \in Envs : Launch(env)
  BY <1>0, <1>2 DEF Launch, diskVars
<1>3. CASE Load \/ LoadAsks
  <2>1. proc'.pc \in {"open", "wizard"}
    BY <1>3 DEF Load, LoadAsks, Shape
  <2> QED BY <1>0, <1>3, <2>1 DEF Load, LoadAsks, LoadUnchanged, diskVars
<1>4. CASE (\E k \in Texts : WizardAnswered(k)) \/ WizardComplete
           \/ \E h \in {"", Host} : WizardHostname(h)
  <2>1. db' = db
    BY <1>4 DEF WizardAnswered, WizardComplete, WizardHostname, LoadUnchanged, diskVars
  <2>2. ASSUME NEW k \in Texts, WizardAnswered(k) PROVE proc'.pc = "wizard"
    BY <2>2 DEF WizardAnswered, Shape
  <2>3. WizardComplete => proc'.pc \in {"hostname", "save"}
    BY Moved DEF WizardComplete
  <2>4. ASSUME NEW h, WizardHostname(h) PROVE proc'.pc = "save"
    BY <2>4 DEF WizardHostname, Shape
  <2> QED BY <1>0, <1>4, <2>1, <2>2, <2>3, <2>4
<1>5. CASE SaveTruncates \/ Saved
  BY <1>0, <1>5, Moved DEF SaveTruncates, Saved
<1>6. CASE Open
  <2>1. proc'.pc = "migrate" /\ db'.made /\ db'.columns \subseteq Columns
    BY <1>6, Moved DEF Open
  <2> QED BY <1>0, <2>1
<1>7. CASE AddColumn
  <2>1. CASE Columns \subseteq db.columns
    BY <1>0, <1>7, <2>1, Moved DEF AddColumn
  <2>2. CASE ~ (Columns \subseteq db.columns)
    <3>1. PICK i \in DOMAIN Migrations : db' = [db EXCEPT !.columns = @ \cup {Migrations[i]}]
      BY <1>7, <2>2 DEF AddColumn
    <3>2. db'.made = db.made /\ db'.columns = db.columns \cup {Migrations[i]}
      BY <3>1 DEF Shape
    <3>3. Migrations[i] \in Columns
      BY <3>1 DEF Columns, Range
    <3> QED BY <1>0, <1>7, <2>2, <3>2, <3>3 DEF AddColumn
  <2> QED BY <2>1, <2>2
<1>8. CASE Seed \/ Wire \/ Listen
  BY <1>0, <1>8, Moved DEF Seed, Wire, Listen, LoadUnchanged, diskVars
<1>9. CASE UNCHANGED <<proc, db>>
  BY <1>0, <1>9
<1> QED BY <1>1, <1>2, <1>3, <1>4, <1>5, <1>6, <1>7, <1>8, <1>9
        DEF Next, LoadRefuses, WizardClosed, SaveFails, StoreFails, WireFails, ListenFails,
            Exit, vars, diskVars

\* The handlers never see a table that lacks a column (store.go:100-130).
THEOREM SchemaCompleteAlways == Spec => []SchemaComplete
<1>1. Init => SchemaInv
  BY RunsInvInit DEF SchemaInv, SchemaComplete, RunsInv, Init, Off
<1>2. SchemaInv => SchemaComplete
  BY DEF SchemaInv
<1> QED BY RunsInvInit, RunsInvNext, <1>1, SchemaInvStep, <1>2, PTL DEF Spec

-----------------------------------------------------------------------------
\* What the environment says is in the configuration, and a text that has a
\* default is not empty.
Says(cfg, layer) ==
  /\ \A k \in Texts : LET said == Given(layer.text, k, "") IN said # "" => cfg.text[k] = said
  /\ \A k \in Numbers : LET n == Given(layer.number, k, 0) IN n # 0 => cfg.number[k] = n
Defaulted(cfg) == \A k \in Texts : cfg.text[k] = "" => Builtin.text[k] = ""

\* The wizard asks for what the environment leaves open, and what it has saved is
\* the file, until it saves again.
SettingsInv ==
  /\ proc.pc \notin {"off", "load"} => Says(proc.cfg, proc.env.layer) /\ Defaulted(proc.cfg)
  /\ proc.pc = "hostname" => proc.cfg.text["ECU_HOSTNAME"] = ""
  /\ written # NoConfig =>
       /\ IsConfig(written) /\ Defaulted(written)
       /\ file \in {Unreadable, Whole(ConfigToFileConfig(written))}
  /\ SettingsLast

\* What SettingsLast says of a configuration, its environment and the one saved.
Agrees(cfg, layer, saved) ==
  /\ \A k \in Texts :
       LET said == Given(layer.text, k, "") IN
       cfg.text[k] = IF said # "" THEN said ELSE saved.text[k]
  /\ \A k \in Numbers :
       LET n == Given(layer.number, k, saved.number[k]) IN n # 0 => cfg.number[k] = n

LEMMA LastAgrees ==
  SettingsLast <=> (Started /\ written # NoConfig => Agrees(proc.cfg, proc.env.layer, written))
  BY DEF SettingsLast, Agrees

\* The environment comes first, and the defaults last.
LEMMA ResolveSays ==
  ASSUME NEW layer, NEW cfg
  PROVE  Says(Resolve(layer, cfg), layer) /\ Defaulted(Resolve(layer, cfg))
  BY DEF Says, Defaulted, Resolve, Pick, IntSetting, DurationSetting, Given

\* Nothing is lost on the way to the file and back.
LEMMA SavedIsRead ==
  ASSUME NEW c
  PROVE  LET d == FileConfigToConfig(ConfigToFileConfig(c)) IN
         /\ \A k \in Texts : d.text[k] = c.text[k]
         /\ \A k \in Numbers : d.number[k] = c.number[k]
  BY DEF FileConfigToConfig, ConfigToFileConfig, Given, Restrict

LEMMA ReadAgrees ==
  ASSUME NEW layer, NEW saved, Defaulted(saved)
  PROVE  Agrees(Resolve(layer, FileConfigToConfig(ConfigToFileConfig(saved))), layer, saved)
<1> DEFINE d == FileConfigToConfig(ConfigToFileConfig(saved))
<1>1. /\ \A k \in Texts : d.text[k] = saved.text[k]
      /\ \A k \in Numbers : d.number[k] = saved.number[k]
  BY SavedIsRead
<1> HIDE DEF d
<1>2. ASSUME NEW k \in Texts
      PROVE  Pick(layer, d, k) = IF Given(layer.text, k, "") # "" THEN Given(layer.text, k, "")
                                 ELSE saved.text[k]
  BY <1>1 DEF Pick, Given, Defaulted
<1>3. ASSUME NEW k \in Numbers, Given(layer.number, k, saved.number[k]) # 0
      PROVE  /\ IntSetting(layer, d, k) = Given(layer.number, k, saved.number[k])
             /\ DurationSetting(layer, d, k) = Given(layer.number, k, saved.number[k])
  BY <1>1, <1>3 DEF IntSetting, DurationSetting, Given
<1>4. Agrees(Resolve(layer, d), layer, saved)
  BY <1>2, <1>3 DEF Agrees, Resolve
<1> QED BY <1>4 DEF d

LEMMA SavedAgrees ==
  ASSUME NEW c, NEW layer, Says(c, layer)
  PROVE  Agrees(c, layer, c)
  BY DEF Says, Agrees, Given

LEMMA MovedOn ==
  ASSUME Shape, NEW pc, Goto(pc)
  PROVE  proc'.pc = pc /\ proc'.cfg = proc.cfg /\ proc'.env = proc.env
  BY DEF Shape, Goto

LEMMA SettingsInvLoad ==
  ASSUME Shape, SettingsInv, Load \/ LoadAsks
  PROVE  SettingsInv'
<1>1. /\ proc'.pc \in {"open", "wizard"} /\ proc'.cfg = Merged /\ proc'.env = proc.env
      /\ file' = file /\ written' = written
  BY DEF Load, LoadAsks, Shape, LoadUnchanged, diskVars
<1>2. Says(Merged, proc.env.layer) /\ Defaulted(Merged)
  BY ResolveSays DEF Merged
<1>3. ASSUME written # NoConfig
      PROVE  Agrees(Merged, proc.env.layer, written)
  <2>1. Defaulted(written) /\ file \in {Unreadable, Whole(ConfigToFileConfig(written))}
    BY <1>3 DEF SettingsInv
  <2>2. file # Unreadable
    BY DEF Load, LoadAsks, Readable, Unreadable
  <2>3. file.layer = ConfigToFileConfig(written)
    BY <2>1, <2>2 DEF Whole
  <2> QED BY <2>1, <2>3, ReadAgrees DEF Merged
<1>4. SettingsLast'
  BY <1>1, <1>3, LastAgrees DEF SettingsLast, Agrees
<1> QED BY <1>1, <1>2, <1>4 DEF SettingsInv

LEMMA SettingsInvWizard ==
  ASSUME Shape, SettingsInv,
         \/ \E k \in Texts : WizardAnswered(k)
         \/ WizardComplete
         \/ \E h \in {"", Host} : WizardHostname(h)
  PROVE  SettingsInv'
<1>1. file' = file /\ written' = written
  BY DEF WizardAnswered, WizardComplete, WizardHostname, LoadUnchanged, diskVars
<1>2. ASSUME NEW k \in Texts, proc.cfg.text[k] = "",
             proc.pc \in {"wizard", "hostname"}, proc'.pc \in {"wizard", "save"},
             proc'.env = proc.env, proc'.cfg.number = proc.cfg.number,
             \A x \in Texts \ {k} : proc'.cfg.text[x] = proc.cfg.text[x]
      PROVE  SettingsInv'
  <2>1. Says(proc.cfg, proc.env.layer) /\ Defaulted(proc.cfg)
    BY <1>2 DEF SettingsInv
  <2>2. Says(proc'.cfg, proc'.env.layer) /\ Defaulted(proc'.cfg)
    BY <1>2, <2>1 DEF Says, Defaulted
  <2> QED BY <1>1, <1>2, <2>2 DEF SettingsInv, SettingsLast, Started
<1>3. ASSUME NEW k \in Texts, WizardAnswered(k)
      PROVE  SettingsInv'
  <2>1. /\ proc'.pc = "wizard" /\ proc'.env = proc.env /\ proc'.cfg.number = proc.cfg.number
        /\ \A x \in Texts \ {k} : proc'.cfg.text[x] = proc.cfg.text[x]
    BY <1>3 DEF WizardAnswered, Shape, IsConfig
  <2>2. proc.cfg.text[k] = "" /\ proc.pc = "wizard"
    BY <1>3 DEF WizardAnswered, MissingRequired
  <2> QED BY <1>2, <2>1, <2>2
<1>4. ASSUME NEW h, WizardHostname(h)
      PROVE  SettingsInv'
  <2>1. /\ proc'.pc = "save" /\ proc'.env = proc.env /\ proc'.cfg.number = proc.cfg.number
        /\ \A x \in Texts \ {"ECU_HOSTNAME"} : proc'.cfg.text[x] = proc.cfg.text[x]
    BY <1>4 DEF WizardHostname, Shape, IsConfig
  <2>2. /\ proc.pc = "hostname"
        /\ "ECU_HOSTNAME" \in Texts /\ proc.cfg.text["ECU_HOSTNAME"] = ""
    BY <1>4 DEF WizardHostname, Texts, SettingsInv
  <2> QED BY <1>2, <2>1, <2>2
<1>5. CASE WizardComplete
  <2> DEFINE pc == IF proc.cfg.text["ECU_HOSTNAME"] = "" THEN "hostname" ELSE "save"
  <2>1. proc.pc = "wizard" /\ Goto(pc)
    BY <1>5 DEF WizardComplete
  <2>2. proc'.pc = pc /\ proc'.cfg = proc.cfg /\ proc'.env = proc.env
    BY <2>1, MovedOn
  <2> QED BY <1>1, <2>1, <2>2 DEF SettingsInv, SettingsLast, Started
<1> QED BY <1>3, <1>4, <1>5

LEMMA SettingsInvSave ==
  ASSUME Shape, SettingsInv, SaveTruncates \/ Saved
  PROVE  SettingsInv'
<1>0. Says(proc.cfg, proc.env.layer) /\ Defaulted(proc.cfg) /\ IsConfig(proc.cfg)
  BY DEF SettingsInv, SaveTruncates, Saved, Shape
<1>1. CASE SaveTruncates
  <2>1. proc'.pc = "saving" /\ proc'.cfg = proc.cfg /\ proc'.env = proc.env
    BY <1>1, MovedOn DEF SaveTruncates
  <2>2. file' = Unreadable /\ written' = written
    BY <1>1 DEF SaveTruncates
  <2> QED BY <1>0, <2>1, <2>2 DEF SettingsInv, SettingsLast, Started
<1>2. CASE Saved
  <2>1. proc'.pc = "open" /\ proc'.cfg = proc.cfg /\ proc'.env = proc.env
    BY <1>2, MovedOn DEF Saved
  <2>2. file' = Whole(ConfigToFileConfig(proc.cfg)) /\ written' = proc.cfg
    BY <1>2 DEF Saved
  <2>3. Agrees(proc.cfg, proc.env.layer, proc.cfg)
    BY <1>0, SavedAgrees
  <2>4. SettingsLast'
    BY <2>1, <2>2, <2>3 DEF SettingsLast, Agrees
  <2> QED BY <1>0, <2>1, <2>2, <2>4 DEF SettingsInv
<1> QED BY <1>1, <1>2

LEMMA SettingsInvStep ==
  ASSUME Shape, SettingsInv, [Next]_vars
  PROVE  SettingsInv'
<1>1. CASE End
  BY <1>1 DEF End, Off, diskVars, SettingsInv, SettingsLast, Started
<1>2. CASE \E env \in Envs : Launch(env)
  BY <1>2 DEF Launch, diskVars, SettingsInv, SettingsLast, Started
<1>3. CASE UNCHANGED <<proc, file, written>>
  BY <1>3 DEF SettingsInv, SettingsLast, Started
<1>4. ASSUME NEW pc \in {"migrate", "seed", "wire", "listen", "serving"},
             Started, Goto(pc), UNCHANGED <<file, written>>
      PROVE  SettingsInv'
  <2>1. proc'.pc = pc /\ proc'.cfg = proc.cfg /\ proc'.env = proc.env
    BY <1>4, MovedOn
  <2>2. Says(proc'.cfg, proc'.env.layer) /\ Defaulted(proc'.cfg)
    BY <1>4, <2>1 DEF SettingsInv, Started
  <2>3. SettingsLast'
    BY <1>4, <2>1 DEF SettingsInv, SettingsLast
  <2> QED BY <1>4, <2>1, <2>2, <2>3 DEF SettingsInv
<1>5. CASE Open \/ AddColumn \/ Seed \/ Wire \/ Listen
  BY <1>3, <1>4, <1>5 DEF Open, AddColumn, Seed, Wire, Listen, LoadUnchanged, diskVars, Started
<1> QED BY <1>1, <1>2, <1>3, <1>5, SettingsInvLoad, SettingsInvWizard, SettingsInvSave
        DEF Next, LoadRefuses, WizardClosed, SaveFails, StoreFails, WireFails, ListenFails,
            Exit, vars, diskVars

\* What the wizard has saved, later starts run with, save where their environment
\* says otherwise (config.go:352, load.go:210-212): the file, once it is whole
\* again, reads back as what was saved, and the wizard asks only for what the
\* environment leaves open.
THEOREM SettingsLastAlways == Spec => []SettingsLast
<1>1. Init => SettingsInv
  BY DEF Init, SettingsInv, SettingsLast, Started, Off
<1>2. RunsInv /\ SettingsInv /\ [Next]_vars => SettingsInv'
  BY SettingsInvStep DEF RunsInv
<1>3. SettingsInv => SettingsLast
  BY DEF SettingsInv
<1> QED BY RunsInvInit, RunsInvNext, <1>1, <1>2, <1>3, PTL DEF Spec

-----------------------------------------------------------------------------
LEMMA ConfigNumbers ==
  /\ NoConfig.number \in [Numbers -> Int]
  /\ \A layer, c : NumbersGiven(layer) /\ c.number \in [Numbers -> Int] =>
       Resolve(layer, c).number \in [Numbers -> Int]
  /\ \A layer : NumbersGiven(layer) => FileConfigToConfig(layer).number \in [Numbers -> Int]
  /\ \A c : c.number \in [Numbers -> Int] => NumbersGiven(ConfigToFileConfig(c))
<1>1. \A layer : NumbersGiven(layer) => FileConfigToConfig(layer).number \in [Numbers -> Int]
  BY DEF FileConfigToConfig, NumbersGiven, Given
<1>2. NumbersGiven(NoLayer)
  BY DEF NumbersGiven, NoLayer
<1>3. NoConfig.number \in [Numbers -> Int]
  BY <1>1, <1>2 DEF NoConfig
<1>4. ASSUME NEW layer, NEW c, NumbersGiven(layer), c.number \in [Numbers -> Int]
      PROVE  Resolve(layer, c).number \in [Numbers -> Int]
  <2>0. ASSUME NEW f \in [Numbers -> Nat \ {0}]
        PROVE  \A k \in Numbers : f[k] \in Int
    OBVIOUS
  <2>1. \A k \in Numbers : Builtin.number[k] \in Int /\ c.number[k] \in Int
    BY <1>4, <2>0, BuiltinAssumption, Zenon
  <2>2. \A k \in Numbers : IntSetting(layer, c, k) \in Int
    BY <1>4, <2>1 DEF IntSetting, NumbersGiven
  <2>3. \A k \in Numbers : DurationSetting(layer, c, k) \in Int
    BY <1>4, <2>1 DEF DurationSetting, NumbersGiven
  <2> QED BY <2>2, <2>3 DEF Resolve
<1>5. ASSUME NEW c, c.number \in [Numbers -> Int]
      PROVE  NumbersGiven(ConfigToFileConfig(c))
  BY <1>5 DEF ConfigToFileConfig, NumbersGiven, Restrict
<1> QED BY <1>1, <1>3, <1>4, <1>5

\* The types of the disk and of the process, and those of what it serves.
ProcTyped ==
  /\ file.st \in {"absent", "unreadable", "whole"} /\ NumbersGiven(file.layer)
  /\ proc.pc \in ProcPC /\ proc.env \in Envs \cup {NoEnv}
  /\ proc.cfg.number \in [Numbers -> Int]
  /\ launches \in 0..MaxLaunches
  /\ db.made \in BOOLEAN

KeysTyped == \A k \in DOMAIN keys : k # "" /\ keys[k] \in {"active", "disabled"}
SigningTyped == signing.start \in 0..launches
TokensTyped == \A t \in tokens : t.sid \in Sessions /\ t.expiry \in 0..(now + ViewTokenTTL)
OneCookie == \A s \in Sessions : cookie[s] = {} \/ \E t \in tokens : cookie[s] = {t}
SeenTyped == seen \in Sessions \cup {None} /\ now \in 0..MaxTime

ServedTyped == KeysTyped /\ SigningTyped /\ TokensTyped /\ OneCookie /\ SeenTyped

LEMMA ProcTypedStep ==
  ASSUME Shape, ProcTyped, [Next]_vars
  PROVE  ProcTyped'
<1> USE DEF ProcTyped, diskVars
<1>0. /\ NoConfig.number \in [Numbers -> Int] /\ NumbersGiven(NoLayer) /\ MaxLaunches \in Nat
      /\ Off.pc = "off" /\ Off.env = NoEnv /\ Off.cfg = NoConfig
  BY ConfigNumbers, LaunchAssumption DEF Off, NumbersGiven, NoLayer
<1>1. CASE End
  BY <1>0, <1>1 DEF End, ProcPC
<1>2. CASE \E env \in Envs : Launch(env)
  BY <1>0, <1>2 DEF Launch, ProcPC
<1>3. CASE Load \/ LoadAsks
  <2>1. /\ proc'.pc \in ProcPC /\ proc'.cfg = Merged /\ proc'.env = proc.env
        /\ UNCHANGED <<diskVars, launches>>
    BY <1>3 DEF Load, LoadAsks, Shape, LoadUnchanged, ProcPC
  <2>2. NumbersGiven(proc.env.layer)
    BY <1>0, LaunchAssumption DEF NoEnv
  <2>3. Merged.number \in [Numbers -> Int]
    BY <2>2, ConfigNumbers DEF Merged
  <2> QED BY <2>1, <2>3
<1>4. CASE \/ \E k \in Texts : WizardAnswered(k)
           \/ \E h \in {"", Host} : WizardHostname(h)
  <2>1. ASSUME NEW k \in Texts, WizardAnswered(k)
        PROVE  /\ proc'.pc = "wizard" /\ proc'.cfg.number = proc.cfg.number
               /\ proc'.env = proc.env
    BY <2>1 DEF WizardAnswered, Shape, IsConfig
  <2>2. ASSUME NEW h, WizardHostname(h)
        PROVE  /\ proc'.pc = "save" /\ proc'.cfg.number = proc.cfg.number
               /\ proc'.env = proc.env
    BY <2>2 DEF WizardHostname, Shape, IsConfig
  <2>3. UNCHANGED <<diskVars, launches>>
    BY <1>4 DEF WizardAnswered, WizardHostname, LoadUnchanged
  <2> QED BY <1>4, <2>1, <2>2, <2>3 DEF ProcPC
<1>5. ASSUME NEW pc \in ProcPC, Goto(pc)
      PROVE  proc'.pc \in ProcPC /\ proc'.cfg = proc.cfg /\ proc'.env = proc.env
  BY <1>5, MovedOn
<1>6. CASE WizardComplete \/ SaveTruncates \/ Saved
  <2>1. \E pc \in ProcPC : Goto(pc)
    BY <1>6 DEF WizardComplete, SaveTruncates, Saved, ProcPC
  <2>2. launches' = launches /\ db' = db
    BY <1>6 DEF WizardComplete, SaveTruncates, Saved, LoadUnchanged
  <2>3. file'.st \in {"absent", "unreadable", "whole"} /\ NumbersGiven(file'.layer)
    <3>1. NumbersGiven(ConfigToFileConfig(proc.cfg))
      BY ConfigNumbers
    <3>2. CASE SaveTruncates
      BY <1>0, <3>2 DEF SaveTruncates, Unreadable
    <3>3. CASE Saved
      BY <3>1, <3>3 DEF Saved, Whole
    <3>4. CASE WizardComplete
      BY <3>4 DEF WizardComplete, LoadUnchanged
    <3> QED BY <1>6, <3>2, <3>3, <3>4
  <2> QED BY <1>5, <2>1, <2>2, <2>3
<1>7. CASE Open \/ AddColumn \/ Seed \/ Wire \/ Listen
  <2>1. UNCHANGED proc \/ \E pc \in ProcPC : Goto(pc)
    BY <1>7 DEF Open, AddColumn, Seed, Wire, Listen, ProcPC
  <2>2. UNCHANGED <<file, launches>>
    BY <1>7 DEF Open, AddColumn, Seed, Wire, Listen, LoadUnchanged
  <2>3. db'.made \in BOOLEAN
    <3>1. CASE Open
      BY <3>1 DEF Open
    <3>2. CASE AddColumn
      BY <3>2 DEF AddColumn, Shape
    <3>3. CASE Seed \/ Wire \/ Listen
      BY <3>3 DEF Seed, Wire, Listen, LoadUnchanged
    <3> QED BY <1>7, <3>1, <3>2, <3>3
  <2> QED BY <1>5, <2>1, <2>2, <2>3
<1>8. CASE UNCHANGED <<proc, diskVars, launches>>
  BY <1>8
<1> QED BY <1>1, <1>2, <1>3, <1>4, <1>6, <1>7, <1>8
        DEF Next, LoadRefuses, WizardClosed, SaveFails, StoreFails, WireFails, ListenFails,
            Exit, vars

LEMMA ServedTypedStep ==
  ASSUME RunsInv, AccessInv, ProcTyped, ProcTyped', ServedTyped, [Next]_vars
  PROVE  ServedTyped'
<1> USE DEF ServedTyped
<1>0. /\ launches \in Nat /\ launches' \in Nat /\ now \in Nat /\ MaxTime \in Nat
      /\ ViewTokenTTL \in Nat
  BY AccessAssumption, LaunchAssumption DEF ProcTyped, SeenTyped
<1>a. UNCHANGED keys => KeysTyped'
  BY DEF KeysTyped
<1>b. UNCHANGED signing /\ launches' \in {launches, launches + 1} => SigningTyped'
  BY <1>0 DEF SigningTyped
<1>c. UNCHANGED <<tokens, now>> => TokensTyped'
  BY DEF TokensTyped
<1>d. UNCHANGED <<tokens, cookie>> => OneCookie'
  BY DEF OneCookie
<1>e. UNCHANGED now /\ seen' \in Sessions \cup {seen, None} => SeenTyped'
  BY DEF SeenTyped
<1>f. UNCHANGED accessVars /\ launches' \in {launches, launches + 1} => ServedTyped'
  BY <1>a, <1>b, <1>c, <1>d, <1>e DEF accessVars
<1>1. CASE End
  <2>0. signing'.start = 0 /\ launches' = launches
    BY <1>1 DEF End, Unsigned
  <2>1. SigningTyped'
    BY <1>0, <2>0 DEF SigningTyped
  <2> QED BY <1>1, <1>a, <1>c, <1>d, <1>e, <2>1 DEF End
<1>2. CASE \E env \in Envs : Launch(env)
  BY <1>2, <1>f DEF Launch
<1>3. CASE Load \/ LoadAsks \/ (\E k \in Texts : WizardAnswered(k)) \/ WizardComplete
           \/ \E h \in {"", Host} : WizardHostname(h)
  BY <1>3, <1>f DEF Load, LoadAsks, WizardAnswered, WizardComplete, WizardHostname, LoadUnchanged
<1>4. CASE SaveTruncates \/ Saved \/ Open \/ AddColumn \/ Listen
  BY <1>4, <1>f DEF SaveTruncates, Saved, Open, AddColumn, Listen, LoadUnchanged
<1>5. CASE Seed
  <2>1. proc.cfg.text["ECU_API_KEY"] # ""
    BY <1>5 DEF Seed, RunsInv, Resolved, Complete, MissingRequired, RequiredFor, CloudTexts
  <2>2. KeysTyped'
    BY <1>5, <2>1 DEF Seed, SeedBootstrapKey, KeysTyped
  <2> QED BY <1>5, <1>b, <1>c, <1>d, <1>e, <2>2 DEF Seed
<1>6. CASE Wire
  <2>0. signing'.start \in {0, launches} /\ launches' = launches
    BY <1>6 DEF Wire, ResolveSigningKey
  <2>1. SigningTyped'
    BY <1>0, <2>0 DEF SigningTyped
  <2> QED BY <1>6, <1>a, <1>c, <1>d, <1>e, <2>1 DEF Wire
<1>7. CASE ServeNext
  <2> PICK s \in Sessions : \/ \E k \in DOMAIN keys : Poll(k, s)
                            \/ \E t \in tokens : Watch(t, s)
                            \/ WatchByCookie(s)
    BY <1>7
  <2>0. launches' = launches
    BY <1>7
  <2>1. CASE \E k \in DOMAIN keys : Poll(k, s)
    <3>1. TokensTyped'
      BY <1>0, <2>1 DEF Poll, MintViewToken, TokensTyped
    <3>2. OneCookie'
      BY <2>1 DEF Poll, OneCookie
    <3> QED BY <2>0, <2>1, <3>1, <3>2, <1>a, <1>b, <1>e DEF Poll
  <2>2. CASE \E t \in tokens : Watch(t, s)
    <3>1. OneCookie'
      BY <2>2 DEF Watch, OneCookie, AccessInv
    <3> QED BY <2>0, <2>2, <3>1, <1>a, <1>b, <1>c, <1>e DEF Watch
  <2>3. CASE WatchByCookie(s)
    BY <2>0, <2>3, <1>a, <1>b, <1>c, <1>d, <1>e DEF WatchByCookie
  <2> QED BY <2>1, <2>2, <2>3
<1>8. CASE Outside /\ Tick
  <2>1. TokensTyped'
    BY <1>0, <1>8 DEF Tick, TokensTyped
  <2>2. SeenTyped'
    BY <1>0, <1>8 DEF Tick, SeenTyped
  <2> QED BY <1>8, <1>a, <1>b, <1>d, <2>1, <2>2 DEF Tick
<1>9. CASE Outside /\ ~ Tick
  <2>1. KeysTyped'
    BY <1>9 DEF DisableKey, KeysTyped
  <2> QED BY <1>9, <1>b, <1>c, <1>d, <1>e, <2>1 DEF DisableKey
<1>10. CASE UNCHANGED vars
  BY <1>10, <1>f DEF vars
<1> QED BY <1>1, <1>2, <1>3, <1>4, <1>5, <1>6, <1>7, <1>8, <1>9, <1>10
        DEF Next, LoadRefuses, WizardClosed, SaveFails, StoreFails, WireFails, ListenFails, Exit

\* Whatever the environments and the files, every launch leaves the process, the
\* tables and the tokens well typed, and a browser with one cookie for a session's
\* path at most (watch.go:171-183).
THEOREM StartupTyped == Spec => []StartupTypeOK
<1> DEFINE Inv == RunsInv /\ AccessInv /\ SchemaInv /\ ProcTyped /\ ServedTyped
<1>1. Init => ProcTyped
  BY ConfigNumbers, LaunchAssumption
     DEF Init, ProcTyped, Absent, Unreadable, Whole, Off, ProcPC, NumbersGiven, NoLayer
<1>2. Init => ServedTyped
  <2> SUFFICES ASSUME Init PROVE ServedTyped
    OBVIOUS
  <2>1. signing.start = 0 /\ launches = 0 /\ now = 0 /\ MaxTime \in Nat
    BY AccessAssumption DEF Init, Unsigned
  <2>2. SigningTyped /\ SeenTyped
    BY <2>1 DEF Init, SigningTyped, SeenTyped
  <2>3. KeysTyped /\ TokensTyped /\ OneCookie
    BY DEF Init, KeysTyped, TokensTyped, OneCookie
  <2> QED BY <2>2, <2>3 DEF ServedTyped
<1>3. Init => SchemaInv
  BY RunsInvInit DEF SchemaInv, SchemaComplete, RunsInv, Init, Off
<1>4. Inv /\ [Next]_vars => Inv'
  BY RunsInvNext, AccessInvNext, SchemaInvStep, ProcTypedStep, ServedTypedStep DEF RunsInv
<1>5. Inv => StartupTypeOK
  <2> SUFFICES ASSUME Inv PROVE StartupTypeOK
    OBVIOUS
  <2>1. DOMAIN proc.cfg.text = Texts
    BY DEF RunsInv, Shape, IsConfig
  <2>2. \A s \in Sessions : cookie[s] \subseteq tokens /\ Cardinality(cookie[s]) <= 1
    <3> TAKE s \in Sessions
    <3>1. CASE cookie[s] = {}
      BY <3>1, FS_EmptySet
    <3>2. CASE cookie[s] # {}
      <4>1. PICK t \in tokens : cookie[s] = {t}
        BY <3>2 DEF ServedTyped, OneCookie
      <4>2. Cardinality({t}) = 1
        BY FS_Singleton
      <4> QED BY <4>1, <4>2
    <3> QED BY <3>1, <3>2
  <2> QED BY <2>1, <2>2 DEF StartupTypeOK, ProcTyped, ServedTyped, KeysTyped, SigningTyped,
          TokensTyped, SeenTyped, SchemaInv
<1> QED BY RunsInvInit, AccessInvInit, <1>1, <1>2, <1>3, <1>4, <1>5, PTL DEF Spec

=============================================================================
