------------------------------ MODULE Startup -------------------------------
(***************************************************************************)
(* One control plane, launched again and again, each time in an            *)
(* environment of its own: the configuration and its wizard (load.go), the *)
(* database and its migrations (store.go), the bootstrap key, the provider *)
(* and the listener (main.go, tlsboot.go), until it serves or gives up.    *)
(* What it serves of Access depends on what it has read.                   *)
(***************************************************************************)
EXTENDS Settings, Access

CONSTANTS Envs,          \* the environments it may be launched in
          Files,         \* the config files an operator may have written
          Answer, Host,  \* what is typed at a prompt
          MaxLaunches    \* bound

\* A number that is given is one: Atoi and ParseDuration take negative ones, too.
NumbersGiven(layer) == \A k \in DOMAIN layer.number : layer.number[k] \in Int

ASSUME LaunchAssumption ==
  /\ MaxLaunches \in Nat
  /\ \A env \in Envs : NumbersGiven(env.layer)
  /\ \A layer \in Files : NumbersGiven(layer)

VARIABLES
  file,      \* the config file
  written,   \* the configuration the wizard has last saved, if any
  db,        \* the tables: whether there are any, and the columns added later
  proc,      \* the process: step, environment, configuration
  launches

vars == <<accessVars, file, written, db, proc, launches>>
diskVars == <<file, written, db>>

Absent == [st |-> "absent", layer |-> NoLayer]
Unreadable == [st |-> "unreadable", layer |-> NoLayer]
Whole(layer) == [st |-> "whole", layer |-> layer]

\* The columns of sessions that came after the first build, oldest first.
Migrations ==
  <<"tunnel_token", "instance_id", "tunnel_lost_at", "snapshot_image", "stopped_at">>
Columns == Range(Migrations)

NoConfig == FileConfigToConfig(NoLayer)
\* An environment: the settings given, whether a number among them does not
\* parse, and whether standard input is a terminal.
NoEnv == [layer |-> NoLayer, malformed |-> FALSE, tty |-> FALSE]
Off == [pc |-> "off", env |-> NoEnv, cfg |-> NoConfig]

ProcPC == {"off", "load", "wizard", "hostname", "save", "saving", "open", "migrate",
           "seed", "wire", "listen", "serving"}

\* No database yet, or one made by the first build.
Init ==
  /\ file \in {Absent, Unreadable} \cup {Whole(f) : f \in Files}
  /\ written = NoConfig
  /\ db \in [made : BOOLEAN, columns : {{}}]
  /\ proc = Off /\ launches = 0
  /\ keys = <<>> /\ signing = Unsigned
  /\ tokens = {} /\ cookie = [s \in Sessions |-> {}] /\ seen = None
  /\ now = 0

-----------------------------------------------------------------------------
Goto(pc) == proc' = [proc EXCEPT !.pc = pc]

\* The process ends; what is not on disk is gone.
End ==
  /\ proc' = Off
  /\ signing' = Unsigned /\ seen' = None
  /\ UNCHANGED <<diskVars, launches, keys, tokens, cookie, now>>

Launch(env) ==
  /\ proc.pc = "off" /\ launches < MaxLaunches
  /\ launches' = launches + 1
  /\ proc' = [pc |-> "load", env |-> env, cfg |-> NoConfig]
  /\ UNCHANGED <<accessVars, diskVars>>

Merged == Resolve(proc.env.layer, FileConfigToConfig(file.layer))
Readable == file.st # "unreadable" /\ ~ proc.env.malformed

LoadUnchanged == UNCHANGED <<accessVars, diskVars, launches>>

Load ==
  /\ proc.pc = "load" /\ Readable
  /\ MissingRequired(Merged) = {}
  /\ proc' = [proc EXCEPT !.pc = "open", !.cfg = Merged]
  /\ LoadUnchanged

\* Mutant of LoadAsks: standard input is not looked at.
LoadAsksAnyone ==
  /\ proc.pc = "load" /\ Readable
  /\ MissingRequired(Merged) # {}
  /\ proc' = [proc EXCEPT !.pc = "wizard", !.cfg = Merged]
  /\ LoadUnchanged

LoadAsks ==
  /\ proc.pc = "load" /\ Readable
  /\ MissingRequired(Merged) # {} /\ proc.env.tty
  /\ proc' = [proc EXCEPT !.pc = "wizard", !.cfg = Merged]
  /\ LoadUnchanged

\* An unreadable file, a number that does not parse, or nobody to ask.
LoadRefuses ==
  /\ proc.pc = "load"
  /\ Readable => MissingRequired(Merged) # {} /\ ~ proc.env.tty
  /\ End

-----------------------------------------------------------------------------
\* The wizard asks again until it has an answer; the order shows nowhere.
WizardAnswered(k) ==
  /\ proc.pc = "wizard" /\ k \in MissingRequired(proc.cfg)
  /\ proc' = [proc EXCEPT !.cfg.text[k] = Answer]
  /\ LoadUnchanged

WizardClosed == proc.pc = "wizard" /\ MissingRequired(proc.cfg) # {} /\ End

WizardComplete ==
  /\ proc.pc = "wizard" /\ MissingRequired(proc.cfg) = {}
  /\ Goto(IF proc.cfg.text["ECU_HOSTNAME"] = "" THEN "hostname" ELSE "save")
  /\ LoadUnchanged

\* Optional: nothing, or the end of the input, will do.
WizardHostname(h) ==
  /\ proc.pc = "hostname"
  /\ proc' = [proc EXCEPT !.pc = "save", !.cfg.text["ECU_HOSTNAME"] = h]
  /\ LoadUnchanged

\* os.WriteFile empties the file before it writes.
SaveTruncates ==
  /\ proc.pc = "save"
  /\ file' = Unreadable
  /\ Goto("saving")
  /\ UNCHANGED <<accessVars, written, db, launches>>

Saved ==
  /\ proc.pc = "saving"
  /\ file' = Whole(ConfigToFileConfig(proc.cfg))
  /\ written' = proc.cfg
  /\ Goto("open")
  /\ UNCHANGED <<accessVars, db, launches>>

SaveFails == proc.pc \in {"save", "saving"} /\ End

-----------------------------------------------------------------------------
\* CREATE TABLE IF NOT EXISTS: a new table has every column.
Open ==
  /\ proc.pc = "open"
  /\ db' = IF db.made THEN db ELSE [made |-> TRUE, columns |-> Columns]
  /\ Goto("migrate")
  /\ UNCHANGED <<accessVars, file, written, launches>>

\* Mutant of AddColumn: the first ALTER is taken for all of them.
AddColumnOnce ==
  /\ proc.pc = "migrate"
  /\ IF db.columns # {} THEN UNCHANGED db /\ Goto("seed")
     ELSE db' = [db EXCEPT !.columns = {Migrations[1]}] /\ UNCHANGED proc
  /\ UNCHANGED <<accessVars, file, written, launches>>

\* One ALTER for each column that table_info does not list, in that order.
AddColumn ==
  /\ proc.pc = "migrate"
  /\ IF Columns \subseteq db.columns THEN UNCHANGED db /\ Goto("seed")
     ELSE /\ \E i \in DOMAIN Migrations :
               /\ Migrations[i] \notin db.columns
               /\ \A j \in 1..(i - 1) : Migrations[j] \in db.columns
               /\ db' = [db EXCEPT !.columns = @ \cup {Migrations[i]}]
          /\ UNCHANGED proc
  /\ UNCHANGED <<accessVars, file, written, launches>>

Seed ==
  /\ proc.pc = "seed"
  /\ SeedBootstrapKey(proc.cfg.text["ECU_API_KEY"])
  /\ Goto("wire")
  /\ UNCHANGED <<signing, tokens, cookie, seen, now, diskVars, launches>>

StoreFails == proc.pc \in {"open", "migrate", "seed"} /\ End

\* provider.New, not in dev mode, and NewServer.  The reaper and StartBake run
\* from here on, before the listener does.
Wire ==
  /\ proc.pc = "wire"
  /\ \/ proc.cfg.text["ECU_DEV_TOOLSERVER"] # ""
     \/ Registered(proc.cfg.text["ECU_PROVIDER"])
  /\ signing' = ResolveSigningKey(proc.cfg.text["ECU_SIGNING_KEY"], launches)
  /\ Goto("listen")
  /\ UNCHANGED <<keys, tokens, cookie, seen, now, diskVars, launches>>

\* An unknown provider; for the local one also a docker that is not there.
WireFails ==
  /\ proc.pc = "wire" /\ proc.cfg.text["ECU_DEV_TOOLSERVER"] = ""
  /\ ~ BuildsHetzner(proc.cfg.text["ECU_PROVIDER"])
  /\ End

\* Plain HTTP; or with ECU_TLS=auto a certificate for ECU_HOSTNAME, else for
\* the public address, which may not be found.
Listen ==
  /\ proc.pc = "listen"
  /\ Goto("serving")
  /\ LoadUnchanged

\* The address is taken, or there is no hostname to be had.
ListenFails == proc.pc = "listen" /\ End

\* Killed, told to stop, or a crash.
Exit == proc.pc # "off" /\ End

-----------------------------------------------------------------------------
LoadNext == Load \/ LoadAsks \/ LoadRefuses
WizardNext ==
  \/ \E k \in Texts : WizardAnswered(k)
  \/ WizardClosed \/ WizardComplete
  \/ \E h \in {"", Host} : WizardHostname(h)
SaveNext == SaveTruncates \/ Saved \/ SaveFails
BootNext ==
  Open \/ AddColumn \/ Seed \/ StoreFails \/ Wire \/ WireFails \/ Listen \/ ListenFails

ServeNext == proc.pc = "serving" /\ AccessNext /\ UNCHANGED <<diskVars, proc, launches>>
Outside ==
  /\ Tick \/ \E k \in DOMAIN keys : DisableKey(k)
  /\ UNCHANGED <<diskVars, proc, launches>>

Next ==
  \/ \E env \in Envs : Launch(env)
  \/ LoadNext \/ WizardNext \/ SaveNext \/ BootNext \/ Exit
  \/ ServeNext \/ Outside

\* The program goes on with what it can do alone; whoever sits at the wizard
\* may never answer.
Spec == /\ Init /\ [][Next]_vars
        /\ WF_vars(LoadNext) /\ WF_vars(SaveNext) /\ WF_vars(BootNext)

-----------------------------------------------------------------------------
StartupTypeOK ==
  /\ file.st \in {"absent", "unreadable", "whole"}
  /\ db.made \in BOOLEAN /\ db.columns \subseteq Columns
  /\ proc.pc \in ProcPC /\ proc.env \in Envs \cup {NoEnv}
  /\ DOMAIN proc.cfg.text = Texts /\ proc.cfg.number \in [Numbers -> Int]
  /\ launches \in 0..MaxLaunches
  /\ \A k \in DOMAIN keys : k # "" /\ keys[k] \in {"active", "disabled"}
  /\ signing.start \in 0..launches
  /\ \A t \in tokens : t.sid \in Sessions /\ t.expiry \in 0..(now + ViewTokenTTL)
  /\ \A s \in Sessions : cookie[s] \subseteq tokens /\ Cardinality(cookie[s]) <= 1
  /\ seen \in Sessions \cup {None} /\ now \in 0..MaxTime

Started == proc.pc \in {"open", "migrate", "seed", "wire", "listen", "serving"}

\* A control plane that works, works with an admin key and, when the provider's name
\* is written without blanks around it and is that of a cloud, with its token, type
\* and region, whichever of environment, file, defaults and prompts each of them is
\* from (config.go:508-519, load.go:294-368).
RunsComplete ==
  proc.pc \in {"listen", "serving"} =>
    LET t == proc.cfg.text IN
    /\ t["ECU_API_KEY"] # ""
    /\ \/ t["ECU_DEV_TOOLSERVER"] # ""
       \/ t["ECU_PROVIDER"] \in LocalNames \cup DOMAIN TrimSpace
       \/ \A k \in CloudTexts : t[k] # ""

\* What the wizard saved is what later starts run with, save where their own
\* environment says otherwise (config.go:352, load.go:210-212).  A count of zero
\* is not saved, and a duration of zero is not kept: for these nothing is said.
SettingsLast ==
  Started /\ written # NoConfig =>
    /\ \A k \in Texts :
         LET said == Given(proc.env.layer.text, k, "") IN
         proc.cfg.text[k] = IF said # "" THEN said ELSE written.text[k]
    /\ \A k \in Numbers :
         LET n == Given(proc.env.layer.number, k, written.number[k]) IN
         n # 0 => proc.cfg.number[k] = n

\* The handlers never run on a database that lacks a column, wherever an earlier
\* start was killed in the middle of its migrations (store.go:100-130).
SchemaComplete ==
  proc.pc \in {"seed", "wire", "listen", "serving"} => db.made /\ db.columns = Columns

\* A key an operator has disabled stays so over every restart with that key in
\* the environment or the file (keys.go:30-33, main.go:136-137).
DisabledStays ==
  [][\A k \in DOMAIN keys :
       keys[k] = "disabled" => k \in DOMAIN keys' /\ keys'[k] = "disabled"]_vars

\* A viewer that opens is of a session that somebody with a key has polled, of this
\* server's signing key, and not too long ago - by a link, or by the cookie left
\* of one, over expiry and restarts (watch.go:53-62, 171-183).
WatchScoped ==
  seen # None => \E t \in tokens : t.sid = seen /\ t.by = signing /\ now < t.expiry

\* A start without a terminal is decided: it serves or it ends, and never waits
\* for input (load.go:25-26, 78-88).
HeadlessDecides ==
  proc.pc = "load" /\ ~ proc.env.tty ~> proc.pc \in {"off", "serving"}

=============================================================================
