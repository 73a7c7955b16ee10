------------------------------ MODULE Settings ------------------------------
(***************************************************************************)
(* The settings of the control plane (config.go, load.go).  A layer - the  *)
(* environment or the config file - gives values to some of the settings;  *)
(* a Config gives one to each, "" and 0 standing for unset.  Kept are the  *)
(* texts something branches on, and one number of each kind: the others    *)
(* are merged by the same rules.                                           *)
(***************************************************************************)
EXTENDS Integers, Functions

CONSTANTS
  Builtin,                   \* the defaults of config.go
  HetznerNames, LocalNames,  \* the names of the providers, in upper and lower case
  TrimSpace                  \* what is left of a name with blanks around it

Texts == {"ECU_API_KEY", "ECU_SIGNING_KEY", "ECU_PROVIDER", "ECU_HCLOUD_TOKEN",
          "ECU_INSTANCE_TYPE", "ECU_REGION", "ECU_DEV_TOOLSERVER", "ECU_HOSTNAME",
          "ECU_TLS"}
Counts == {"ECU_MAX_SESSIONS", "ECU_MAX_PERSISTENT_SESSIONS"}
Durations == {"ECU_IDLE_TIMEOUT", "ECU_MAX_LIFETIME"}
Numbers == Counts \cup Durations

ASSUME BuiltinAssumption ==
  /\ DOMAIN Builtin.text = Texts
  /\ Builtin.number \in [Numbers -> Nat \ {0}]
  /\ \A k \in {"ECU_API_KEY", "ECU_HCLOUD_TOKEN", "ECU_INSTANCE_TYPE", "ECU_REGION"} :
       Builtin.text[k] = ""
  /\ Builtin.text["ECU_PROVIDER"] \in HetznerNames

ASSUME NamesAssumption ==
  /\ "" \notin HetznerNames \cup LocalNames
  /\ HetznerNames \cap LocalNames = {}
  /\ DOMAIN TrimSpace \cap (HetznerNames \cup LocalNames \cup {""}) = {}

NoLayer == [text |-> <<>>, number |-> <<>>]

Given(layer, k, zero) == IF k \in DOMAIN layer THEN layer[k] ELSE zero

\* Reading the config file: what it does not give is zero.
FileConfigToConfig(layer) ==
  [text |-> [k \in Texts |-> Given(layer.text, k, "")],
   number |-> [k \in Numbers |-> Given(layer.number, k, 0)]]

\* Mutant of ConfigToFileConfig: a field that is not copied.
ForgetsHostname(c) ==
  [text |-> Restrict(c.text, {k \in Texts \ {"ECU_HOSTNAME"} : c.text[k] # ""}),
   number |-> Restrict(c.number, {k \in Numbers : c.number[k] # 0})]

\* Writing it: omitempty leaves out what is zero.
ConfigToFileConfig(c) ==
  [text |-> Restrict(c.text, {k \in Texts : c.text[k] # ""}),
   number |-> Restrict(c.number, {k \in Numbers : c.number[k] # 0})]

\* The first that is not empty.
Pick(env, file, k) ==
  IF Given(env.text, k, "") # "" THEN env.text[k]
  ELSE IF file.text[k] # "" THEN file.text[k] ELSE Builtin.text[k]

\* A zero in the environment is a value, a zero in the file is none ...
IntSetting(env, file, k) ==
  IF k \in DOMAIN env.number THEN env.number[k]
  ELSE IF file.number[k] # 0 THEN file.number[k] ELSE Builtin.number[k]

\* ... and a zero duration is replaced by the default wherever it is from.
DurationSetting(env, file, k) ==
  LET d == IF k \in DOMAIN env.number THEN env.number[k] ELSE file.number[k] IN
  IF d = 0 THEN Builtin.number[k] ELSE d

Resolve(env, file) ==
  [text |-> [k \in Texts |-> Pick(env, file, k)],
   number |-> [k \in Numbers |->
                 IF k \in Counts THEN IntSetting(env, file, k)
                                  ELSE DurationSetting(env, file, k)]]

\* provider.New looks a name up without regard to case or to the blanks around it,
\* and takes none at all for hetzner.
Trimmed(name) == Given(TrimSpace, name, name)
BuildsHetzner(name) == Trimmed(name) \in HetznerNames \cup {""}
Registered(name) == BuildsHetzner(name) \/ Trimmed(name) \in LocalNames

\* What a session on hetzner cannot be provisioned without.
CloudTexts == {"ECU_HCLOUD_TOKEN", "ECU_INSTANCE_TYPE", "ECU_REGION"}

\* Mutant of RequiredFor: the provider's name is compared as it is spelt.
RequiredForExact(c) ==
  {"ECU_API_KEY"} \cup
  IF c.text["ECU_DEV_TOOLSERVER"] = "" /\ c.text["ECU_PROVIDER"] = "hetzner"
  THEN CloudTexts ELSE {}

\* What must be set before the control plane starts: here a name is compared without
\* regard to case, but with its blanks.
RequiredFor(c) ==
  {"ECU_API_KEY"} \cup
  IF c.text["ECU_DEV_TOOLSERVER"] = "" /\ c.text["ECU_PROVIDER"] \in HetznerNames
  THEN CloudTexts ELSE {}

MissingRequired(c) == {k \in RequiredFor(c) : c.text[k] = ""}

=============================================================================
