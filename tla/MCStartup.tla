----------------------------- MODULE MCStartup -----------------------------
(***************************************************************************)
(* Startup in a few environments: the ones that differ in what they leave  *)
(* to the file, the wizard and the defaults.                               *)
(***************************************************************************)
EXTENDS Startup, TLC

MCBuiltin ==
  [text |-> [k \in Texts |-> CASE k = "ECU_PROVIDER" -> "hetzner"
                                [] k = "ECU_TLS" -> "off" [] OTHER -> ""],
   number |-> [k \in Numbers |-> CASE k = "ECU_MAX_SESSIONS" -> 10
                                    [] k = "ECU_MAX_PERSISTENT_SESSIONS" -> 3
                                    [] k = "ECU_IDLE_TIMEOUT" -> 15 [] OTHER -> 480]]

MCTrimSpace == " hetzner" :> "hetzner" @@ " " :> ""

Env(text, number, tty) ==
  [layer |-> [text |-> text, number |-> number], malformed |-> FALSE, tty |-> tty]

Cloud ==
  "ECU_HCLOUD_TOKEN" :> "token" @@ "ECU_INSTANCE_TYPE" :> "type" @@ "ECU_REGION" :> "region"

Bare == Env(<<>>, <<>>, FALSE)
AtTerminal == Env("ECU_HOSTNAME" :> Host @@ "ECU_SIGNING_KEY" :> "signed",
                  "ECU_MAX_SESSIONS" :> 0 @@ "ECU_IDLE_TIMEOUT" :> 0
                    @@ "ECU_MAX_LIFETIME" :> 60, TRUE)
CloudInEnv == Env("ECU_API_KEY" :> "k1" @@ Cloud,
                  "ECU_MAX_PERSISTENT_SESSIONS" :> 1, FALSE)
DevInEnv == Env("ECU_API_KEY" :> "k1" @@ "ECU_DEV_TOOLSERVER" :> "http"
                  @@ "ECU_HOSTNAME" :> "", <<>>, FALSE)
Unknown == Env("ECU_API_KEY" :> "k1" @@ "ECU_PROVIDER" :> "other", <<>>, FALSE)
Padded(name) == Env("ECU_API_KEY" :> "k1" @@ "ECU_PROVIDER" :> name, <<>>, FALSE)
Malformed == [Bare EXCEPT !.malformed = TRUE]

MCEnvs == {Bare, AtTerminal, [Bare EXCEPT !.tty = TRUE], CloudInEnv, DevInEnv,
           Unknown, Malformed, Padded(" hetzner"), Padded(" ")}

MCFiles == {
  [text |-> "ECU_API_KEY" :> "k2" @@ "ECU_PROVIDER" :> "Hetzner",
   number |-> "ECU_MAX_SESSIONS" :> 5],
  [text |-> "ECU_API_KEY" :> "k2" @@ "ECU_PROVIDER" :> "local", number |-> <<>>]}

=============================================================================
