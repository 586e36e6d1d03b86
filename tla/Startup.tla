------------------------------ MODULE Startup ------------------------------
(***************************************************************************)
(* How a daemon comes up (src/main.rs): its settings are put together from *)
(* the default values, a config file, the environment and the command line *)
(* (src/config.rs), the blob directory of older versions is renamed, the   *)
(* database migrated, the blob directory made, the admin token found or    *)
(* made, and the port bound.  hugrsctl (src/admin_client.rs) finds the     *)
(* token on its own, from the same environment.                            *)
(*                                                                         *)
(* Daemons on different ports may share a data directory, any of them may  *)
(* stop anywhere and be started again with other settings, and what they   *)
(* leave on disk is what the next one finds.                               *)
(***************************************************************************)
EXTENDS SchemaMigration

CONSTANTS
  Daemon,      \* daemons of one data directory
  Setups,      \* what a start may be given (see NoFile)
  MaxStarts,   \* bound on the starts
  Token,       \* the tokens that may be generated
  TokenFile    \* the paths of token files

VARIABLES
  at,          \* how far each daemon is
  given,       \* the settings it was started with
  token,       \* config.admin.token, once ensure_admin_token has run
  tokenFile,   \* what each token file holds
  trunks,      \* the blob directory of older versions is there, with their blobs
  rootExists,  \* local_root is there
  rootHas,     \* the blobs in it: "old" ones, "new" ones
  issued,      \* the tokens generated so far
  starts,      \* the starts so far
  strange,     \* history: local_root was made under another backend's name
  rivals       \* history: token files that two starts made at a time

diskVars == <<tokenFile, trunks, rootExists, rootHas>>
history == <<issued, starts, strange, rivals>>
startVars == <<legacyVars, at, given, token, diskVars, history>>

-----------------------------------------------------------------------------
(* Settings *)

\* What the sections of Config hold, each setting under one name in every layer.
StorageSettings ==
  {"backend", "local_root", "s3_bucket", "s3_region", "s3_prefix", "s3_endpoint",
   "compression", "max_size", "prefetch_depth", "prefetch_budget_base",
   "verify_sha256", "etag_validation_timeout_secs", "chunk_retries"}
DatabaseSettings == {"db_path"}
ServerSettings == {"server_host", "server_port"}
AdminSettings == {"admin_token", "admin_token_file"}
HfSettings == {"hf_endpoint", "hf_token", "hf_proxy", "hf_timeout", "hf_connect_timeout"}
MsSettings == {"ms_endpoint", "ms_token", "ms_proxy", "ms_timeout", "ms_connect_timeout"}

Setting ==
  StorageSettings \cup DatabaseSettings \cup ServerSettings \cup AdminSettings
  \cup HfSettings \cup MsSettings

\* cli_patch passes a section on if one of these was given,
CliListed ==
  [storage |->
    {"backend", "local_root", "s3_bucket", "s3_region", "s3_prefix",
     "s3_endpoint", "compression", "max_size", "prefetch_depth",
     "prefetch_budget_base", "verify_sha256", "etag_validation_timeout_secs",
     "chunk_retries"},
   database |-> {"db_path"},
   server |-> {"server_host", "server_port"},
   admin |-> {"admin_token", "admin_token_file"},
   huggingface |-> {"hf_endpoint", "hf_token", "hf_proxy", "hf_timeout", "hf_connect_timeout"},
   modelscope |-> {"ms_endpoint", "ms_token", "ms_proxy", "ms_timeout", "ms_connect_timeout"}]

\* and then these of it.
CliFields ==
  [storage |->
    {"backend", "local_root", "s3_bucket", "s3_region", "s3_prefix",
     "s3_endpoint", "compression", "max_size", "prefetch_depth",
     "prefetch_budget_base", "verify_sha256", "etag_validation_timeout_secs",
     "chunk_retries"},
   database |-> {"db_path"},
   server |-> {"server_host", "server_port"},
   admin |-> {"admin_token", "admin_token_file"},
   huggingface |-> {"hf_endpoint", "hf_token", "hf_proxy", "hf_timeout", "hf_connect_timeout"},
   modelscope |-> {"ms_endpoint", "ms_token", "ms_proxy", "ms_timeout", "ms_connect_timeout"}]

\* env_patch reads these,
EnvFields ==
  [storage |->
    {"backend", "local_root", "s3_bucket", "s3_region", "s3_prefix",
     "s3_endpoint", "compression", "max_size", "prefetch_depth",
     "prefetch_budget_base", "verify_sha256", "etag_validation_timeout_secs",
     "chunk_retries"},
   database |-> {"db_path"},
   server |-> {"server_host", "server_port"},
   admin |-> {"admin_token", "admin_token_file"},
   huggingface |-> {"hf_endpoint", "hf_token", "hf_proxy", "hf_timeout", "hf_connect_timeout"},
   modelscope |-> {"ms_endpoint", "ms_token", "ms_proxy", "ms_timeout", "ms_connect_timeout"}]

\* and passes a section on unless these are all absent (storage_is_empty and its like).
StorageListed ==
  {"backend", "local_root", "s3_bucket", "s3_region", "s3_prefix", "s3_endpoint",
   "compression", "max_size", "prefetch_depth", "prefetch_budget_base",
   "verify_sha256", "etag_validation_timeout_secs", "chunk_retries"}
ServerListed == {"server_host", "server_port"}

\* Mutant: token_file is left out of the list.
AdminListedBut == {"admin_token"}

AdminListed == {"admin_token", "admin_token_file"}
HfListed == {"hf_endpoint", "hf_token", "hf_proxy", "hf_timeout", "hf_connect_timeout"}
MsListed == {"ms_endpoint", "ms_token", "ms_proxy", "ms_timeout", "ms_connect_timeout"}

EnvListed ==
  [storage |-> StorageListed, database |-> {"db_path"}, server |-> ServerListed,
   admin |-> AdminListed, huggingface |-> HfListed, modelscope |-> MsListed]

Section == {"storage", "database", "server", "admin", "huggingface", "modelscope"}

\* The defaults that matter here; the rest is None, or a number nothing here needs.
Default ==
  [s \in {"backend", "server_port", "admin_token_file"} |->
     CASE s = "backend" -> "local"
       [] s = "server_port" -> "3000"
       [] s = "admin_token_file" -> "admin.token"]

\* A start is given candidate config files, those missing among them, a .env file,
\* an environment and a command line: each but the files names some settings.
NoFile == [missing |-> TRUE]

Over(upper, lower) ==
  [s \in DOMAIN upper \cup DOMAIN lower |->
     IF s \in DOMAIN upper THEN upper[s] ELSE lower[s]]

Restricted(layer, S) == [s \in DOMAIN layer \cap S |-> layer[s]]

CliPatch(cli) ==
  LET named == {c \in Section : CliListed[c] \cap DOMAIN cli # {}} IN
  Restricted(cli, UNION {CliFields[c] : c \in named})

EnvPatch(env) ==
  LET filled == {c \in Section : EnvListed[c] \cap EnvFields[c] \cap DOMAIN env # {}} IN
  Restricted(env, UNION {EnvFields[c] : c \in filled})

\* The first config file that exists, and no other (--config gives one candidate).
FirstFile(candidates) ==
  LET there == {i \in DOMAIN candidates : candidates[i] # NoFile} IN
  IF there = {} THEN <<>>
  ELSE candidates[CHOOSE i \in there : \A j \in there : i <= j]

\* dotenv does not replace what the environment has.
Environment(g) == Over(g.env, g.dotenv)

\* Config::load
Load(g) ==
  Over(CliPatch(g.cli), Over(EnvPatch(Environment(g)), Over(FirstFile(g.files), Default)))

ValueOf(config, s) == IF s \in DOMAIN config THEN config[s] ELSE "none"

Config(d, s) == ValueOf(Load(given[d]), s)

\* One data directory: no start names another one, if there is more than one.  Token
\* files are those of TokenFile, and what a setting has for a token is no state of a
\* file.
ASSUME StartAssumption ==
  /\ MaxStarts \in Nat
  /\ Token \cap {"none", "missing", "empty", "mixed"} = {}
  /\ \A g \in Setups :
       /\ MaxStarts > 1 => {"db_path", "local_root"} \cap DOMAIN Load(g) = {}
       /\ ValueOf(Load(g), "admin_token") \notin {"missing", "empty"}
       /\ "admin_token" \in DOMAIN g.env => g.env["admin_token"] # "none"
       /\ ValueOf(Load(g), "admin_token_file") \in TokenFile

-----------------------------------------------------------------------------
NoGiven == [files |-> <<>>, dotenv |-> <<>>, env |-> <<>>, cli |-> <<>>]

StartInit ==
  /\ LegacyInit
  /\ at = [d \in Daemon |-> "down"]
  /\ given = [d \in Daemon |-> NoGiven]
  /\ token = [d \in Daemon |-> "none"]
  /\ tokenFile = [f \in TokenFile |-> "missing"]
  /\ trunks \in BOOLEAN
  /\ rootExists = FALSE
  /\ rootHas = {}
  /\ issued = {} /\ starts = 0 /\ strange = FALSE /\ rivals = {}

Goto(d, label) == at' = [at EXCEPT ![d] = label]

Start(d) ==
  /\ at[d] = "down"
  /\ starts < MaxStarts /\ starts' = starts + 1
  /\ \E g \in Setups : given' = [given EXCEPT ![d] = g]
  /\ Goto(d, "load")
  /\ UNCHANGED <<legacyVars, token, diskVars, issued, strange, rivals>>

\* A crash, or an error on the way: the `?` of main.
Stop(d) ==
  /\ at[d] # "down"
  /\ Goto(d, "down")
  /\ given' = [given EXCEPT ![d] = NoGiven]
  /\ token' = [token EXCEPT ![d] = "none"]
  /\ UNCHANGED <<legacyVars, diskVars, history>>

-----------------------------------------------------------------------------
(* Config::load, once the settings are known: the old blob directory *)

\* Mutant: the command line is asked, and not the settings as they came out.
MigratesIfAsked(d) == Over(given[d].cli, [backend |-> "none"])["backend"] = "local"

MigratesBlobs(d) == Config(d, "backend") = "local"

\* root.exists()
LookForRoot(d) ==
  /\ at[d] = "load"
  /\ Goto(d, IF MigratesBlobs(d) /\ ~ rootExists THEN "legacy" ELSE "database")
  /\ UNCHANGED <<legacyVars, given, token, diskVars, history>>

\* legacy.exists()
LookForTrunks(d) ==
  /\ at[d] = "legacy"
  /\ Goto(d, IF trunks THEN "rename" ELSE "database")
  /\ UNCHANGED <<legacyVars, given, token, diskVars, history>>

\* rename replaces an empty directory; it fails if another start was faster, or
\* there are blobs in the root by now (then see Stop).
Rename(d) ==
  /\ at[d] = "rename" /\ trunks /\ rootHas = {}
  /\ trunks' = FALSE
  /\ rootExists' = TRUE
  /\ rootHas' = {"old"}
  /\ Goto(d, "database")
  /\ UNCHANGED <<legacyVars, given, token, tokenFile, history>>

-----------------------------------------------------------------------------
(* The database and the blob store *)

\* A migration is one transaction; to_latest goes on with the one that is due.
Migrate(d) ==
  /\ at[d] = "database"
  /\ CleanupHeaderlessFiles \/ AddChunkOrphanedAt
  /\ UNCHANGED <<at, given, token, diskVars, history>>

OpenDatabase(d) ==
  /\ at[d] = "database" /\ schema = 6
  /\ Goto(d, "backend")
  /\ UNCHANGED <<legacyVars, given, token, diskVars, history>>

\* "s3" without its settings is an error; whatever is not "s3" is a local directory.
MakeBackend(d) ==
  LET makes == Config(d, "backend") # "s3" /\ ~ rootExists IN
  /\ at[d] = "backend"
  /\ Config(d, "backend") = "s3" => "none" \notin {Config(d, "s3_bucket"), Config(d, "s3_region")}
  /\ rootExists' = (rootExists \/ makes)
  /\ strange' = (strange \/ (makes /\ Config(d, "backend") # "local"))
  /\ Goto(d, "token")
  /\ UNCHANGED <<legacyVars, given, token, tokenFile, trunks, rootHas, issued, starts, rivals>>

-----------------------------------------------------------------------------
(* ensure_admin_token *)

\* Mutant: the file of the setting is not asked for.
DefaultFile(d) == Default["admin_token_file"]

FileOf(d) == Config(d, "admin_token_file")
Making(f) == {d \in Daemon : at[d] \in {"create", "write"} /\ FileOf(d) = f}

\* Mutant: an empty file counts as a token.
HoldsIfThere(f) == tokenFile[f] # "missing"

\* The file is there and not empty.
Holds(f) == tokenFile[f] \notin {"missing", "empty"}

\* The setting, or what the file holds; else a token must be made.
FindToken(d) ==
  /\ at[d] = "token"
  /\ IF Config(d, "admin_token") # "none"
     THEN /\ token' = [token EXCEPT ![d] = Config(d, "admin_token")]
          /\ Goto(d, "bind")
          /\ UNCHANGED rivals
     ELSE IF Holds(FileOf(d))
     THEN /\ token' = [token EXCEPT ![d] = tokenFile[FileOf(d)]]
          /\ Goto(d, "bind")
          /\ UNCHANGED rivals
     ELSE /\ Goto(d, "create")
          /\ rivals' = IF Making(FileOf(d)) = {} THEN rivals ELSE rivals \cup {FileOf(d)}
          /\ UNCHANGED token
  /\ UNCHANGED <<legacyVars, given, diskVars, issued, starts, strange>>

\* File::create truncates what is there.
CreateTokenFile(d) ==
  /\ at[d] = "create"
  /\ tokenFile' = [tokenFile EXCEPT ![FileOf(d)] = "empty"]
  /\ Goto(d, "write")
  /\ UNCHANGED <<legacyVars, given, token, trunks, rootExists, rootHas, history>>

\* write_all, from the start of the file: over a longer token of another start, which
\* was written meanwhile, it leaves the end of that one.
WriteToken(d) ==
  /\ at[d] = "write"
  /\ \E t \in Token \ issued :
       /\ issued' = issued \cup {t}
       /\ token' = [token EXCEPT ![d] = t]
       /\ \/ tokenFile' = [tokenFile EXCEPT ![FileOf(d)] = t]
          \/ Holds(FileOf(d)) /\ tokenFile' = [tokenFile EXCEPT ![FileOf(d)] = "mixed"]
  /\ Goto(d, "bind")
  /\ UNCHANGED <<legacyVars, given, trunks, rootExists, rootHas, starts, strange, rivals>>

-----------------------------------------------------------------------------
(* Serving *)

Port(d) == Config(d, "server_port")

\* A port that is taken is an error (see Stop).
Bind(d) ==
  /\ at[d] = "bind"
  /\ \A e \in Daemon : at[e] = "serve" => Port(e) # Port(d)
  /\ Goto(d, "serve")
  /\ UNCHANGED <<legacyVars, given, token, diskVars, history>>

\* The database operations of MetadataStore, as the handlers call them.
ServeRequest(d) ==
  /\ at[d] = "serve"
  /\ Serve \/ Repair
  /\ UNCHANGED <<at, given, token, diskVars, history>>

\* A chunk is stored; put makes the directories it needs.
StoreBlob(d) ==
  /\ at[d] = "serve" /\ Config(d, "backend") # "s3"
  /\ rootExists' = TRUE
  /\ rootHas' = rootHas \cup {"new"}
  /\ UNCHANGED <<legacyVars, at, given, token, tokenFile, trunks, history>>

StartStep(d) ==
  \/ LookForRoot(d) \/ LookForTrunks(d) \/ Rename(d)
  \/ Migrate(d) \/ OpenDatabase(d) \/ MakeBackend(d)
  \/ FindToken(d) \/ CreateTokenFile(d) \/ WriteToken(d) \/ Bind(d)

StartNext ==
  \E d \in Daemon :
    Start(d) \/ StartStep(d) \/ ServeRequest(d) \/ StoreBlob(d) \/ Stop(d)

StartSpec == StartInit /\ [][StartNext]_startVars
-----------------------------------------------------------------------------
(* hugrsctl *)

\* resolve_admin_token, without --admin-token: it reads no .env and no config file.
ControlToken(env) ==
  IF "admin_token" \in DOMAIN env THEN env["admin_token"]
  ELSE tokenFile[IF "admin_token_file" \in DOMAIN env
                 THEN env["admin_token_file"] ELSE Default["admin_token_file"]]

-----------------------------------------------------------------------------
(* Properties *)

TokenValue ==
  Token \cup {"none", "mixed"} \cup {ValueOf(Load(g), "admin_token") : g \in Setups}

StartTypeOK ==
  /\ at \in [Daemon -> {"down", "load", "legacy", "rename", "database", "backend",
                        "token", "create", "write", "bind", "serve"}]
  /\ given \in [Daemon -> Setups \cup {NoGiven}]
  /\ \A d \in Daemon : at[d] # "down" => given[d] \in Setups
  /\ token \in [Daemon -> TokenValue]
  /\ tokenFile \in [TokenFile -> Token \cup {"missing", "empty", "mixed"}]
  /\ trunks \in BOOLEAN
  /\ rootExists \in BOOLEAN
  /\ rootHas \subseteq {"old", "new"}
  /\ rootHas # {} => rootExists
  /\ issued \subseteq Token

\* A setting has the value of the highest layer that names it: default, config
\* file, environment with .env, command line.  None is lost for being given alone in
\* its section, nor for being missing from one of the lists it goes through.
SettingsLayered ==
  \A d \in Daemon : at[d] = "load" =>
    LET g == given[d]
        config == Load(g)
        layers == <<g.cli, g.env, g.dotenv, FirstFile(g.files), Default>> IN
    \A s \in Setting :
      LET naming == {i \in DOMAIN layers : s \in DOMAIN layers[i]} IN
      ValueOf(config, s) =
        IF naming = {} THEN "none"
        ELSE layers[CHOOSE i \in naming : \A j \in naming : i <= j][s]

\* hugrsctl, run in the environment of a daemon that serves, finds its token,
\* whichever start made it and wherever others stopped, unless a layer that
\* hugrsctl does not read names it, or two starts made the file at a time (which
\* nothing prevents: the last one to write wins, for hugrsctl).
ControlFindsToken ==
  \A d \in Daemon :
    LET g == given[d]
        elsewhere == DOMAIN g.cli \cup DOMAIN g.dotenv \cup DOMAIN FirstFile(g.files) IN
    /\ at[d] = "serve"
    /\ elsewhere \cap AdminSettings = {}
    /\ FileOf(d) \notin rivals
    => ControlToken(g.env) = token[d]

\* A daemon whose backend is called "local" does not serve beside the blobs of an
\* older version: they are in its root by then, unless a start under another name,
\* which main takes for local and Config::load does not, had made the root before.
OldBlobsServed ==
  \A d \in Daemon : at[d] = "serve" /\ Config(d, "backend") = "local" => ~ trunks \/ strange
=============================================================================
