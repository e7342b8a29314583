---------------------------------- MODULE Launch ---------------------------------
(* The assistant's launcher (run.sh: launcher.py) and the installation of the speech stack     *)
(* (speech_setup.py).  Several shells run commands at once, each with its own exported key;    *)
(* a command can be killed between any two steps; the user edits the configuration.  What is  *)
(* shared is on the disk: the configuration, .env, the model files, and the containers.       *)
EXTENDS Naturals, FiniteSets

CONSTANTS Shells,      \* processes that run a command of run.sh
          MaxCommands, \* bound: commands that are started
          MaxEdits     \* bound: edits of the configuration

VARIABLES
  config,     \* the configuration file
  backups,    \* configurations kept beside it
  key,        \* .env: the key, NoKey when it is empty, Invalid when the file cannot be read
  assets,     \* model files: "absent", "part", "whole" or "other"
  built,      \* the images of the speech stack are built
  typesense,  \* external: the container, its key and where the key came from
  shell,      \* per shell: command, option, position, exported key, what it has read
  count,      \* history: keys made, commands, edits
  wanted,     \* history: the configuration as the user last wrote it
  raced       \* history: what nothing guards: two setups at once; an edit while one replaces

vars == <<config, backups, key, assets, built, typesense, shell, count, wanted, raced>>

NoKey == 0
Invalid == 8
Exported == 9
Models == {"base", "small", "custom"}
Absent == [is |-> "absent", edit |-> 0, model |-> "none", speech |-> FALSE, own |-> FALSE]
Empty == [Absent EXCEPT !.is = "empty"]
Example == [Absent EXCEPT !.is = "file"]
Loads(c) == c.is = "file"

Idle == [command |-> "none", option |-> "none", pc |-> "idle", exported |-> NoKey, values |-> NoKey,
         config |-> Absent, original |-> Absent, key |-> NoKey, model |-> "none"]
Commands == {"setup", "install", "up", "down", "ask", "start"}
Setups == {s \in Shells : shell[s].command \in {"setup", "install"}}

Init ==
  /\ config \in {Absent, Example} /\ backups = {} /\ wanted = config
  /\ key \in {NoKey, 1, Invalid}
  /\ \E custom \in {"absent", "other"} :
       assets = [a \in Models \union {"voice", "list"} |-> IF a = "custom" THEN custom ELSE "absent"]
  /\ built = FALSE /\ typesense = [key |-> NoKey, from |-> "none"]
  /\ shell = [s \in Shells |-> Idle] /\ count = [keys |-> 1, commands |-> 0, edits |-> 0]
  /\ raced = [setups |-> FALSE, edit |-> FALSE]

Disk == <<config, backups, key, assets, built>>
Histories == <<count, wanted, raced>>
At(s, pc) == shell[s].pc = pc
Goes(s, pc) == shell' = [shell EXCEPT ![s].pc = pc]
Over(s) == shell' = [shell EXCEPT ![s] = Idle]

(* ---------------------------------- launcher.main --------------------------------- *)

Exports(command) == IF command \in {"setup", "install", "down"} THEN {NoKey} ELSE {NoKey, Exported}
Argument(command) == IF command = "install" THEN {"none", "small"} ELSE {"none"}

\* The command line: setup installs the requirements, down needs neither a configuration nor
\* a key, everything else loads the configuration.
main(s, command, option, exported) ==
  /\ At(s, "idle") /\ count.commands < MaxCommands /\ count' = [count EXCEPT !.commands = @ + 1]
  /\ UNCHANGED <<Disk, wanted>>
  /\ raced' = [raced EXCEPT !.setups = @ \/ (command \in {"setup", "install"} /\ Setups # {})]
  /\ typesense' = IF command = "down" THEN [key |-> NoKey, from |-> "none"] ELSE typesense
  /\ shell' =
       [shell EXCEPT ![s] =
         IF command = "down" \/ (command \notin {"setup", "install"} /\ ~Loads(config)) THEN Idle
         ELSE [Idle EXCEPT !.command = command, !.option = option, !.exported = exported,
                           !.pc = IF command \in {"setup", "install"} THEN "initialize" ELSE "environment"]]

(* ------------------------------- launcher.initialize ------------------------------ *)

\* A file that cannot be parsed is left as it is; a configuration is created once.
initialize(s) ==
  /\ At(s, "initialize") /\ UNCHANGED <<backups, key, assets, built, typesense, Histories>>
  /\ IF key = Invalid THEN Over(s) /\ UNCHANGED config
     ELSE IF config # Absent
       THEN shell' = [shell EXCEPT ![s].pc = "key", ![s].values = key] /\ UNCHANGED config
       ELSE shell' = [shell EXCEPT ![s].pc = "create", ![s].values = key] /\ config' = Empty

create(s) ==
  /\ At(s, "create") /\ Goes(s, "key") /\ config' = Example /\ wanted' = Example
  /\ UNCHANGED <<backups, key, assets, built, typesense, count, raced>>

\* A key is made when the file had none when it was read.
set_key(s) ==
  /\ At(s, "key")
  /\ IF shell[s].values = NoKey
     THEN key' = count.keys + 1 /\ count' = [count EXCEPT !.keys = @ + 1]
     ELSE UNCHANGED <<key, count>>
  /\ IF shell[s].command = "install" THEN Goes(s, "load") ELSE Over(s)
  /\ UNCHANGED <<config, backups, assets, built, typesense, wanted, raced>>

(* -------------------------- launcher.environment, wait_ready ----------------------- *)

\* Mutant: what is exported goes before what is in the file.
Bug_environment(exported) == IF exported # NoKey THEN exported ELSE IF key = Invalid THEN NoKey ELSE key

\* The key of the file, else what the shell exports; none when the file cannot be read.
environment(exported) == IF key = Invalid THEN NoKey ELSE IF key # NoKey THEN key ELSE exported

Starts(s) ==
  LET k == environment(shell[s].exported) IN
  /\ At(s, "environment") /\ UNCHANGED <<Disk, Histories>>
  /\ IF shell[s].command = "up" /\ k = NoKey THEN Over(s) /\ UNCHANGED typesense
     ELSE IF shell[s].command \in {"up", "start"} /\ k # NoKey
     THEN \/ /\ typesense' = [key |-> k, from |-> IF k = key THEN "file" ELSE "exported"]
             /\ shell' = [shell EXCEPT ![s].pc = "ready", ![s].key = k]
          \/ /\ IF shell[s].command = "up" THEN Over(s) ELSE Goes(s, "runs")
             /\ UNCHANGED typesense
     ELSE shell' = [shell EXCEPT ![s].pc = "runs", ![s].key = k] /\ UNCHANGED typesense

\* The service answers in time, or the interface starts without a key.
wait_ready(s) ==
  /\ At(s, "ready") /\ UNCHANGED <<Disk, typesense, Histories>>
  /\ \/ /\ typesense.from # "none"
        /\ IF shell[s].command = "up" THEN Over(s) ELSE Goes(s, "runs")
     \/ IF shell[s].command = "up" THEN Over(s) ELSE shell' = [shell EXCEPT ![s].pc = "runs", ![s].key = NoKey]

Ends(s) == At(s, "runs") /\ Over(s) /\ UNCHANGED <<Disk, typesense, Histories>>

(* ------------------------------ speech_setup.install ------------------------------ *)

\* The model that is asked for, else the one that is configured if it is there or can be
\* downloaded again, else base; "none" when there is no choice to make.
selected_whisper(c, option) ==
  IF option # "none" THEN option
  ELSE IF c.model = "none" THEN "base"
  ELSE IF assets[c.model] # "absent" \/ c.model \in {"base", "small"} THEN c.model ELSE "none"
Downloads(s) ==
  {"voice"} \union
  (IF shell[s].option = "none" /\ shell[s].config.model = shell[s].model /\ assets[shell[s].model] # "absent" THEN {} ELSE {shell[s].model})

install(s) ==
  /\ At(s, "load") /\ UNCHANGED <<Disk, typesense, Histories>>
  /\ LET m == selected_whisper(config, shell[s].option) IN
     \/ Loads(config) /\ m # "none" /\ shell' = [shell EXCEPT ![s].pc = "download", ![s].config = config, ![s].model = m]
     \/ Over(s)

\* Mutant: the file is written where it will be used.
Bug_download(s) ==
  /\ At(s, "download") /\ UNCHANGED <<config, backups, key, built, typesense, Histories>>
  /\ \E a \in Downloads(s) : assets[a] \in {"absent", "part"} /\ \E v \in {"part", "whole"} : assets' = [assets EXCEPT ![a] = v]
  /\ UNCHANGED shell

\* One file: one that is there is compared with the checksum, else it arrives under a name of
\* its own and takes its place when the checksum is right.
download(s) ==
  /\ At(s, "download") /\ UNCHANGED <<config, backups, key, built, typesense, Histories>>
  /\ \E a \in Downloads(s) :
       \/ assets[a] = "absent" /\ assets' = [assets EXCEPT ![a] = "whole"] /\ UNCHANGED shell
       \/ assets[a] # "whole" /\ UNCHANGED assets /\ Over(s)

\* Mutant: what cannot be built is still configured.
Bug_build(s) ==
  /\ At(s, "download") /\ (\A a \in Downloads(s) : assets[a] = "whole") /\ UNCHANGED <<config, backups, key, assets, typesense, Histories>>
  /\ Goes(s, "read") /\ built' \in {built, TRUE}

build(s) ==
  /\ At(s, "download") /\ (\A a \in Downloads(s) : assets[a] = "whole") /\ UNCHANGED <<config, backups, key, assets, typesense, Histories>>
  /\ \/ Over(s) /\ built' \in {built, TRUE}
     \/ built' = TRUE /\ environment(shell[s].exported) # NoKey /\ Goes(s, "read")

\* Mutant: the configuration as it was before the downloads.
Bug_read(s) ==
  /\ At(s, "read") /\ UNCHANGED <<Disk, typesense, Histories>>
  /\ shell' = [shell EXCEPT ![s].pc = "replace", ![s].original = shell[s].config]

read(s) ==
  /\ At(s, "read") /\ UNCHANGED <<Disk, typesense, Histories>>
  /\ shell' = [shell EXCEPT ![s].pc = "replace", ![s].original = config]

\* Mutant: the original is not kept.
Bug_replace(s) ==
  /\ At(s, "replace") /\ Over(s) /\ UNCHANGED <<key, assets, built, typesense, Histories, backups>>
  /\ config' = [shell[s].original EXCEPT !.model = shell[s].model, !.speech = TRUE, !.own = TRUE]

\* The original is kept, then the file is replaced whole.
replace(s) ==
  LET updated == [shell[s].original EXCEPT !.model = shell[s].model, !.speech = TRUE, !.own = TRUE] IN
  /\ At(s, "replace") /\ Goes(s, "voices") /\ UNCHANGED <<key, assets, built, typesense, Histories>>
  /\ IF shell[s].original = updated THEN UNCHANGED <<config, backups>>
     ELSE backups' = backups \union {shell[s].original} /\ config' = updated

\* The list of voices comes last.
voices(s) ==
  /\ At(s, "voices") /\ Over(s) /\ assets' = [assets EXCEPT !["list"] = "whole"]
  /\ UNCHANGED <<config, backups, key, built, typesense, Histories>>

(* ------------------------------------- others ------------------------------------- *)

\* Interrupted or killed between two steps.
Killed(s) == shell[s].pc \notin {"idle", "runs"} /\ Over(s) /\ UNCHANGED <<Disk, typesense, Histories>>

\* The user writes the configuration: a model of his own choice, or none.
Edit ==
  /\ Loads(config) /\ count.edits < MaxEdits /\ count' = [count EXCEPT !.edits = @ + 1]
  /\ \E m \in {config.model, "custom"} :
       config' = [config EXCEPT !.edit = count.edits + 1, !.model = m, !.own = FALSE]
  /\ wanted' = config' /\ UNCHANGED <<backups, key, assets, built, typesense, shell>>
  /\ raced' = [raced EXCEPT !.edit = @ \/ \E s \in Shells : At(s, "replace")]

Step(s) ==
  \/ \E c \in Commands : \E e \in Exports(c), o \in Argument(c) : main(s, c, o, e)
  \/ initialize(s) \/ create(s) \/ set_key(s) \/ Starts(s) \/ wait_ready(s) \/ Ends(s)
  \/ install(s) \/ download(s) \/ build(s) \/ read(s) \/ replace(s) \/ voices(s) \/ Killed(s)

Next == (\E s \in Shells : Step(s)) \/ Edit

Spec == Init /\ [][Next]_vars

(* ----------------------------------- properties ----------------------------------- *)

TypeOK ==
  /\ config.is \in {"absent", "empty", "file"} /\ config.model \in Models \union {"none"}
  /\ key \in 0..count.keys \union {Invalid} /\ typesense.from \in {"none", "file", "exported"}
  /\ \A s \in Shells : shell[s].key \in 0..count.keys \union {Exported}

\* A step: while the search service runs with the key of .env, every command that reads its
\* environment takes that key or none, whatever its shell exports and however many setups were run or killed
\* since, unless two setups ran at once (both may find no key, and the second replaces the
\* first's).
KeysAgree ==
  \A s \in Shells :
    typesense.from = "file" /\ ~raced.setups /\ At(s, "environment") /\ shell'[s].pc \in {"ready", "runs"} =>
      shell'[s].key \in {NoKey, typesense.key}

\* A configuration that the installation wrote names models that are on the disk, none of
\* them half written, and images that are built.
SpeechIsThere ==
  /\ \A a \in DOMAIN assets : assets[a] # "part"
  /\ config.own => built /\ assets["voice"] = "whole" /\ assets[config.model] # "absent"

\* What the user wrote is the configuration or is kept beside it, whatever was installed,
\* killed or failed, unless it was written in the moment of the replacement.
EditsAreKept ==
  ~raced.edit /\ ~raced.setups => config = wanted \/ wanted \in backups \/ (config = Empty /\ wanted = Absent)
=================================================================================
