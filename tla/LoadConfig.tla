----------------------------- MODULE LoadConfig -----------------------------
(***************************************************************************)
(* How a process obtains its configuration (conjurapi/config.go): from the *)
(* system's conjur.conf, the user's conjurrc file and the environment      *)
(* variables, with defaults that LoadConfig works out, in part by probing  *)
(* the appliance, and appends to the conjurrc file for the next process.   *)
(*                                                                         *)
(* Loads follow one another and may be killed half-way; that they never    *)
(* overlap is a bound of the model.  Of the settings, which are all merged *)
(* in the same way, it has the four that something else depends on.        *)
(***************************************************************************)
EXTENDS Integers, Sequences, Functions

CONSTANTS
    SystemFiles,  \* what conjur.conf may hold: None or a file
    UserFiles,    \* what the conjurrc file may hold at first: None or a file
    Environments, \* the environment variables of the processes
    HandBuilt,    \* Configs that programs build by hand
    Outages,      \* answers that an appliance may give instead of its own
    None          \* no such file, a variable that is not set

Settings     == {"appliance_url", "account", "environment", "keychain_namespace"}
Urls         == {"", "saas", "api", "plain"}  \* isConjurCloudURL, hasAPIBasePath, neither
EnvironmentTypes == {"", "saas", "self-hosted", "oss"}
Appliances   == {"enterprise", "oss", "edge"} \* what may be behind an "api" URL
Answers      == {"surface", "status", "timeout"}

(* A file is a sequence of lines; the last one may lack its newline.  The  *)
(* values of the settings that the code compares are of the classes above. *)
Line(key, value) == [key |-> key, value |-> value]

Allowed(key, value) ==
    /\ key \in {"appliance_url", "conjur_url"} => value \in Urls
    /\ key = "environment" => value \in EnvironmentTypes

Lines == {l \in [key : STRING, value : STRING] : Allowed(l.key, l.value)}
Files == [lines : Seq(Lines), ended : BOOLEAN]

ASSUME ConfigAssumption ==
    /\ SystemFiles \cup UserFiles \subseteq Files \cup {None}
    /\ Environments \subseteq [Settings -> STRING \cup {None}]
    /\ \A e \in Environments : \A s \in Settings : e[s] # None => Allowed(s, e[s])
    /\ HandBuilt \subseteq [Settings -> STRING]
    /\ \A c \in HandBuilt : \A s \in Settings : Allowed(s, c[s])
    /\ Outages \subseteq {"status", "timeout"}
    /\ None \notin Files \cup STRING
    /\ Urls \cup EnvironmentTypes \cup Settings \cup {"glued", "conjur", "a"} \subseteq STRING

VARIABLES
    system,     \* conjur.conf
    conjurrc,   \* the user's file
    writable,   \* may this process append to it?
    appliance,  \* what is behind the "api" URL
    pc,         \* where LoadConfig stands
    vs,         \* the environment variables of the process
    config,     \* its Config
    resolved,   \* config.keychainNamespaceResolved
    persist,    \* does applyDefaults append to the conjurrc file?
    guessed,    \* is the environment a guess after an inconclusive probe?
    chosen      \* the namespace that the program has set, or None (history)

vars == <<system, conjurrc, writable, appliance, pc, vs, config, resolved, persist, guessed, chosen>>

-----------------------------------------------------------------------------
Blank == [s \in Settings |-> ""]
Unset == [s \in Settings |-> None]

Keys(file) == {l.key : l \in Range(file.lines)}

rejectEmptyYAMLKeychainNamespace(file) ==
    Line("keychain_namespace", "") \in Range(file.lines)

(* What yaml.v3 accepts: text that is a mapping, and no key twice.         *)
Parses(file) ==
    /\ "glued" \notin Keys(file)
    /\ \A i, j \in DOMAIN file.lines : file.lines[i].key = file.lines[j].key => i = j
    /\ ~rejectEmptyYAMLKeychainNamespace(file)

ValueOf(file, key) ==
    LET given == {l \in Range(file.lines) : l.key = key} IN
    IF given = {} THEN "" ELSE (CHOOSE l \in given : TRUE).value

mergeValue(a, b) == IF b # "" THEN b ELSE a

(* The keys of the Python CLI count where nothing else has been given.     *)
PythonKey == [appliance_url |-> "conjur_url", account |-> "conjur_account"]

mergeYAML(c, file) ==
    IF file = None THEN c
    ELSE [s \in Settings |->
            LET v == mergeValue(c[s], ValueOf(file, s)) IN
            IF v = "" /\ s \in DOMAIN PythonKey THEN ValueOf(file, PythonKey[s]) ELSE v]

\* Mutant of mergeEnv: a variable that is not set overrides as well.
UnsetWins(c, env) == env

(* An environment variable overrides, unless it is empty; the namespace    *)
(* even then (resolveKeychainNamespace).                                   *)
mergeEnv(c, env) ==
    [s \in Settings |->
        IF env[s] = None THEN c[s]
        ELSE IF s = "keychain_namespace" THEN env[s]
        ELSE mergeValue(c[s], env[s])]

Merged(env) == mergeEnv(mergeYAML(mergeYAML(Blank, system), conjurrc), env)

validateKeychainNamespace(c, env) ==
    ~(c["keychain_namespace"] = "" /\ env["keychain_namespace"] = "")

\* Mutant of AddToConjurRc: the default is logged and not written.
LogsOnly(key, value) == UNCHANGED conjurrc

(* AddToConjurRc: the pair and a newline go to the end of the file, which  *)
(* for a last line without its own newline is the end of that line.        *)
AddToConjurRc(key, value) ==
    IF writable
    THEN conjurrc' =
           [lines |-> IF conjurrc.ended THEN Append(conjurrc.lines, Line(key, value))
                      ELSE [conjurrc.lines EXCEPT ![Len(conjurrc.lines)] = Line("glued", "")],
            ended |-> TRUE]
    ELSE UNCHANGED conjurrc

-----------------------------------------------------------------------------
(* What the two endpoints of an appliance answer when all is well.         *)
OwnAnswer(endpoint) ==
    IF appliance = "enterprise" \/ (appliance = "oss" /\ endpoint = "root")
    THEN "surface" ELSE "status"

Answer(endpoint) == {OwnAnswer(endpoint)} \cup Outages

\* Mutant of Confident: every probe settles the matter.
AlwaysConfident(info, root) == TRUE

(* classifySelfHostedSurface; an answer of any kind counts as reachable.   *)
HasSurface(info, root) == "surface" \in {info, root}
Confident(info, root)  == HasSurface(info, root) \/ {info, root} # {"timeout"}

Init ==
    /\ system \in SystemFiles
    /\ conjurrc \in UserFiles
    /\ writable \in BOOLEAN
    /\ appliance \in Appliances
    /\ pc = "idle" /\ vs = Unset /\ config = Blank
    /\ resolved = FALSE /\ persist = FALSE /\ guessed = FALSE /\ chosen = None

(* LoadConfig reads the files and the variables.  It gives up, and has     *)
(* persisted nothing, when a file does not parse or the namespace is bad.  *)
Load(env) ==
    /\ pc = "idle"
    /\ \A f \in {system, conjurrc} \ {None} : Parses(f)
    /\ validateKeychainNamespace(Merged(env), env)
    /\ pc' = "account" /\ vs' = env /\ config' = Merged(env)
    /\ resolved' = TRUE /\ persist' = (conjurrc # None) /\ guessed' = FALSE /\ chosen' = None
    /\ UNCHANGED <<system, conjurrc, writable, appliance>>

\* Mutant of DefaultAccount: the account is written whether given or not.
AccountAnyway ==
    /\ pc = "account"
    /\ pc' = "environment"
    /\ config["appliance_url"] = "saas"
    /\ config' = [config EXCEPT !["account"] = "conjur"]
    /\ IF persist THEN AddToConjurRc("account", "conjur") ELSE UNCHANGED conjurrc
    /\ UNCHANGED <<system, writable, appliance, vs, resolved, persist, guessed, chosen>>

(* applyDefaults: the account of a SaaS URL, then the environment.         *)
DefaultAccount ==
    /\ pc = "account"
    /\ pc' = "environment"
    /\ \/ /\ config["appliance_url"] = "saas" /\ config["account"] = ""
          /\ config' = [config EXCEPT !["account"] = "conjur"]
          /\ IF persist THEN AddToConjurRc("account", "conjur") ELSE UNCHANGED conjurrc
       \/ /\ config["appliance_url"] # "saas" \/ config["account"] # ""
          /\ UNCHANGED <<config, conjurrc>>
    /\ UNCHANGED <<system, writable, appliance, vs, resolved, persist, guessed, chosen>>

(* resolveDefaultEnvironment, with a probe when the URL is ambiguous.      *)
DefaultEnvironment ==
    /\ pc = "environment"
    /\ pc' = "loaded"
    /\ \/ /\ config["environment"] # "" \/ config["appliance_url"] = ""
          /\ UNCHANGED <<config, conjurrc, guessed>>
       \/ /\ config["environment"] = "" /\ config["appliance_url"] # ""
          /\ \E info \in Answer("info"), root \in Answer("root") :
                LET url  == config["appliance_url"]
                    type == IF url = "plain" \/ (url = "api" /\ HasSurface(info, root))
                            THEN "self-hosted" ELSE "saas"
                    sure == url = "api" => Confident(info, root)
                IN  /\ config' = [config EXCEPT !["environment"] = type]
                    /\ guessed' = ~sure
                    /\ IF persist /\ sure THEN AddToConjurRc("environment", type)
                       ELSE UNCHANGED conjurrc
    /\ UNCHANGED <<system, writable, appliance, vs, resolved, persist, chosen>>

(* A program builds its Config by hand, and changes the namespace of any.  *)
BuildConfig(env, c) ==
    /\ pc = "idle"
    /\ pc' = "loaded" /\ vs' = env /\ config' = c
    /\ resolved' = FALSE /\ persist' = FALSE /\ guessed' = FALSE /\ chosen' = None
    /\ UNCHANGED <<system, conjurrc, writable, appliance>>

SetNamespace(namespace) ==
    /\ pc = "loaded"
    /\ config' = [config EXCEPT !["keychain_namespace"] = namespace]
    /\ chosen' = namespace
    /\ UNCHANGED <<system, conjurrc, writable, appliance, pc, vs, resolved, persist, guessed>>

\* Mutant of KeptNamespace: the environment is consulted every time.
EnvironmentFirst(c, env, done) ==
    IF env["keychain_namespace"] = None THEN c["keychain_namespace"]
    ELSE env["keychain_namespace"]

(* resolveKeychainNamespace for a Config that comes from the caller.       *)
KeptNamespace(c, env, done) ==
    IF done \/ c["keychain_namespace"] # "" \/ env["keychain_namespace"] = None
    THEN c["keychain_namespace"]
    ELSE env["keychain_namespace"]

(* Validate, as NewClient calls it, applies the defaults that are missing, *)
(* and persists none.                                                      *)
Validate ==
    /\ pc = "loaded"
    /\ pc' = "account" /\ persist' = FALSE
    /\ config' = [config EXCEPT !["keychain_namespace"] = KeptNamespace(config, vs, resolved)]
    /\ UNCHANGED <<system, conjurrc, writable, appliance, vs, resolved, guessed, chosen>>

(* The process ends, or is killed.                                         *)
Exit ==
    /\ pc # "idle"
    /\ pc' = "idle" /\ vs' = Unset /\ config' = Blank
    /\ resolved' = FALSE /\ persist' = FALSE /\ guessed' = FALSE /\ chosen' = None
    /\ UNCHANGED <<system, conjurrc, writable, appliance>>

Next ==
    \/ \E env \in Environments : Load(env) \/ \E c \in HandBuilt : BuildConfig(env, c)
    \/ DefaultAccount \/ DefaultEnvironment
    \/ \E n \in {"", "a"} : SetNamespace(n)
    \/ Validate \/ Exit

Spec == Init /\ [][Next]_vars

-----------------------------------------------------------------------------
(* Types; in particular every setting has one value, whatever was merged.  *)
TypeOK ==
    /\ pc \in {"idle", "account", "environment", "loaded"}
    /\ vs \in [Settings -> STRING \cup {None}]
    /\ config \in [Settings -> STRING]
    /\ config["appliance_url"] \in Urls
    /\ config["environment"] \in EnvironmentTypes
    /\ {system, conjurrc} \subseteq Files \cup {None} /\ appliance \in Appliances
    /\ {writable, resolved, persist, guessed} \subseteq BOOLEAN
    /\ chosen \in {None, "", "a"}

(* The file that one LoadConfig leaves behind, killed or not, is one that  *)
(* the next can read: what it appends never repeats a key or spoils a      *)
(* line.  Needs files that end in a newline and keys that have a value.    *)
Parseable == conjurrc # None => Parses(conjurrc)

(* What LoadConfig returned, another process with the same variables gets  *)
(* as well, without working it out again or probing the appliance, unless  *)
(* the environment was a guess.                                            *)
LoadedAgain ==
    pc = "loaded" /\ persist /\ writable /\ ~guessed =>
        \A s \in {"appliance_url", "account", "environment"} : Merged(vs)[s] = config[s]

PersistsTruth(appliances) ==
    /\ pc = "environment" /\ conjurrc' # conjurrc
    /\ config["appliance_url"] = "api" /\ appliance \in appliances
    => (config'["environment"] = "saas" <=> appliance = "edge")

(* The environment that LoadConfig writes for good is the one that the URL *)
(* leads to, never a guess made while the appliance was out of reach: for  *)
(* an edge, and for an appliance that has the /info endpoint.              *)
InfoTruth == [][PersistsTruth({"enterprise", "edge"})]_vars

(* info.go: "confident is false when the appliance could not be reached    *)
(* (for example, due to network or timeout errors)".  An OSS server whose  *)
(* root endpoint times out is classified all the same.                     *)
ProbeTruth == [][PersistsTruth(Appliances)]_vars

(* The keychain namespace that a program sets on the Config that it loaded *)
(* or built survives every Validate; the empty one on a loaded Config too  *)
(* ("Validate does not re-apply env over a caller-modified Config").       *)
CallerNamespace ==
    chosen # None /\ (resolved \/ chosen # "") => config["keychain_namespace"] = chosen
=============================================================================
