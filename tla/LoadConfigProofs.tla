-------------------------- MODULE LoadConfigProofs --------------------------
(***************************************************************************)
(* Proofs about LoadConfig, for files of any number of lines with any      *)
(* keys, any environment variables, and any number of loads that may be    *)
(* killed half-way.                                                        *)
(***************************************************************************)
EXTENDS LoadConfig, SequenceTheorems, TLAPS

(* What is read from a file whose values are allowed is allowed.           *)
AllowedConfig == {c \in [Settings -> STRING] : \A s \in Settings : Allowed(s, c[s])}
AllowedVars == {e \in [Settings -> STRING \cup {None}] :
                   \A s \in Settings : e[s] # None => Allowed(s, e[s])}

LEMMA EmptyAllowed == "" \in STRING /\ \A key : Allowed(key, "")
BY ConfigAssumption DEF Allowed, Urls, EnvironmentTypes

LEMMA ValueAllowed ==
    ASSUME NEW file \in Files, NEW key
    PROVE  ValueOf(file, key) \in STRING /\ Allowed(key, ValueOf(file, key))
<1> DEFINE given == {l \in Range(file.lines) : l.key = key}
<1>1. \A l \in Range(file.lines) : l \in Lines
    BY DEF Files, Range
<1>2. CASE given = {}
    BY <1>2, EmptyAllowed DEF ValueOf
<1>3. CASE given # {}
    <2>1. PICK l \in given : l = CHOOSE x \in given : TRUE
        BY <1>3
    <2>2. ValueOf(file, key) = l.value
        BY <1>3, <2>1 DEF ValueOf
    <2> QED
        BY <1>1, <2>1, <2>2 DEF Lines
<1> QED
    BY <1>2, <1>3

LEMMA PythonKeys ==
    \A s \in DOMAIN PythonKey :
        \/ s = "appliance_url" /\ PythonKey[s] = "conjur_url"
        \/ s = "account" /\ PythonKey[s] = "conjur_account"
<1>1. DOMAIN PythonKey = {"appliance_url", "account"}
    BY DEF PythonKey
<1>2. PythonKey["appliance_url"] = "conjur_url" /\ PythonKey["account"] = "conjur_account"
    BY DEF PythonKey
<1>3. TAKE s \in DOMAIN PythonKey
<1>4. s = "appliance_url" \/ s = "account"
    BY <1>1
<1>5. CASE s = "appliance_url"
    BY <1>2, <1>5
<1>6. CASE s = "account"
    BY <1>2, <1>6
<1> QED
    BY <1>4, <1>5, <1>6

LEMMA FileMerged ==
    ASSUME NEW c \in AllowedConfig, NEW file \in Files \cup {None}
    PROVE  mergeYAML(c, file) \in AllowedConfig
<1>1. CASE file = None
    BY <1>1 DEF mergeYAML
<1>2. CASE file # None
    <2>1. ASSUME NEW s \in Settings
          PROVE  mergeYAML(c, file)[s] \in STRING /\ Allowed(s, mergeYAML(c, file)[s])
        <3> DEFINE v == mergeValue(c[s], ValueOf(file, s))
                   p == IF v = "" /\ s \in DOMAIN PythonKey THEN ValueOf(file, PythonKey[s]) ELSE v
        <3>1. mergeYAML(c, file)[s] = p
            BY <1>2 DEF mergeYAML
        <3>2. v \in STRING /\ Allowed(s, v)
            BY <1>2, ValueAllowed DEF mergeValue, AllowedConfig
        <3>3. CASE v = "" /\ s \in DOMAIN PythonKey
            <4>1. \/ s = "appliance_url" /\ PythonKey[s] = "conjur_url"
                  \/ s = "account" /\ PythonKey[s] = "conjur_account"
                BY <3>3, PythonKeys
            <4>2. /\ ValueOf(file, PythonKey[s]) \in STRING
                  /\ Allowed(PythonKey[s], ValueOf(file, PythonKey[s]))
                BY <1>2, ValueAllowed
            <4>3. Allowed(s, ValueOf(file, PythonKey[s]))
                BY <4>1, <4>2 DEF Allowed
            <4> QED
                BY <3>1, <3>3, <4>2, <4>3
        <3> QED
            BY <3>1, <3>2, <3>3
    <2> QED
        BY <1>2, <2>1 DEF mergeYAML, AllowedConfig
<1> QED
    BY <1>1, <1>2

LEMMA MergedAllowed ==
    ASSUME TypeOK, NEW env \in AllowedVars
    PROVE  Merged(env) \in AllowedConfig
<1> DEFINE c == mergeYAML(mergeYAML(Blank, system), conjurrc)
<1>1. Blank \in AllowedConfig
    BY EmptyAllowed DEF Blank, AllowedConfig
<1>2. c \in AllowedConfig
    BY <1>1, FileMerged DEF TypeOK
<1> QED
    BY <1>2 DEF Merged, mergeEnv, mergeValue, AllowedConfig, AllowedVars

-----------------------------------------------------------------------------
(* Types.                                                                  *)
TypeInv == /\ TypeOK /\ vs \in AllowedVars /\ config \in AllowedConfig
           /\ persist => conjurrc # None

LEMMA SettingChanged ==
    ASSUME NEW c \in AllowedConfig, NEW s \in Settings, NEW value \in STRING, Allowed(s, value)
    PROVE  [c EXCEPT ![s] = value] \in AllowedConfig
BY DEF AllowedConfig

LEMMA LineTyped ==
    ASSUME NEW key \in STRING, NEW value \in STRING, Allowed(key, value)
    PROVE  Line(key, value) \in Lines
BY DEF Line, Lines

LEMMA LinesAdded ==
    ASSUME TypeOK, conjurrc # None, NEW key \in STRING, NEW value \in STRING,
           Allowed(key, value), AddToConjurRc(key, value)
    PROVE  conjurrc' \in Files
<1> DEFINE lines == conjurrc.lines
           added == Line(key, value)
           glued == Line("glued", "")
<1>1. conjurrc \in Files
    BY DEF TypeOK
<1>2. added \in Lines
    BY LineTyped
<1>3. "glued" \in STRING
    BY ConfigAssumption
<1>4. glued \in Lines
    BY <1>3, EmptyAllowed, LineTyped
<1>5. lines \in Seq(Lines)
    BY <1>1 DEF Files
<1>6. Append(lines, added) \in Seq(Lines)
    BY <1>2, <1>5, AppendProperties
<1>7. [lines EXCEPT ![Len(lines)] = glued] \in Seq(Lines)
    <2>1. CASE Len(lines) \in 1 .. Len(lines)
        BY <1>4, <1>5, <2>1, ExceptSeq
    <2>2. CASE Len(lines) \notin 1 .. Len(lines)
        <3>1. [lines EXCEPT ![Len(lines)] = glued] = lines
            BY <1>5, <2>2, LenProperties
        <3> QED
            BY <1>5, <3>1
    <2> QED
        BY <2>1, <2>2
<1>8. CASE writable
    <2>1. conjurrc' = [lines |-> IF conjurrc.ended THEN Append(lines, added)
                                 ELSE [lines EXCEPT ![Len(lines)] = glued],
                       ended |-> TRUE]
        BY <1>8 DEF AddToConjurRc
    <2> HIDE DEF lines, added, glued
    <2> QED
        BY <1>6, <1>7, <2>1 DEF Files
<1> QED
    BY <1>1, <1>8 DEF AddToConjurRc

LEMMA ConfigTyped ==
    ASSUME config \in AllowedConfig
    PROVE  /\ config \in [Settings -> STRING]
           /\ config["appliance_url"] \in Urls
           /\ config["environment"] \in EnvironmentTypes
BY DEF AllowedConfig, Allowed, Settings

LEMMA VarsTyped ==
    ASSUME NEW env \in Environments
    PROVE  env \in AllowedVars
BY ConfigAssumption DEF AllowedVars

LEMMA UnsetTyped == Unset \in AllowedVars
BY DEF Unset, AllowedVars

LEMMA BlankTyped == Blank \in AllowedConfig
BY EmptyAllowed DEF Blank, AllowedConfig

LEMMA TypeInit == Init => TypeInv
<1> SUFFICES ASSUME Init PROVE TypeInv
    OBVIOUS
<1>1. vs \in AllowedVars /\ config \in AllowedConfig
    BY UnsetTyped, BlankTyped DEF Init
<1>2. vs \in [Settings -> STRING \cup {None}]
    BY <1>1 DEF AllowedVars
<1> QED
    BY <1>1, <1>2, ConfigTyped, ConfigAssumption DEF Init, TypeInv, TypeOK

(* A step keeps the types if it keeps those of the file and the Config.    *)
LEMMA TypeKept ==
    ASSUME TypeInv, UNCHANGED <<system, writable, appliance>>,
           conjurrc' \in Files \cup {None}, vs' \in AllowedVars, config' \in AllowedConfig,
           pc' \in {"idle", "account", "environment", "loaded"},
           {resolved', persist', guessed'} \subseteq BOOLEAN, chosen' \in {None, "", "a"},
           persist' => conjurrc' # None
    PROVE  TypeInv'
<1>1. vs' \in [Settings -> STRING \cup {None}]
    BY DEF AllowedVars
<1>2. /\ config' \in [Settings -> STRING]
      /\ config'["appliance_url"] \in Urls
      /\ config'["environment"] \in EnvironmentTypes
    BY DEF AllowedConfig, Allowed, Settings
<1> QED
    BY <1>1, <1>2 DEF TypeInv, TypeOK, AllowedVars, AllowedConfig

LEMMA AccountTyped ==
    ASSUME TypeInv, DefaultAccount
    PROVE  TypeInv'
<1>0. /\ conjurrc \in Files \cup {None} /\ {resolved, persist, guessed} \subseteq BOOLEAN
      /\ chosen \in {None, "", "a"} /\ None \notin Files
    BY ConfigAssumption DEF TypeInv, TypeOK
<1>1. "conjur" \in STRING /\ "account" \in STRING /\ "account" \in Settings
    BY ConfigAssumption DEF Settings
<1>2. Allowed("account", "conjur")
    BY DEF Allowed
<1>3. config' \in AllowedConfig
    BY <1>1, <1>2, SettingChanged DEF DefaultAccount, TypeInv
<1>4. conjurrc' \in Files \/ UNCHANGED conjurrc
    BY <1>1, <1>2, LinesAdded DEF DefaultAccount, TypeInv
<1> QED
    BY <1>0, <1>3, <1>4, TypeKept DEF DefaultAccount, TypeInv

LEMMA EnvironmentTyped ==
    ASSUME TypeInv, DefaultEnvironment
    PROVE  TypeInv'
<1>0. /\ conjurrc \in Files \cup {None} /\ {resolved, persist, guessed} \subseteq BOOLEAN
      /\ chosen \in {None, "", "a"} /\ None \notin Files
    BY ConfigAssumption DEF TypeInv, TypeOK
<1>1. "environment" \in STRING /\ "environment" \in Settings
    BY ConfigAssumption DEF Settings
<1>2. ASSUME NEW info, NEW root, NEW type \in {"saas", "self-hosted"}, NEW sure \in BOOLEAN,
             config' = [config EXCEPT !["environment"] = type],
             guessed' = ~sure,
             IF persist /\ sure THEN AddToConjurRc("environment", type) ELSE UNCHANGED conjurrc
      PROVE  TypeInv'
    <2>1. type \in STRING /\ Allowed("environment", type)
        BY ConfigAssumption DEF Allowed, EnvironmentTypes
    <2>2. config' \in AllowedConfig
        BY <1>1, <1>2, <2>1, SettingChanged DEF TypeInv
    <2>3. conjurrc' \in Files \/ UNCHANGED conjurrc
        BY <1>1, <1>2, <2>1, LinesAdded DEF TypeInv
    <2> QED
        BY <1>0, <1>2, <2>2, <2>3, TypeKept DEF DefaultEnvironment, TypeInv
<1>3. CASE UNCHANGED <<config, conjurrc, guessed>>
    BY <1>0, <1>3, TypeKept DEF DefaultEnvironment, TypeInv
<1>4. CASE ~UNCHANGED <<config, conjurrc, guessed>>
    <2>1. PICK info \in Answer("info"), root \in Answer("root") :
             LET url  == config["appliance_url"]
                 type == IF url = "plain" \/ (url = "api" /\ HasSurface(info, root))
                         THEN "self-hosted" ELSE "saas"
                 sure == url = "api" => Confident(info, root)
             IN  /\ config' = [config EXCEPT !["environment"] = type]
                 /\ guessed' = ~sure
                 /\ IF persist /\ sure THEN AddToConjurRc("environment", type)
                    ELSE UNCHANGED conjurrc
        BY <1>4 DEF DefaultEnvironment
    <2> DEFINE type == IF \/ config["appliance_url"] = "plain"
                          \/ config["appliance_url"] = "api" /\ HasSurface(info, root)
                       THEN "self-hosted" ELSE "saas"
               sure == config["appliance_url"] = "api" => Confident(info, root)
    <2>2. type \in {"saas", "self-hosted"} /\ sure \in BOOLEAN
        OBVIOUS
    <2>3. /\ config' = [config EXCEPT !["environment"] = type]
          /\ guessed' = ~sure
          /\ IF persist /\ sure THEN AddToConjurRc("environment", type) ELSE UNCHANGED conjurrc
        BY <2>1
    <2> HIDE DEF type, sure
    <2> QED
        BY <1>2, <2>2, <2>3
<1> QED
    BY <1>3, <1>4

LEMMA TypeStep == TypeInv /\ [Next]_vars => TypeInv'
<1> SUFFICES ASSUME TypeInv, [Next]_vars PROVE TypeInv'
    OBVIOUS
<1>0. /\ conjurrc \in Files \cup {None} /\ {resolved, persist, guessed} \subseteq BOOLEAN
      /\ chosen \in {None, "", "a"} /\ pc \in {"idle", "account", "environment", "loaded"}
      /\ vs \in AllowedVars /\ config \in AllowedConfig /\ (persist => conjurrc # None)
    BY DEF TypeInv, TypeOK
<1>1. ASSUME NEW env \in Environments, Load(env) PROVE TypeInv'
    <2>1. env \in AllowedVars /\ Merged(env) \in AllowedConfig
        BY VarsTyped, MergedAllowed DEF TypeInv
    <2> QED
        BY <1>0, <1>1, <2>1, TypeKept DEF Load
<1>2. ASSUME NEW env \in Environments, NEW c \in HandBuilt, BuildConfig(env, c) PROVE TypeInv'
    <2>1. env \in AllowedVars /\ c \in AllowedConfig
        BY VarsTyped, ConfigAssumption DEF AllowedConfig
    <2> QED
        BY <1>0, <1>2, <2>1, TypeKept DEF BuildConfig
<1>3. ASSUME NEW n \in {"", "a"}, SetNamespace(n) PROVE TypeInv'
    <2>1. n \in STRING /\ Allowed("keychain_namespace", n) /\ "keychain_namespace" \in Settings
        BY ConfigAssumption, EmptyAllowed DEF Allowed, Settings
    <2>2. config' \in AllowedConfig
        BY <1>0, <1>3, <2>1, SettingChanged DEF SetNamespace
    <2> QED
        BY <1>0, <1>3, <2>2, TypeKept DEF SetNamespace
<1>4. CASE Validate
    <2>1. "keychain_namespace" \in Settings
        BY DEF Settings
    <2>2. /\ KeptNamespace(config, vs, resolved) \in STRING
          /\ Allowed("keychain_namespace", KeptNamespace(config, vs, resolved))
        BY <1>0, <2>1 DEF KeptNamespace, AllowedConfig, AllowedVars
    <2>3. config' \in AllowedConfig
        BY <1>0, <1>4, <2>1, <2>2, SettingChanged DEF Validate
    <2> QED
        BY <1>0, <1>4, <2>3, TypeKept DEF Validate
<1>5. CASE Exit
    BY <1>0, <1>5, UnsetTyped, BlankTyped, TypeKept DEF Exit
<1>6. CASE UNCHANGED vars
    BY <1>0, <1>6, TypeKept DEF vars
<1> QED
    BY <1>1, <1>2, <1>3, <1>4, <1>5, <1>6, AccountTyped, EnvironmentTyped DEF Next

LEMMA TypeInvariant == Spec => []TypeInv
BY TypeInit, TypeStep, PTL DEF Spec

(* Whatever was merged, and however often, every setting has one value, of *)
(* its class, and the conjurrc file is a sequence of lines that are, too.  *)
THEOREM TypeCorrect == Spec => []TypeOK
<1>1. TypeInv => TypeOK
    BY DEF TypeInv
<1> QED
    BY <1>1, TypeInvariant, PTL

-----------------------------------------------------------------------------
(* The namespace that a program has set stays, through every Validate.     *)
LEMMA NamespaceKept ==
    ASSUME TypeInv, CallerNamespace, [Next]_vars
    PROVE  CallerNamespace'
<1>1. config \in [Settings -> STRING] /\ "keychain_namespace" \in Settings
    BY DEF TypeInv, TypeOK, Settings
<1>2. CASE UNCHANGED <<resolved, chosen>> /\ UNCHANGED config["keychain_namespace"]
    BY <1>2 DEF CallerNamespace
<1>3. CASE chosen' = None
    BY <1>3 DEF CallerNamespace
<1>4. ASSUME NEW n \in {"", "a"}, SetNamespace(n) PROVE CallerNamespace'
    BY <1>1, <1>4 DEF SetNamespace, CallerNamespace
<1>5. CASE Validate
    BY <1>1, <1>5 DEF Validate, KeptNamespace, CallerNamespace
<1>6. CASE DefaultAccount
    BY <1>1, <1>2, <1>6 DEF DefaultAccount
<1>7. CASE DefaultEnvironment
    BY <1>1, <1>2, <1>7 DEF DefaultEnvironment
<1>8. ASSUME NEW env \in Environments, Load(env) \/ \E c \in HandBuilt : BuildConfig(env, c)
      PROVE  CallerNamespace'
    BY <1>3, <1>8 DEF Load, BuildConfig
<1>9. CASE Exit
    BY <1>3, <1>9 DEF Exit
<1>10. CASE UNCHANGED vars
    BY <1>2, <1>10 DEF vars
<1> QED
    BY <1>4, <1>5, <1>6, <1>7, <1>8, <1>9, <1>10 DEF Next

(* No Validate brings back the environment's namespace over the one that   *)
(* the program has set, however often both happen.                         *)
THEOREM NamespaceStands == Spec => []CallerNamespace
<1>1. Init => CallerNamespace
    BY DEF Init, CallerNamespace
<1>2. TypeInv /\ CallerNamespace /\ [Next]_vars => CallerNamespace'
    BY NamespaceKept
<1> QED
    BY <1>1, <1>2, TypeInvariant, PTL DEF Spec

-----------------------------------------------------------------------------
(* The conjurrc file.  In a tidy one every line ends, and the settings     *)
(* that a load may append have a value if they are there at all.           *)
TidyFile(file) ==
    /\ Parses(file) /\ file.ended
    /\ \A i \in DOMAIN file.lines :
          file.lines[i].key \in {"account", "environment"} => file.lines[i].value # ""

TidyFiles == \A f \in UserFiles \ {None} : TidyFile(f)

(* The settings LoadConfig finds a default for, and the defaults it may find. *)
Defaulted == {"account", "environment"}
Defaults(key) == {value \in STRING : value # "" /\ Allowed(key, value)}

LEMMA ValueAbsent ==
    ASSUME NEW file \in Files, TidyFile(file), NEW key \in Defaulted,
           ValueOf(file, key) = ""
    PROVE  key \notin Keys(file)
<1> DEFINE given == {l \in Range(file.lines) : l.key = key}
<1>1. SUFFICES ASSUME key \in Keys(file) PROVE FALSE
    OBVIOUS
<1>2. given # {}
    BY <1>1 DEF Keys
<1>3. PICK l \in given : l = CHOOSE x \in given : TRUE
    BY <1>2
<1>4. ValueOf(file, key) = l.value
    BY <1>2, <1>3 DEF ValueOf
<1>5. l.value # ""
    BY <1>3 DEF TidyFile, Range, Defaulted
<1> QED
    BY <1>4, <1>5

LEMMA LineAppended ==
    ASSUME NEW lines \in Seq(Lines), NEW added \in Lines
    PROVE  /\ DOMAIN Append(lines, added) = DOMAIN lines \cup {Len(lines) + 1}
           /\ Append(lines, added)[Len(lines) + 1] = added
           /\ \A i \in DOMAIN lines : Append(lines, added)[i] = lines[i]
           /\ Range(Append(lines, added)) = Range(lines) \cup {added}
<1>1. Len(lines) \in Nat /\ DOMAIN lines = 1 .. Len(lines)
    BY LenProperties
<1>2. DOMAIN Append(lines, added) = DOMAIN lines \cup {Len(lines) + 1}
    BY <1>1, AppendProperties, LenProperties
<1>3. /\ Append(lines, added)[Len(lines) + 1] = added
      /\ \A i \in DOMAIN lines : Append(lines, added)[i] = lines[i]
    BY <1>1, AppendProperties
<1> QED
    BY <1>2, <1>3 DEF Range

(* The file with one more line.                                            *)
Longer(file, key, value) ==
    [lines |-> Append(file.lines, Line(key, value)), ended |-> TRUE]

KeysOnce(lines) == \A i, j \in DOMAIN lines : lines[i].key = lines[j].key => i = j

LEMMA LineFields == \A k, v : Line(k, v).key = k /\ Line(k, v).value = v
BY DEF Line

LEMMA KeyAppended ==
    ASSUME NEW file \in Files, NEW key \in STRING, NEW value \in STRING, Allowed(key, value),
           key \notin Keys(file)
    PROVE  LET longer == Longer(file, key, value) IN
           /\ longer.ended
           /\ Keys(longer) = Keys(file) \cup {key}
           /\ Range(longer.lines) = Range(file.lines) \cup {Line(key, value)}
           /\ \A i \in DOMAIN longer.lines :
                 \/ i \in DOMAIN file.lines /\ longer.lines[i] = file.lines[i]
                 \/ longer.lines[i].key = key /\ longer.lines[i].value = value
           /\ KeysOnce(file.lines) => KeysOnce(longer.lines)
<1> DEFINE longer == Longer(file, key, value)
<1>1. file.lines \in Seq(Lines) /\ Line(key, value) \in Lines
    BY LineTyped DEF Files
<1>2. PICK added : added = Line(key, value) /\ added.key = key /\ added.value = value
    BY LineFields
<1>8. longer.lines = Append(file.lines, added) /\ longer.ended
    BY <1>2 DEF Longer
<1> HIDE DEF longer
<1>3. /\ DOMAIN longer.lines = DOMAIN file.lines \cup {Len(file.lines) + 1}
      /\ longer.lines[Len(file.lines) + 1] = added
      /\ \A i \in DOMAIN file.lines : longer.lines[i] = file.lines[i]
      /\ Range(longer.lines) = Range(file.lines) \cup {added}
    <2>1. added \in Lines
        BY <1>1, <1>2
    <2> QED
        BY <1>1, <1>8, <2>1, LineAppended
<1>4. \A i \in DOMAIN file.lines : file.lines[i].key # key
    BY DEF Keys, Range
<1>5. Keys(longer) = Keys(file) \cup {key}
    BY <1>2, <1>3 DEF Keys
<1>6. KeysOnce(file.lines) => KeysOnce(longer.lines)
    BY <1>2, <1>3, <1>4 DEF KeysOnce
<1>7. \A i \in DOMAIN longer.lines :
         \/ i \in DOMAIN file.lines /\ longer.lines[i] = file.lines[i]
         \/ longer.lines[i].key = key /\ longer.lines[i].value = value
    BY <1>2, <1>3
<1> QED
    BY <1>2, <1>3, <1>5, <1>6, <1>7, <1>8 DEF longer

(* A key that is appended is read back, and every other value stays.       *)
LEMMA ValueAppended ==
    ASSUME NEW file \in Files, NEW key \in STRING, NEW value \in STRING, Allowed(key, value),
           key \notin Keys(file)
    PROVE  /\ ValueOf(Longer(file, key, value), key) = value
           /\ \A k : k # key => ValueOf(Longer(file, key, value), k) = ValueOf(file, k)
<1> DEFINE longer == Longer(file, key, value)
<1>2. PICK added : added = Line(key, value) /\ added.key = key /\ added.value = value
    BY LineFields
<1>3. Range(longer.lines) = Range(file.lines) \cup {added}
    <2>1. Range(longer.lines) = Range(file.lines) \cup {Line(key, value)}
        BY KeyAppended
    <2> QED
        BY <1>2, <2>1
<1>4. ValueOf(longer, key) = value
    <2>1. {l \in Range(longer.lines) : l.key = key} = {added}
        BY <1>2, <1>3 DEF Keys
    <2>2. ValueOf(longer, key) = (CHOOSE l \in {added} : TRUE).value
        BY <2>1 DEF ValueOf
    <2> QED
        BY <1>2, <2>2
<1>5. ASSUME NEW k, k # key PROVE ValueOf(longer, k) = ValueOf(file, k)
    <2> DEFINE given(f) == {l \in Range(f.lines) : l.key = k}
               value_(g) == IF g = {} THEN "" ELSE (CHOOSE l \in g : TRUE).value
    <2>1. given(longer) = given(file)
        BY <1>2, <1>3, <1>5
    <2>2. ValueOf(longer, k) = value_(given(longer)) /\ ValueOf(file, k) = value_(given(file))
        BY DEF ValueOf
    <2> HIDE DEF given, value_
    <2> QED
        BY <2>1, <2>2
<1> QED
    BY <1>4, <1>5

LEMMA TidyAppended ==
    ASSUME NEW file \in Files, TidyFile(file), NEW key \in STRING, NEW value \in STRING,
           key \notin {"glued", "keychain_namespace"}, value # "", Allowed(key, value),
           key \notin Keys(file)
    PROVE  TidyFile(Longer(file, key, value))
<1> DEFINE longer == Longer(file, key, value)
<1>1. /\ longer.ended
      /\ Keys(longer) = Keys(file) \cup {key}
      /\ Range(longer.lines) = Range(file.lines) \cup {Line(key, value)}
      /\ \A i \in DOMAIN longer.lines :
            \/ i \in DOMAIN file.lines /\ longer.lines[i] = file.lines[i]
            \/ longer.lines[i].key = key /\ longer.lines[i].value = value
      /\ KeysOnce(file.lines) => KeysOnce(longer.lines)
    BY KeyAppended
<1>2. KeysOnce(longer.lines)
    BY <1>1 DEF TidyFile, Parses, KeysOnce
<1>3. "glued" \notin Keys(longer)
    BY <1>1 DEF TidyFile, Parses
<1>4. ~rejectEmptyYAMLKeychainNamespace(longer)
    BY <1>1 DEF TidyFile, Parses, rejectEmptyYAMLKeychainNamespace, Line
<1>5. \A i \in DOMAIN longer.lines :
         longer.lines[i].key \in {"account", "environment"} => longer.lines[i].value # ""
    <2> TAKE i \in DOMAIN longer.lines
    <2>1. CASE i \in DOMAIN file.lines /\ longer.lines[i] = file.lines[i]
        BY <2>1 DEF TidyFile
    <2>2. CASE longer.lines[i].key = key /\ longer.lines[i].value = value
        BY <2>2
    <2> QED
        BY <1>1, <2>1, <2>2
<1> QED
    BY <1>1, <1>2, <1>3, <1>4, <1>5 DEF TidyFile, Parses, KeysOnce

(* What a load reads of a setting: file over the configuration of the       *)
(* files before it, the environment over both.                             *)
Read(c, file, env, s) == mergeEnv(mergeYAML(c, file), env)[s]
Lacks(c, file, env, s) == Read(c, file, env, s) = ""

(* A default that was missing, once appended, is what the next merge finds. *)
LEMMA DefaultFound ==
    ASSUME NEW c \in AllowedConfig, NEW env \in AllowedVars, NEW file \in Files, TidyFile(file),
           NEW key \in Defaulted, NEW value \in Defaults(key), Lacks(c, file, env, key)
    PROVE  /\ key \notin Keys(file)
           /\ Read(c, Longer(file, key, value), env, key) = value
           /\ \A s \in Settings \ {key} :
                 Read(c, Longer(file, key, value), env, s) = Read(c, file, env, s)
<1> DEFINE longer == Longer(file, key, value)
<1>1. key \in Settings /\ key \in STRING /\ key # "keychain_namespace" /\ key # "conjur_account"
      /\ key # "conjur_url"
      /\ value \in STRING /\ value # "" /\ Allowed(key, value)
    BY ConfigAssumption DEF Settings, Defaulted, Defaults
<1>2. file # None /\ longer # None
    <2>1. longer \in Files
        <3>1. file.lines \in Seq(Lines) /\ Line(key, value) \in Lines
            BY <1>1, LineTyped DEF Files
        <3>2. Append(file.lines, Line(key, value)) \in Seq(Lines)
            BY <3>1, AppendProperties
        <3> QED
            BY <3>2 DEF Longer, Files
    <2> QED
        BY <2>1, ConfigAssumption
<1>3. mergeYAML(c, file)[key] = "" /\ env[key] \in {None, ""}
    BY <1>1 DEF Lacks, Read, mergeEnv, mergeValue
<1>4. ValueOf(file, key) = ""
    BY <1>1, <1>2, <1>3 DEF mergeYAML, mergeValue
<1>5. c[key] = ""
    BY <1>1, <1>2, <1>3, <1>4 DEF mergeYAML, mergeValue
<1>6. key \notin Keys(file)
    BY <1>4, ValueAbsent
<1>7. /\ ValueOf(longer, key) = value
      /\ \A k : k # key => ValueOf(longer, k) = ValueOf(file, k)
    BY <1>1, <1>6, ValueAppended
<1> HIDE DEF longer
<1>8. mergeYAML(c, longer)[key] = value
    <2>1. mergeValue(c[key], ValueOf(longer, key)) = value
        BY <1>1, <1>7 DEF mergeValue
    <2> QED
        BY <1>1, <1>2, <2>1 DEF mergeYAML
<1>9. Read(c, longer, env, key) = value
    BY <1>1, <1>3, <1>8 DEF Read, mergeEnv, mergeValue
<1>10. ASSUME NEW s \in Settings \ {key}
       PROVE  Read(c, longer, env, s) = Read(c, file, env, s)
    <2> DEFINE read(f) == LET v == mergeValue(c[s], ValueOf(f, s)) IN
                          IF v = "" /\ s \in DOMAIN PythonKey THEN ValueOf(f, PythonKey[s]) ELSE v
    <2>1. ASSUME s \in DOMAIN PythonKey PROVE PythonKey[s] # key
        BY <1>1, <2>1, PythonKeys
    <2>3. mergeYAML(c, longer)[s] = read(longer) /\ mergeYAML(c, file)[s] = read(file)
        BY <1>2 DEF mergeYAML
    <2> HIDE DEF read
    <2>4. read(longer) = read(file)
        <3>1. ValueOf(longer, s) = ValueOf(file, s)
            BY <1>7, <1>10
        <3>2. s \in DOMAIN PythonKey => ValueOf(longer, PythonKey[s]) = ValueOf(file, PythonKey[s])
            BY <1>7, <2>1
        <3> QED
            BY <3>1, <3>2 DEF read
    <2>2. mergeYAML(c, longer)[s] = mergeYAML(c, file)[s]
        BY <2>3, <2>4
    <2> QED
        BY <2>2 DEF Read, mergeEnv
<1> QED
    BY <1>6, <1>9, <1>10 DEF longer


-----------------------------------------------------------------------------
(* What LoadConfig persists.  Found: what a load would read again.         *)
Found(s) == Merged(vs)[s] = config[s]

Persisted ==
    persist => /\ Found("appliance_url")
               /\ pc = "account" \/ writable => Found("account")
               /\ pc # "loaded" \/ (writable /\ ~guessed) => Found("environment")

LoadInv == /\ TypeInv
           /\ conjurrc # None => TidyFile(conjurrc)
           /\ Persisted

Missing(s) == Merged(vs)[s] = ""

LEMMA DefaultPersisted ==
    ASSUME TypeInv, conjurrc # None, TidyFile(conjurrc), UNCHANGED <<system, vs>>,
           NEW key \in Defaulted, NEW value \in Defaults(key), Missing(key),
           AddToConjurRc(key, value)
    PROVE  /\ TidyFile(conjurrc')
           /\ writable => Merged(vs)'[key] = value
           /\ \A s \in Settings \ {key} : Merged(vs)'[s] = Merged(vs)[s]
<1> DEFINE base == mergeYAML(Blank, system)
           longer == Longer(conjurrc, key, value)
<1>1. conjurrc \in Files /\ vs \in AllowedVars /\ base \in AllowedConfig
    BY BlankTyped, FileMerged DEF TypeInv, TypeOK
<1>2. /\ \A s : Merged(vs)[s] = Read(base, conjurrc, vs, s)
      /\ \A s : Merged(vs)'[s] = Read(base, conjurrc', vs, s)
    BY DEF Merged, Read
<1> HIDE DEF base, longer
<1>5. Lacks(base, conjurrc, vs, key)
    BY <1>2 DEF Lacks, Missing
<1>3. CASE writable
    <2>1. conjurrc' = longer
        BY <1>3 DEF AddToConjurRc, TidyFile, Longer, longer
    <2>2. /\ key \notin Keys(conjurrc)
          /\ Read(base, longer, vs, key) = value
          /\ \A s \in Settings \ {key} : Read(base, longer, vs, s) = Read(base, conjurrc, vs, s)
        BY <1>1, <1>5, DefaultFound DEF longer
    <2>3. TidyFile(longer)
        <3>1. /\ key \in STRING /\ key \notin {"glued", "keychain_namespace"}
              /\ value \in STRING /\ value # "" /\ Allowed(key, value)
            BY ConfigAssumption DEF Settings, Defaulted, Defaults
        <3> QED
            BY <1>1, <2>2, <3>1, TidyAppended DEF longer
    <2> QED
        BY <1>2, <2>1, <2>2, <2>3
<1>4. CASE ~writable
    <2>1. conjurrc' = conjurrc
        BY <1>4 DEF AddToConjurRc
    <2> QED
        BY <1>2, <1>4, <2>1
<1> QED
    BY <1>3, <1>4

LEMMA LoadInit == TidyFiles /\ Init => LoadInv
BY TypeInit DEF TidyFiles, Init, LoadInv, Persisted

(* Steps that leave the files alone and the settings that were found.      *)
LEMMA FoundKept ==
    ASSUME LoadInv, TypeInv', persist' => persist,
           UNCHANGED <<system, conjurrc, writable, vs, pc, guessed>>,
           \A s \in {"appliance_url", "account", "environment"} : config'[s] = config[s]
    PROVE  LoadInv'
BY DEF LoadInv, Persisted, Found, Merged

LEMMA AccountPersisted ==
    ASSUME LoadInv, TypeInv', DefaultAccount
    PROVE  LoadInv'
<1>1. /\ config \in [Settings -> STRING] /\ (persist => conjurrc # None)
      /\ UNCHANGED <<system, vs, writable, persist, guessed>> /\ pc = "account" /\ pc' = "environment"
    BY DEF LoadInv, TypeInv, TypeOK, DefaultAccount
<1>2. CASE UNCHANGED <<config, conjurrc>>
    BY <1>1, <1>2 DEF LoadInv, Persisted, Found, Merged
<1>3. CASE ~UNCHANGED <<config, conjurrc>>
    <2>1. /\ config["account"] = "" /\ config' = [config EXCEPT !["account"] = "conjur"]
          /\ IF persist THEN AddToConjurRc("account", "conjur") ELSE UNCHANGED conjurrc
        BY <1>3 DEF DefaultAccount
    <2>2. CASE ~persist
        BY <1>1, <2>1, <2>2 DEF LoadInv, Persisted
    <2>3. CASE persist
        <3>1. Missing("account")
            BY <1>1, <2>1, <2>3 DEF LoadInv, Persisted, Found, Missing
        <3>2. "account" \in Defaulted /\ "conjur" \in Defaults("account")
            BY ConfigAssumption DEF Allowed, Defaulted, Defaults
        <3>3. /\ TidyFile(conjurrc')
              /\ writable => Merged(vs)'["account"] = "conjur"
              /\ \A s \in Settings \ {"account"} : Merged(vs)'[s] = Merged(vs)[s]
            BY <1>1, <2>1, <2>3, <3>1, <3>2, DefaultPersisted DEF LoadInv
        <3>4. /\ config'["account"] = "conjur"
              /\ config'["appliance_url"] = config["appliance_url"]
              /\ config'["environment"] = config["environment"]
            BY <1>1, <2>1 DEF Settings
        <3>5. {"appliance_url", "environment"} \subseteq Settings \ {"account"}
            BY DEF Settings
        <3> QED
            BY <1>1, <2>3, <3>3, <3>4, <3>5 DEF LoadInv, Persisted, Found
    <2> QED
        BY <2>2, <2>3
<1> QED
    BY <1>2, <1>3

LEMMA EnvironmentPersisted ==
    ASSUME LoadInv, TypeInv', DefaultEnvironment
    PROVE  LoadInv'
<1>1. /\ config \in [Settings -> STRING] /\ (persist => conjurrc # None)
      /\ UNCHANGED <<system, vs, writable, persist>> /\ pc = "environment" /\ pc' = "loaded"
    BY DEF LoadInv, TypeInv, TypeOK, DefaultEnvironment
<1>2. CASE UNCHANGED <<config, conjurrc, guessed>>
    BY <1>1, <1>2 DEF LoadInv, Persisted, Found, Merged
<1>3. ASSUME NEW type \in {"saas", "self-hosted"}, NEW sure \in BOOLEAN,
             config["environment"] = "",
             config' = [config EXCEPT !["environment"] = type],
             guessed' = ~sure,
             IF persist /\ sure THEN AddToConjurRc("environment", type) ELSE UNCHANGED conjurrc
      PROVE  LoadInv'
    <2>1. /\ config'["environment"] = type
          /\ config'["appliance_url"] = config["appliance_url"]
          /\ config'["account"] = config["account"]
        BY <1>1, <1>3 DEF Settings
    <2>2. CASE ~(persist /\ sure)
        BY <1>1, <1>3, <2>1, <2>2 DEF LoadInv, Persisted, Found, Merged
    <2>3. CASE persist /\ sure
        <3>1. Missing("environment")
            BY <1>1, <1>3, <2>3 DEF LoadInv, Persisted, Found, Missing
        <3>2. "environment" \in Defaulted /\ type \in Defaults("environment")
            BY ConfigAssumption DEF Allowed, EnvironmentTypes, Defaulted, Defaults
        <3>3. /\ TidyFile(conjurrc')
              /\ writable => Merged(vs)'["environment"] = type
              /\ \A s \in Settings \ {"environment"} : Merged(vs)'[s] = Merged(vs)[s]
            BY <1>1, <1>3, <2>3, <3>1, <3>2, DefaultPersisted DEF LoadInv
        <3>4. {"appliance_url", "account"} \subseteq Settings \ {"environment"}
            BY DEF Settings
        <3> QED
            BY <1>1, <2>1, <2>3, <3>3, <3>4 DEF LoadInv, Persisted, Found
    <2> QED
        BY <2>2, <2>3
<1>4. CASE ~UNCHANGED <<config, conjurrc, guessed>>
    <2>1. PICK info \in Answer("info"), root \in Answer("root") :
             LET url  == config["appliance_url"]
                 type == IF url = "plain" \/ (url = "api" /\ HasSurface(info, root))
                         THEN "self-hosted" ELSE "saas"
                 sure == url = "api" => Confident(info, root)
             IN  /\ config' = [config EXCEPT !["environment"] = type]
                 /\ guessed' = ~sure
                 /\ IF persist /\ sure THEN AddToConjurRc("environment", type)
                    ELSE UNCHANGED conjurrc
        BY <1>4 DEF DefaultEnvironment
    <2> DEFINE type == IF \/ config["appliance_url"] = "plain"
                          \/ config["appliance_url"] = "api" /\ HasSurface(info, root)
                       THEN "self-hosted" ELSE "saas"
               sure == config["appliance_url"] = "api" => Confident(info, root)
    <2>2. type \in {"saas", "self-hosted"} /\ sure \in BOOLEAN
        OBVIOUS
    <2>3. /\ config' = [config EXCEPT !["environment"] = type]
          /\ guessed' = ~sure
          /\ IF persist /\ sure THEN AddToConjurRc("environment", type) ELSE UNCHANGED conjurrc
        BY <2>1
    <2>4. config["environment"] = ""
        BY <1>4 DEF DefaultEnvironment
    <2> HIDE DEF type, sure
    <2> QED
        BY <1>3, <2>2, <2>3, <2>4
<1> QED
    BY <1>2, <1>4

LEMMA LoadStep == LoadInv /\ [Next]_vars => LoadInv'
<1> SUFFICES ASSUME LoadInv, [Next]_vars PROVE LoadInv'
    OBVIOUS
<1>0. TypeInv' /\ config \in [Settings -> STRING]
    BY TypeStep DEF LoadInv, TypeInv, TypeOK
<1>1. ASSUME NEW env \in Environments, Load(env) PROVE LoadInv'
    BY <1>0, <1>1 DEF Load, LoadInv, Persisted, Found, Merged
<1>2. ASSUME NEW env \in Environments, NEW c \in HandBuilt, BuildConfig(env, c) PROVE LoadInv'
    BY <1>0, <1>2 DEF BuildConfig, LoadInv, Persisted
<1>3. ASSUME NEW n \in {"", "a"}, SetNamespace(n) PROVE LoadInv'
    <2>1. \A s \in {"appliance_url", "account", "environment"} : config'[s] = config[s]
        BY <1>0, <1>3 DEF SetNamespace, Settings
    <2> QED
        BY <1>0, <1>3, <2>1, FoundKept DEF SetNamespace
<1>4. CASE Validate
    BY <1>0, <1>4 DEF Validate, LoadInv, Persisted
<1>5. CASE Exit
    BY <1>0, <1>5 DEF Exit, LoadInv, Persisted
<1>6. CASE UNCHANGED vars
    BY <1>0, <1>6, FoundKept DEF vars
<1> QED
    BY <1>0, <1>1, <1>2, <1>3, <1>4, <1>5, <1>6, AccountPersisted, EnvironmentPersisted DEF Next

LEMMA LoadInvariant == ASSUME TidyFiles PROVE Spec => []LoadInv
<1>1. Init => LoadInv
    BY LoadInit
<1> QED
    BY <1>1, LoadStep, PTL DEF Spec

(* Loads that are killed at any point, under any variables, leave a        *)
(* conjurrc file that the next load can read, if the user's file was tidy. *)
THEOREM StaysParseable == TidyFiles => (Spec => []Parseable)
<1> SUFFICES ASSUME TidyFiles PROVE Spec => []Parseable
    OBVIOUS
<1>1. LoadInv => Parseable
    BY DEF LoadInv, Parseable, TidyFile
<1> QED
    BY <1>1, LoadInvariant, PTL

(* What one load returned, unless it was a guess, the next one under the   *)
(* same variables merges from the files, if the user's file was tidy.      *)
THEOREM LoadsAgree == TidyFiles => (Spec => []LoadedAgain)
<1> SUFFICES ASSUME TidyFiles PROVE Spec => []LoadedAgain
    OBVIOUS
<1>1. LoadInv => LoadedAgain
    BY DEF LoadInv, Persisted, Found, LoadedAgain
<1> QED
    BY <1>1, LoadInvariant, PTL


-----------------------------------------------------------------------------
(* The probe.  What it writes for good rests on two answers that settle    *)
(* the matter.                                                             *)
Settles(info, root) ==
    /\ info \in Answer("info") /\ root \in Answer("root") /\ Confident(info, root)
    /\ config'["environment"] = IF HasSurface(info, root) THEN "self-hosted" ELSE "saas"

LEMMA ProbeSettles ==
    ASSUME TypeInv, DefaultEnvironment, conjurrc' # conjurrc, config["appliance_url"] = "api"
    PROVE  \E info, root : Settles(info, root)
<1>1. "environment" \in Settings /\ config \in [Settings -> STRING] /\ "api" # "plain"
    BY DEF TypeInv, TypeOK, Settings
<1>2. PICK info \in Answer("info"), root \in Answer("root") :
         LET url  == config["appliance_url"]
             type == IF url = "plain" \/ (url = "api" /\ HasSurface(info, root))
                     THEN "self-hosted" ELSE "saas"
             sure == url = "api" => Confident(info, root)
         IN  /\ config' = [config EXCEPT !["environment"] = type]
             /\ IF persist /\ sure THEN AddToConjurRc("environment", type)
                ELSE UNCHANGED conjurrc
    BY DEF DefaultEnvironment
<1>3. Confident(info, root)
    BY <1>2
<1>4. CASE HasSurface(info, root)
    BY <1>1, <1>2, <1>3, <1>4 DEF Settles
<1>5. CASE ~HasSurface(info, root)
    BY <1>1, <1>2, <1>3, <1>5 DEF Settles
<1> QED
    BY <1>4, <1>5

(* The steps that change the conjurrc file where the environment is due.   *)
LEMMA OnlyDefaults ==
    ASSUME [Next]_vars, pc = "environment", conjurrc' # conjurrc
    PROVE  DefaultEnvironment
BY DEF Next, vars, Load, BuildConfig, DefaultAccount, SetNamespace, Validate, Exit

(* For a kind of appliance, that it is the edge and that the two answers   *)
(* show no surface are the same.                                           *)
LEMMA TruthFrom ==
    ASSUME TypeInv, [Next]_vars, NEW kinds,
           ASSUME appliance \in kinds,
                  NEW info \in Answer("info"), NEW root \in Answer("root"), Confident(info, root)
           PROVE  HasSurface(info, root) <=> appliance # "edge"
    PROVE  PersistsTruth(kinds)
<1> SUFFICES ASSUME pc = "environment", conjurrc' # conjurrc,
                    config["appliance_url"] = "api", appliance \in kinds
             PROVE  config'["environment"] = "saas" <=> appliance = "edge"
    BY DEF PersistsTruth
<1>1. PICK info, root : Settles(info, root)
    BY OnlyDefaults, ProbeSettles
<1>2. HasSurface(info, root) <=> appliance # "edge"
    BY <1>1 DEF Settles
<1>3. config'["environment"] = IF HasSurface(info, root) THEN "self-hosted" ELSE "saas"
    BY <1>1 DEF Settles
<1>4. CASE HasSurface(info, root)
    <2>1. config'["environment"] = "self-hosted"
        BY <1>3, <1>4
    <2> QED
        BY <1>2, <1>4, <2>1
<1>5. CASE ~HasSurface(info, root)
    <2>1. config'["environment"] = "saas"
        BY <1>3, <1>5
    <2> QED
        BY <1>2, <1>5, <2>1
<1> QED
    BY <1>4, <1>5

(* Where an appliance that cannot be reached is one that gives no answer,  *)
(* and no proxy answers in its place, the environment that a load writes   *)
(* for good is the true one, for the appliances with /info and the edge.   *)
THEOREM WritesTruth == "status" \notin Outages => (Spec => InfoTruth)
<1> SUFFICES ASSUME "status" \notin Outages PROVE Spec => InfoTruth
    OBVIOUS
<1> DEFINE kinds == {"enterprise", "edge"}
<1>1. Outages \subseteq {"timeout"}
    BY ConfigAssumption
<1>2. ASSUME appliance \in kinds,
             NEW info \in Answer("info"), NEW root \in Answer("root"), Confident(info, root)
      PROVE  HasSurface(info, root) <=> appliance # "edge"
    <2>1. CASE appliance = "enterprise"
        <3>1. {info, root} \subseteq {"surface", "timeout"}
            BY <1>1, <2>1 DEF Answer, OwnAnswer
        <3> QED
            BY <1>2, <2>1, <3>1 DEF Confident, HasSurface
    <2>2. CASE appliance = "edge"
        <3>1. {info, root} \subseteq {"status", "timeout"}
            BY <1>1, <2>2 DEF Answer, OwnAnswer
        <3> QED
            BY <2>2, <3>1 DEF HasSurface
    <2> QED
        BY <1>2, <2>1, <2>2
<1>3. TypeInv /\ [Next]_vars => PersistsTruth(kinds)
    BY <1>2, TruthFrom
<1> QED
    BY <1>3, TypeInvariant, PTL DEF Spec, InfoTruth

(* With answers that are never lost, for every appliance: it is the loss   *)
(* of an answer alone that lets an OSS server be taken for the SaaS.       *)
THEOREM WritesTruthInReach == Outages = {} => (Spec => ProbeTruth)
<1> SUFFICES ASSUME Outages = {} PROVE Spec => ProbeTruth
    OBVIOUS
<1>1. ASSUME TypeInv, appliance \in Appliances,
             NEW info \in Answer("info"), NEW root \in Answer("root"), Confident(info, root)
      PROVE  HasSurface(info, root) <=> appliance # "edge"
    <2>1. info = OwnAnswer("info") /\ root = OwnAnswer("root")
        BY DEF Answer
    <2>2. CASE appliance = "enterprise"
        BY <2>1, <2>2 DEF OwnAnswer, HasSurface
    <2>3. CASE appliance = "oss"
        BY <2>1, <2>3 DEF OwnAnswer, HasSurface
    <2>4. CASE appliance = "edge"
        BY <2>1, <2>4 DEF OwnAnswer, HasSurface
    <2> QED
        BY <1>1, <2>2, <2>3, <2>4 DEF Appliances
<1>2. TypeInv /\ [Next]_vars => PersistsTruth(Appliances)
    BY <1>1, TruthFrom
<1> QED
    BY <1>2, TypeInvariant, PTL DEF Spec, ProbeTruth
=============================================================================
