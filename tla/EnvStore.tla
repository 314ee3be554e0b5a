------------------------------ MODULE EnvStore ------------------------------
(***************************************************************************)
(* The settings of the device: environment variables, kept one per file    *)
(* (example/qwen/config.c), the AT commands that change them, and the      *)
(* cloud SDK's storage file with the registration obtained for the         *)
(* credentials among them (hal.c, example_qwen.c).  Power may fail between *)
(* any two steps.                                                          *)
(*                                                                         *)
(* Two tasks: the AT service runs one command at a time; the main task     *)
(* loads the settings, registers and logs in once per boot.                *)
(***************************************************************************)
EXTENDS Naturals

CONSTANTS
    CredKeys,       \* WS_ID, APP_ID, APP_SECRET, DEVICE_NAME, API_KEY
    PlainKeys,      \* other variables
    DefaultedKeys,  \* those of them with a default: TZ, NTP_SERVER
    Values,         \* values shorter than MAX_ENV_VALUE_LENGTH
    LongValue,      \* a value of exactly MAX_ENV_VALUE_LENGTH bytes
    TooLong,        \* a longer one
    ApiKey,         \* the credential that is given to the SDK at every boot
    LinkKeys,       \* credentials given with AT+LINKKEYCONFIG
    Default,        \* what ntp_init sets when TZ or NTP_SERVER is missing
    MaxCommands,    \* bound: AT commands
    MaxCrashes      \* bound: power failures

Keys   == CredKeys \cup PlainKeys
Absent == "absent"          \* no such variable, no such file
Empty  == "empty"           \* the empty string, the empty file
Open   == "open"            \* nothing was answered yet, or not any more

ASSUME EnvAssumption ==
    /\ CredKeys \cap PlainKeys = {}
    /\ DefaultedKeys \subseteq PlainKeys
    /\ ApiKey \in CredKeys
    /\ Keys \cap {"idle", "set", "save"} = {}
    /\ {Absent, Empty, Open, LongValue, TooLong} \cap Values = {}
    /\ {Absent, Empty} \cap {LongValue, TooLong} = {}
    /\ LongValue # TooLong
    /\ LinkKeys \subseteq [CredKeys -> Values \cup {LongValue, TooLong}]
    /\ Default \in Values
    /\ {MaxCommands, MaxCrashes} \subseteq Nat

VARIABLES
    env,            \* environ
    file,           \* the files under ENV/
    registration,   \* the credentials the SDK's storage file was made for
    at,             \* where the AT command is
    todo,           \* keys it still has to set or save
    change,         \* the values it sets, a function on some keys
    main,           \* where the main task is
    held,           \* the credentials the SDK works with
    answered,       \* history: the values when a command last answered OK
    unsaved,        \* history: keys answered OK whose file was not written
    promised,       \* history: what each file may hold by the answers given
    bypassed,       \* history: credentials were changed past a registration
    commands, crashes

answers == <<answered, unsaved, promised>>
vars == <<env, file, registration, at, todo, change, main, held, answers, bypassed,
          commands, crashes>>

-----------------------------------------------------------------------------
Contents     == Values \cup {Empty, LongValue, TooLong}
NoChange     == [k \in {} |-> Absent]
None         == [k \in {} |-> Empty]
Credentials(e) == [k \in CredKeys |-> e[k]]
Present(e)   == {k \in Keys : e[k] # Absent}

Init ==
    /\ env = [k \in Keys |-> Absent]
    /\ file = [k \in Keys |-> Absent]
    /\ registration = None
    /\ at = "idle" /\ todo = {} /\ change = NoChange
    /\ main = "load" /\ held = None
    /\ answered = [k \in Keys |-> Open] /\ unsaved = {}
    /\ promised = [k \in Keys |-> {Absent}]
    /\ bypassed = FALSE
    /\ commands = 0 /\ crashes = 0

-----------------------------------------------------------------------------
(* load_all_env skips a file of MAX_ENV_VALUE_LENGTH bytes. *)
Loadable(v) == v \in Values \cup {Empty}

(* What a variable that is not loaded has: ntp_init sets a default. *)
Missing(k) == IF k \in DefaultedKeys THEN Default ELSE Absent

(* After a boot what was not saved is gone, and nothing is said of it. *)
Forget ==
    /\ answered' = [k \in Keys |-> IF k \in unsaved THEN Open ELSE answered[k]]
    /\ unsaved' = {}

(* Mutant: ntp_init comes first, and what it set is not overwritten. *)
LoadDefaultsFirst ==
    /\ main = "load" /\ at = "idle"
    /\ env' = [k \in Keys |-> IF Loadable(file[k]) /\ k \notin PlainKeys THEN file[k]
                                                                      ELSE Missing(k)]
    /\ main' = "wait"
    /\ Forget
    /\ UNCHANGED <<file, registration, at, todo, change, held, promised, bypassed,
                   commands, crashes>>

(* load_all_env, then ntp_init.  The AT service is taken to be idle         *)
(* meanwhile.                                                               *)
Load ==
    /\ main = "load" /\ at = "idle"
    /\ env' = [k \in Keys |-> IF Loadable(file[k]) THEN file[k] ELSE Missing(k)]
    /\ main' = "wait"
    /\ Forget
    /\ UNCHANGED <<file, registration, at, todo, change, held, promised, bypassed,
                   commands, crashes>>

-----------------------------------------------------------------------------
(* What the files may hold once a command that sets these variables has     *)
(* begun: save_all_env writes every variable.                               *)
Begun(c) == [k \in Keys |->
                promised[k] \cup
                (IF k \in DOMAIN c THEN {c[k]} ELSE {env[k]} \ {Absent}) \cup
                (IF Absent \in promised[k] THEN {Empty} ELSE {})]

(* The answer that is still to come will say something new of these keys. *)
Reopened(ks) == [k \in Keys |-> IF k \in ks THEN Open ELSE answered[k]]

Command == main # "load" /\ at = "idle" /\ commands < MaxCommands

(* AT+ENV=<key>,<value>, and with an empty value the removal of the         *)
(* variable, whose file stays: save_all_env goes through the variables that *)
(* exist.                                                                   *)
AtEnvSet(k, v) ==
    /\ Command
    /\ env' = [env EXCEPT ![k] = v]
    /\ at' = "save" /\ todo' = Present(env')
    /\ promised' = Begun([x \in {k} |-> v])
    /\ answered' = Reopened({k})
    /\ unsaved' = IF v = Absent THEN unsaved \cup {k} ELSE unsaved
    /\ bypassed' = (bypassed \/ k \in CredKeys)
    /\ commands' = commands + 1
    /\ UNCHANGED <<file, registration, change, main, held, crashes>>

(* Mutant: the SDK's storage is not erased. *)
AtLinkKeyConfigKeeping(c, erased) ==
    /\ Command
    /\ at' = "set" /\ todo' = CredKeys /\ change' = c
    /\ promised' = Begun(c) /\ answered' = Reopened(CredKeys)
    /\ bypassed' = (~erased \/ main \in {"register", "login"})
    /\ commands' = commands + 1
    /\ UNCHANGED <<env, file, registration, main, held, unsaved, crashes>>

(* AT+LINKKEYCONFIG: save_linkkeyconfig erases the SDK's storage first, and *)
(* goes on when the file could not be opened (util_storage_erase's result   *)
(* is not looked at).  An erased registration mends what went past it       *)
(* before, unless the main task is about to store one.                      *)
AtLinkKeyConfig(c, erased) ==
    /\ Command
    /\ registration' = IF erased THEN None ELSE registration
    /\ at' = "set" /\ todo' = CredKeys /\ change' = c
    /\ promised' = Begun(c) /\ answered' = Reopened(CredKeys)
    /\ bypassed' = (~erased \/ main \in {"register", "login"})
    /\ commands' = commands + 1
    /\ UNCHANGED <<env, file, main, held, unsaved, crashes>>

(* ... and sets the variables one by one. *)
SetCredential(k) ==
    /\ at = "set" /\ k \in todo
    /\ env' = [env EXCEPT ![k] = change[k]]
    /\ todo' = IF todo = {k} THEN Present(env') ELSE todo \ {k}
    /\ at' = IF todo = {k} THEN "save" ELSE "set"
    /\ change' = IF todo = {k} THEN NoChange ELSE change
    /\ UNCHANGED <<file, registration, main, held, answers, bypassed, commands,
                   crashes>>

(* Mutant: opening for writing empties the file at once. *)
SaveOpenTruncates(k) ==
    /\ at = "save" /\ k \in todo /\ env[k] # TooLong
    /\ file' = [file EXCEPT ![k] = Empty]
    /\ at' = k
    /\ UNCHANGED <<env, registration, todo, change, main, held, answers, bypassed,
                   commands, crashes>>

(* save_all_env, one variable: fopen creates a missing file empty; an old   *)
(* file keeps its content until it is closed.                               *)
SaveOpen(k) ==
    /\ at = "save" /\ k \in todo /\ env[k] # TooLong
    /\ file' = [file EXCEPT ![k] = IF @ = Absent THEN Empty ELSE @]
    /\ at' = k
    /\ UNCHANGED <<env, registration, todo, change, main, held, answers, bypassed,
                   commands, crashes>>

(* fwrite and fclose. *)
SaveWrite ==
    /\ at \in Keys
    /\ file' = [file EXCEPT ![at] = env[at]]
    /\ todo' = todo \ {at} /\ unsaved' = unsaved \ {at}
    /\ at' = "save"
    /\ UNCHANGED <<env, registration, change, main, held, answered, promised, bypassed,
                   commands, crashes>>

(* A variable that does not reach its file; the command will answer OK.     *)
Unsaved(k) ==
    /\ todo' = todo \ {k} /\ unsaved' = unsaved \cup {k}
    /\ bypassed' = (bypassed \/ k \in CredKeys)
    /\ UNCHANGED <<env, file, registration, change, main, held, answered, promised,
                   commands, crashes>>

(* fwrite fails, say for want of space: littlefs drops what was written     *)
(* when the file is closed, and the old content stays.                      *)
SaveWriteFails ==
    /\ at \in Keys
    /\ Unsaved(at)
    /\ at' = "save"

(* The value is too long, or fopen fails.  It may also fail for a value of  *)
(* the length MAX_ENV_VALUE_LENGTH, whose terminator is written behind the  *)
(* array, where the file's name may lie.                                    *)
SaveSkips(k) ==
    /\ at = "save" /\ k \in todo
    /\ Unsaved(k)
    /\ UNCHANGED at

(* save_all_env returns 0, whatever was skipped, and the command answers    *)
(* OK: the settings are as they are in memory.                              *)
AnswerOk ==
    /\ at = "save" /\ todo = {}
    /\ at' = "idle"
    /\ answered' = env
    /\ promised' = [k \in Keys |-> IF k \in Present(env) \ unsaved THEN {env[k]}
                                                                 ELSE promised[k]]
    /\ UNCHANGED <<env, file, registration, todo, change, main, held, unsaved, bypassed,
                   commands, crashes>>

-----------------------------------------------------------------------------
(* What the SDK works with: the data of its storage file if it holds a      *)
(* registration, else the settings; the API key is set every time.          *)
SdkData == IF registration = None THEN Credentials(env)
           ELSE [registration EXCEPT ![ApiKey] = env[ApiKey]]

(* qwen_sdk_init_routine, once network, time and chip are ready: all five   *)
(* credentials are there, and qwen_license_sdk_init is called.              *)
SdkInit ==
    /\ main = "wait" /\ CredKeys \subseteq Present(env)
    /\ held' = SdkData
    /\ main' = IF registration = None THEN "register" ELSE "login"
    /\ bypassed' = (bypassed \/ at # "idle")
    /\ UNCHANGED <<env, file, registration, at, todo, change, answers, commands, crashes>>

(* A credential is missing: the SDK's self test, which erases its storage   *)
(* if the file can be opened.                                               *)
SelfTest(erased) ==
    /\ main = "wait" /\ ~(CredKeys \subseteq Present(env))
    /\ registration' = IF erased THEN None ELSE registration
    /\ main' = "stopped"
    /\ UNCHANGED <<env, file, at, todo, change, held, answers, bypassed, commands, crashes>>

(* device_register: the server's answer is saved. *)
Register ==
    /\ main = "register"
    /\ registration' = held
    /\ main' = "login"
    /\ UNCHANGED <<env, file, at, todo, change, held, answers, bypassed, commands, crashes>>

(* device_login: a new token is saved with the rest of the SDK's data,      *)
(* unless the stored one is still good.                                     *)
Login(newToken) ==
    /\ main = "login"
    /\ registration' = IF newToken THEN held ELSE registration
    /\ main' = "stopped"
    /\ UNCHANGED <<env, file, at, todo, change, held, answers, bypassed, commands, crashes>>

(* Either request fails, or its answer cannot be stored:                    *)
(* qwen_sdk_init_routine ends.                                              *)
RequestFails ==
    /\ main \in {"register", "login"}
    /\ main' = "stopped"
    /\ UNCHANGED <<env, file, registration, at, todo, change, held, answers, bypassed,
                   commands, crashes>>

(* Power fails, or the device is reset. *)
Crash ==
    /\ crashes < MaxCrashes
    /\ crashes' = crashes + 1
    /\ env' = [k \in Keys |-> Absent]
    /\ at' = "idle" /\ todo' = {} /\ change' = NoChange
    /\ main' = "load" /\ held' = None
    /\ UNCHANGED <<file, registration, answers, bypassed, commands>>

AtTask ==
    \/ \E k \in Keys, v \in Values \cup {LongValue, Absent} : AtEnvSet(k, v)
    \/ \E c \in LinkKeys, erased \in BOOLEAN : AtLinkKeyConfig(c, erased)
    \/ \E k \in Keys : SetCredential(k) \/ SaveOpen(k) \/ SaveSkips(k)
    \/ SaveWrite \/ SaveWriteFails \/ AnswerOk

MainTask == Load \/ SdkInit \/ Register \/ RequestFails
            \/ \E erased \in BOOLEAN : SelfTest(erased)
            \/ \E newToken \in BOOLEAN : Login(newToken)

Next == AtTask \/ MainTask \/ Crash

Spec == Init /\ [][Next]_vars

-----------------------------------------------------------------------------
StoreTypes ==
    /\ env \in [Keys -> Contents \cup {Absent}]
    /\ file \in [Keys -> Contents \cup {Absent}]
    /\ answered \in [Keys -> Contents \cup {Absent, Open}] /\ unsaved \subseteq Keys
    /\ promised \in [Keys -> SUBSET (Contents \cup {Absent})]
AtTypes ==
    /\ at \in {"idle", "set", "save"} \cup Keys
    /\ todo \subseteq Keys
    /\ change \in LinkKeys \cup {NoChange}
    /\ commands \in 0..MaxCommands /\ crashes \in 0..MaxCrashes
SdkTypes ==
    /\ registration \in [CredKeys -> Contents] \cup {None}
    /\ main \in {"load", "wait", "register", "login", "stopped"}
    /\ held \in [CredKeys -> Contents] \cup {None}
TypeOK == StoreTypes /\ AtTypes /\ SdkTypes /\ bypassed \in BOOLEAN

(* Whenever power fails, a setting is on file with the value last answered  *)
(* OK, or with that of a command that was cut short; or, where the answer   *)
(* OK was given and the file not written (a failing fopen or fwrite, a      *)
(* value that is too long, a variable that was removed), with the value it  *)
(* had there before.  A file is found empty only where there was none.      *)
FilesAsPromised == \A k \in Keys : file[k] \in promised[k]

(* The types of the settings store, and files as the answers promised.      *)
EnvInv == TypeOK /\ FilesAsPromised

(* The SDK never finds a registration that was made for other credentials   *)
(* than the settings hold, however a change of the credentials is cut       *)
(* short, unless since the last one that erased it they were changed past   *)
(* it: one by one with AT+ENV, with a storage that could not be erased,     *)
(* while the main task was registering, or with a variable that was not     *)
(* saved.                                                                   *)
RegistrationMatches ==
    (main = "wait" /\ at = "idle" /\ CredKeys \subseteq Present(env)
        /\ registration # None /\ ~bypassed)
        => registration = Credentials(env)

(* What was answered OK is back after the next boot, through power failures *)
(* and later commands cut short, but for two cases the code answers OK as   *)
(* well: the variable did not reach its file (unsaved: fopen or fwrite      *)
(* failed, the value was too long, or it was removed and its file stays);   *)
(* or the value has exactly the length MAX_ENV_VALUE_LENGTH, which is saved *)
(* (config.c:76) and not loaded (config.c:36).                              *)
AnsweredIsBack ==
    [][main = "load" /\ main' = "wait" =>
         \A k \in Keys \ unsaved :
             answered[k] \in Values => env'[k] = answered[k]]_<<main, env>>
=============================================================================
