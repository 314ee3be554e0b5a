--------------------------- MODULE EnvStoreProofs ---------------------------
(***************************************************************************)
(* Proofs about the settings store: for any variables and values, any      *)
(* number of AT commands and power failures, the files hold what the       *)
(* answers promised, and the SDK's registration is one for the settings.   *)
(***************************************************************************)
EXTENDS EnvStore, TLAPS

USE EnvAssumption DEF Keys, Absent, Empty, Open

-----------------------------------------------------------------------------
(* Where a command is: it sets the five credentials of save_linkkeyconfig,  *)
(* or saves variables that exist.  No command runs before the settings are  *)
(* loaded.                                                                  *)
CommandInv ==
    /\ main = "load" => at = "idle"
    /\ at = "set" => /\ todo \subseteq CredKeys
                     /\ change \in LinkKeys
    /\ at \in {"save"} \cup Keys => todo \subseteq Present(env)
    /\ at \in Keys => at \in todo /\ env[at] # TooLong

(* What a running command may write was allowed for when it began: the      *)
(* values it sets, the values the other variables have, and an empty file   *)
(* where there was none.                                                    *)
PromiseInv ==
    /\ FilesAsPromised
    /\ at # "idle" => \A k \in Keys :
         /\ file[k] = Absent => Empty \in promised[k]
         /\ IF at = "set" /\ k \in todo THEN change[k] \in promised[k]
                                        ELSE env[k] \in promised[k] \cup {Absent}

(* What was answered OK is on file, unless it is unsaved, and in memory     *)
(* once it is loaded; a command that saves leaves behind it only variables  *)
(* that are on file or unsaved.                                             *)
AnswerInv ==
    /\ \A k \in Keys \ unsaved : answered[k] \in Values => file[k] = answered[k]
    /\ main # "load" => \A k \in Keys : answered[k] \in Values => env[k] = answered[k]
    /\ at = "set" => \A k \in CredKeys : answered[k] = Open
    /\ at \in {"save"} \cup Keys =>
         \A k \in Present(env) \ todo : k \in unsaved \/ file[k] = env[k]

(* Unless credentials were changed past a registration:                     *)
(* - a registration is one for the credentials on file;                     *)
(* - so is what the SDK works with while it registers and logs in;          *)
(* - the credentials in memory are those on file, except while a command is *)
(*   changing them, and then there is no registration nor one under way.    *)
InMemoryAsFiled(k) == env[k] \in {Absent, file[k]}
Unregistered       == registration = None /\ main \notin {"register", "login"}
MatchInv ==
    /\ registration # None => registration = Credentials(file)
    /\ main \in {"register", "login"} =>
         /\ held = Credentials(file) /\ held = Credentials(env)
         /\ \A k \in CredKeys : file[k] # Absent
    /\ at = "set" => Unregistered
    /\ at \in {"save"} \cup Keys =>
         /\ Unregistered \/ \A k \in CredKeys : InMemoryAsFiled(k)
         /\ \A k \in CredKeys \ todo : InMemoryAsFiled(k)
    /\ main # "load" /\ at = "idle" => \A k \in CredKeys : InMemoryAsFiled(k)
RegistrationInv == ~bypassed => MatchInv

Inv == TypeOK /\ CommandInv /\ PromiseInv /\ AnswerInv /\ RegistrationInv

-----------------------------------------------------------------------------
(* What the main task does after it has loaded the settings.                *)
SdkTask ==
    \/ SdkInit \/ Register \/ RequestFails
    \/ \E erased \in BOOLEAN : SelfTest(erased)
    \/ \E newToken \in BOOLEAN : Login(newToken)

LEMMA Tasks == MainTask <=> Load \/ SdkTask
BY Zenon DEF MainTask, SdkTask

(* Each part of the invariant holds at first and is kept by every step.     *)
LEMMA InitInv == Init => Inv
<1> SUFFICES ASSUME Init PROVE Inv
  OBVIOUS
<1>1. StoreTypes /\ AtTypes /\ SdkTypes
  BY DEF Init, StoreTypes, AtTypes, SdkTypes
<1>2. bypassed \in BOOLEAN
  BY Zenon DEF Init
<1>3. CommandInv /\ PromiseInv /\ AnswerInv /\ RegistrationInv
  BY DEF Init, CommandInv, PromiseInv, AnswerInv, FilesAsPromised, RegistrationInv, MatchInv
<1> QED
  BY <1>1, <1>2, <1>3 DEF Inv, TypeOK

(* The settings, their files and the promises keep their types.             *)
LEMMA StoreTypesStep == Inv /\ Next => StoreTypes'
<1> SUFFICES ASSUME Inv, Next PROVE StoreTypes'
  OBVIOUS
<1> USE DEF Inv, TypeOK, StoreTypes
<1>1. CASE Load
  BY <1>1 DEF Load, Forget, Loadable, Missing, Contents
<1>2. ASSUME NEW k \in Keys, NEW v \in Values \cup {LongValue, Absent}, AtEnvSet(k, v)
      PROVE  StoreTypes'
  BY <1>2 DEF AtEnvSet, Begun, Reopened, Contents
<1>3. ASSUME NEW c \in LinkKeys, NEW erased \in BOOLEAN,
             AtLinkKeyConfig(c, erased)
      PROVE  StoreTypes'
  BY <1>3 DEF AtLinkKeyConfig, Begun, Reopened, Contents
<1>4. ASSUME NEW k \in Keys, SetCredential(k) PROVE StoreTypes'
  BY <1>4 DEF SetCredential, CommandInv, Contents, answers
<1>5. ASSUME NEW k \in Keys, SaveOpen(k) PROVE StoreTypes'
  BY <1>5 DEF SaveOpen, Contents, answers
<1>6. CASE SaveWrite
  BY <1>6 DEF SaveWrite
<1>7. CASE AnswerOk
  BY <1>7 DEF AnswerOk
<1>8. CASE Crash
  BY <1>8 DEF Crash, answers
<1>9. CASE SaveWriteFails \/ \E k \in Keys : SaveSkips(k)
  BY <1>9 DEF SaveWriteFails, SaveSkips, Unsaved, AtTypes
<1>10. CASE SdkTask
  BY <1>10 DEF SdkTask, SdkInit, SelfTest, Register, RequestFails, Login, answers
<1> QED
  BY <1>1, <1>2, <1>3, <1>4, <1>5, <1>6, <1>7, <1>8, <1>9, <1>10, Tasks DEF Next, AtTask, MainTask

(* So does what the AT service keeps,                                       *)
LEMMA AtTypesStep == Inv /\ Next => AtTypes'
<1> SUFFICES ASSUME Inv, Next PROVE AtTypes'
  OBVIOUS
<1> USE DEF Inv, TypeOK, AtTypes
<1>1. ASSUME NEW k \in Keys, NEW v \in Values \cup {LongValue, Absent}, AtEnvSet(k, v)
      PROVE  AtTypes'
  BY <1>1 DEF AtEnvSet, Command, Present
<1>2. ASSUME NEW c \in LinkKeys, NEW erased \in BOOLEAN,
             AtLinkKeyConfig(c, erased)
      PROVE  AtTypes'
  BY <1>2 DEF AtLinkKeyConfig, Command
<1>3. ASSUME NEW k \in Keys, SetCredential(k) PROVE AtTypes'
  BY <1>3 DEF SetCredential, Present
<1>4. ASSUME NEW k \in Keys, SaveOpen(k) \/ SaveSkips(k) PROVE AtTypes'
  BY <1>4 DEF SaveOpen, SaveSkips, Unsaved
<1>5. CASE SaveWrite \/ SaveWriteFails \/ AnswerOk \/ Crash
  BY <1>5 DEF SaveWrite, SaveWriteFails, Unsaved, AnswerOk, Crash
<1>6. CASE Load \/ SdkTask
  BY <1>6 DEF SdkTask, Load, SdkInit, SelfTest, Register, RequestFails, Login
<1> QED
  BY <1>1, <1>2, <1>3, <1>4, <1>5, <1>6, Tasks DEF Next, AtTask

(* and what the SDK keeps: it is given five credentials that exist.         *)
LEMMA SdkTypesStep == Inv /\ Next => SdkTypes'
<1> SUFFICES ASSUME Inv, Next PROVE SdkTypes'
  OBVIOUS
<1> USE DEF Inv, TypeOK, SdkTypes
<1>1. CASE SdkInit
  <2>1. Credentials(env) \in [CredKeys -> Contents]
    BY <1>1 DEF SdkInit, Present, Credentials, StoreTypes
  <2>2. held' \in [CredKeys -> Contents]
    BY <1>1, <2>1 DEF SdkInit, SdkData, Credentials
  <2> QED
    BY <1>1, <2>2 DEF SdkInit
<1>2. CASE Register \/ RequestFails \/ Load \/ \E erased \in BOOLEAN : SelfTest(erased)
  BY <1>2 DEF SelfTest, Register, RequestFails, Load
<1>3. ASSUME NEW newToken \in BOOLEAN, Login(newToken) PROVE SdkTypes'
  BY <1>3 DEF Login
<1>4. CASE Crash
  BY <1>4 DEF Crash
<1>5. CASE AtTask
  BY <1>5 DEF AtTask, AtEnvSet, AtLinkKeyConfig, SetCredential, SaveOpen, SaveSkips,
     SaveWrite, SaveWriteFails, Unsaved, AnswerOk
<1> QED
  BY <1>1, <1>2, <1>3, <1>4, <1>5 DEF Next, MainTask

(* The flag stays a truth value.                                            *)
LEMMA BypassedStep == Inv /\ Next => (bypassed \in BOOLEAN)'
<1> SUFFICES ASSUME Inv, Next PROVE bypassed' \in BOOLEAN
  OBVIOUS
<1>1. bypassed \in BOOLEAN
  BY DEF Inv, TypeOK
<1>2. bypassed' = bypassed \/ \E b, c \in BOOLEAN : bypassed' = (b \/ c)
  BY <1>1, Zenon DEF Next, AtTask, MainTask, AtEnvSet, AtLinkKeyConfig, SetCredential, SaveOpen,
     SaveSkips, SaveWrite, SaveWriteFails, Unsaved, AnswerOk, Load, SdkInit, SelfTest, Register,
     RequestFails, Login, Crash
<1> QED
  BY <1>1, <1>2, Zenon

(* Commands run one at a time, and save only variables that exist.          *)
LEMMA CommandStep == Inv /\ Next => CommandInv'
<1> SUFFICES ASSUME Inv, Next PROVE CommandInv'
  OBVIOUS
<1> USE DEF Inv, TypeOK, StoreTypes, AtTypes, CommandInv, Present
<1>1. ASSUME NEW k \in Keys, NEW v \in Values \cup {LongValue, Absent}, AtEnvSet(k, v)
      PROVE  CommandInv'
  BY <1>1 DEF AtEnvSet, Command
<1>2. ASSUME NEW c \in LinkKeys, NEW erased \in BOOLEAN,
             AtLinkKeyConfig(c, erased)
      PROVE  CommandInv'
  BY <1>2 DEF AtLinkKeyConfig, Command
<1>3. ASSUME NEW k \in Keys, SetCredential(k) PROVE CommandInv'
  BY <1>3 DEF SetCredential
<1>4. ASSUME NEW k \in Keys, SaveOpen(k) PROVE CommandInv'
  BY <1>4 DEF SaveOpen
<1>5. ASSUME NEW k \in Keys, SaveSkips(k) PROVE CommandInv'
  BY <1>5 DEF SaveSkips, Unsaved
<1>6. CASE SaveWrite \/ SaveWriteFails
  BY <1>6 DEF SaveWrite, SaveWriteFails, Unsaved
<1>7. CASE AnswerOk \/ Crash \/ Load
  BY <1>7 DEF AnswerOk, Crash, Load
<1>8. CASE SdkTask
  BY <1>8 DEF SdkTask, SdkInit, SelfTest, Register, RequestFails, Login
<1> QED
  BY <1>1, <1>2, <1>3, <1>4, <1>5, <1>6, <1>7, <1>8, Tasks DEF Next, AtTask

(* A command writes what was allowed for when it began.                     *)
LEMMA PromiseStep == Inv /\ Next => PromiseInv'
<1> SUFFICES ASSUME Inv, Next PROVE PromiseInv'
  OBVIOUS
<1> USE DEF Inv, TypeOK, StoreTypes, AtTypes, CommandInv, PromiseInv, FilesAsPromised
<1>1. ASSUME NEW k \in Keys, NEW v \in Values \cup {LongValue, Absent}, AtEnvSet(k, v)
      PROVE  PromiseInv'
  BY <1>1 DEF AtEnvSet, Command, Begun
<1>2. ASSUME NEW c \in LinkKeys, NEW erased \in BOOLEAN,
             AtLinkKeyConfig(c, erased)
      PROVE  PromiseInv'
  BY <1>2 DEF AtLinkKeyConfig, Command, Begun
<1>3. ASSUME NEW k \in Keys, SetCredential(k) PROVE PromiseInv'
  BY <1>3 DEF SetCredential, answers
<1>4. ASSUME NEW k \in Keys, SaveOpen(k) PROVE PromiseInv'
  BY <1>4 DEF SaveOpen, answers
<1>5. CASE SaveWriteFails \/ \E k \in Keys : SaveSkips(k)
  BY <1>5 DEF SaveWriteFails, SaveSkips, Unsaved
<1>6. CASE SaveWrite
  BY <1>6 DEF SaveWrite, Present
<1>7. CASE AnswerOk
  BY <1>7 DEF AnswerOk, AnswerInv, Present
<1>8. CASE Crash \/ Load
  BY <1>8 DEF Crash, Load, answers
<1>9. CASE SdkTask
  BY <1>9 DEF SdkTask, SdkInit, SelfTest, Register, RequestFails, Login, answers
<1> QED
  BY <1>1, <1>2, <1>3, <1>4, <1>5, <1>6, <1>7, <1>8, <1>9, Tasks DEF Next, AtTask

(* An answer stays true of the memory, and of the file unless it is unsaved *)
(* or the next command is about to change it.                               *)
LEMMA AnswerStep == Inv /\ Next => AnswerInv'
<1> SUFFICES ASSUME Inv, Next PROVE AnswerInv'
  OBVIOUS
<1> USE DEF Inv, TypeOK, StoreTypes, AtTypes, CommandInv, AnswerInv, Present
<1>1. ASSUME NEW k \in Keys, NEW v \in Values \cup {LongValue, Absent}, AtEnvSet(k, v)
      PROVE  AnswerInv'
  BY <1>1 DEF AtEnvSet, Command, Reopened
<1>2. ASSUME NEW c \in LinkKeys, NEW erased \in BOOLEAN,
             AtLinkKeyConfig(c, erased)
      PROVE  AnswerInv'
  BY <1>2 DEF AtLinkKeyConfig, Command, Reopened
<1>3. ASSUME NEW k \in Keys, SetCredential(k) PROVE AnswerInv'
  BY <1>3 DEF SetCredential, answers
<1>4. ASSUME NEW k \in Keys, SaveOpen(k) PROVE AnswerInv'
  BY <1>4 DEF SaveOpen, answers
<1>5. ASSUME NEW k \in Keys, SaveSkips(k) PROVE AnswerInv'
  BY <1>5 DEF SaveSkips, Unsaved
<1>6. CASE SaveWriteFails
  BY <1>6 DEF SaveWriteFails, Unsaved
<1>7. CASE SaveWrite
  BY <1>7 DEF SaveWrite
<1>8. CASE AnswerOk
  BY <1>8 DEF AnswerOk
<1>9. CASE Crash
  BY <1>9 DEF Crash, answers
<1>10. CASE Load
  BY <1>10 DEF Load, Forget, Loadable
<1>11. CASE SdkTask
  BY <1>11 DEF SdkTask, SdkInit, SelfTest, Register, RequestFails, Login, answers
<1> QED
  BY <1>1, <1>2, <1>3, <1>4, <1>5, <1>6, <1>7, <1>8, <1>9, <1>10, <1>11, Tasks
     DEF Next, AtTask

(* Credentials are changed on file with no registration about.              *)
LEMMA MatchStep == Inv /\ Next => RegistrationInv'
<1> SUFFICES ASSUME Inv, Next, ~bypassed' PROVE MatchInv'
  BY DEF RegistrationInv
<1>0. ASSUME NEW c \in LinkKeys, NEW erased \in BOOLEAN,
             AtLinkKeyConfig(c, erased)
      PROVE  MatchInv'
  <2>1. registration' = None /\ main' \notin {"register", "login"} /\ at' = "set"
    BY <1>0 DEF AtLinkKeyConfig
  <2> QED
    BY <2>1 DEF MatchInv, Unregistered
<1> SUFFICES ASSUME ~\E c \in LinkKeys, erased \in BOOLEAN : AtLinkKeyConfig(c, erased)
             PROVE  MatchInv'
  BY <1>0
<1>2. ~bypassed /\ MatchInv
  <2>1. bypassed => bypassed'
    BY DEF Next, AtTask, MainTask, AtEnvSet, SetCredential, SaveOpen, SaveSkips, SaveWrite,
       SaveWriteFails, Unsaved, AnswerOk, Load, SdkInit, SelfTest, Register, RequestFails, Login,
       Crash
  <2> QED
    BY <2>1 DEF Inv, RegistrationInv
<1> USE <1>2 DEF Inv, TypeOK, StoreTypes, AtTypes, CommandInv, MatchInv, InMemoryAsFiled, Unregistered
<1>1. ASSUME NEW k \in Keys, NEW v \in Values \cup {LongValue, Absent}, AtEnvSet(k, v)
      PROVE  MatchInv'
  <2>1. k \notin CredKeys /\ at = "idle" /\ main # "load"
    BY <1>1 DEF AtEnvSet, Command
  <2>2. /\ \A x \in CredKeys : env'[x] = env[x]
        /\ UNCHANGED <<file, registration, main, held>>
        /\ at' = "save"
    BY <1>1, <2>1 DEF AtEnvSet
  <2>3. Credentials(env') = Credentials(env)
    BY <2>2 DEF Credentials
  <2> QED
    BY <2>1, <2>2, <2>3 DEF Credentials
<1>3. ASSUME NEW k \in Keys, SetCredential(k) PROVE MatchInv'
  BY <1>3 DEF SetCredential, Present
<1>4. ASSUME NEW k \in Keys, SaveOpen(k) PROVE MatchInv'
  BY <1>4 DEF SaveOpen, Credentials, Present
<1>5. ASSUME NEW k \in Keys, SaveSkips(k) PROVE MatchInv'
  BY <1>5 DEF SaveSkips, Unsaved, Credentials
<1>6. CASE SaveWrite
  BY <1>6 DEF SaveWrite, Credentials, Present
<1>7. CASE AnswerOk
  BY <1>7 DEF AnswerOk
<1>8. CASE Crash
  BY <1>8 DEF Crash
<1>9. CASE Load
  BY <1>9 DEF Load, Missing
<1>10. CASE SdkInit
  <2>1. /\ main = "wait" /\ \A k \in CredKeys : env[k] # Absent
        /\ main' \in {"register", "login"}
        /\ held' = SdkData /\ UNCHANGED <<env, file, registration, at, todo>>
    BY <1>10 DEF SdkInit, Present
  <2>2. at = "idle"
    BY <1>10, Zenon DEF SdkInit
  <2>3. Credentials(env) = Credentials(file) /\ \A k \in CredKeys : file[k] # Absent
    BY <2>1, <2>2 DEF Credentials
  <2>4. SdkData = Credentials(env)
    BY <2>3 DEF SdkData, Credentials
  <2>5. (registration' # None => registration' = Credentials(file'))
        /\ held' = Credentials(file') /\ held' = Credentials(env')
    BY <2>1, <2>3, <2>4 DEF Credentials
  <2> QED
    BY <2>1, <2>2, <2>3, <2>5
<1>11. CASE Register \/ RequestFails \/ \E erased \in BOOLEAN : SelfTest(erased)
  BY <1>11 DEF SelfTest, Register, RequestFails
<1>12. ASSUME NEW newToken \in BOOLEAN, Login(newToken) PROVE MatchInv'
  BY <1>12 DEF Login
<1>13. CASE SaveWriteFails
  <2>1. at \in Keys /\ at' = "save" /\ todo' = todo \ {at}
        /\ UNCHANGED <<env, file, registration, main, held>>
    BY <1>13 DEF SaveWriteFails, Unsaved
  <2>2. at \notin CredKeys
    BY <1>13, Zenon DEF SaveWriteFails, Unsaved
  <2> QED
    BY <2>1, <2>2 DEF Credentials
<1> QED
  BY <1>1, <1>3, <1>4, <1>5, <1>6, <1>7, <1>8, <1>9, <1>10, <1>11, <1>12, <1>13
     DEF Next, AtTask, MainTask

(* The inductive invariant always holds.                                    *)
LEMMA Inductive == Spec => []Inv
<1>1. Inv /\ UNCHANGED vars => Inv'
  BY DEF vars, answers, Inv, TypeOK, StoreTypes, AtTypes, SdkTypes, CommandInv, PromiseInv, AnswerInv,
     FilesAsPromised, RegistrationInv, MatchInv, InMemoryAsFiled, Unregistered, Present, Credentials
<1>2. Inv /\ Next => Inv'
  BY StoreTypesStep, AtTypesStep, SdkTypesStep, BypassedStep, CommandStep, PromiseStep,
     AnswerStep, MatchStep
     DEF Inv, TypeOK
<1> QED
  BY <1>1, <1>2, InitInv, PTL DEF Spec

-----------------------------------------------------------------------------
(* Wherever power fails in at_env_set, save_linkkeyconfig or save_all_env,  *)
(* a setting is on file with the value answered OK last, with that of a     *)
(* command that was cut short, or, if the OK was given without writing the  *)
(* file, with the value it had there before.                                *)
THEOREM FilesKeepPromises == Spec => []EnvInv
<1>1. Inv => EnvInv
  BY DEF Inv, EnvInv, PromiseInv
<1> QED
  BY <1>1, Inductive, PTL

(* qwen_sdk_init_routine never meets a stored registration made for other   *)
(* credentials than the settings hold, unless since the last erasing        *)
(* AT+LINKKEYCONFIG they were changed past it: with AT+ENV, with a storage  *)
(* that could not be erased, while main was registering, or with a variable *)
(* that was not saved.                                                      *)
THEOREM RegistrationIsForSettings == Spec => []RegistrationMatches
<1>1. Inv => RegistrationMatches
  BY DEF Inv, TypeOK, StoreTypes, RegistrationMatches, RegistrationInv, MatchInv, InMemoryAsFiled,
     Present, Credentials
<1> QED
  BY <1>1, Inductive, PTL

(* load_all_env brings back what was answered OK, and ntp_init does not     *)
(* overwrite it, unless the variable did not reach its file (fopen or       *)
(* fwrite failed, it was too long, or it was removed) or has exactly        *)
(* MAX_ENV_VALUE_LENGTH bytes.                                              *)
THEOREM AnsweredComesBack == Spec => AnsweredIsBack
<1> DEFINE Back == main = "load" /\ main' = "wait" =>
                     \A k \in Keys \ unsaved :
                         answered[k] \in Values => env'[k] = answered[k]
<1>1. Inv /\ Next => Back
  <2> SUFFICES ASSUME Inv, Next, main = "load", main' = "wait",
                      NEW k \in Keys \ unsaved, answered[k] \in Values
               PROVE  env'[k] = answered[k]
    OBVIOUS
  <2>1. Load
    BY DEF Next, AtTask, MainTask, AtEnvSet, AtLinkKeyConfig, Command, SetCredential, SaveOpen,
       SaveSkips, SaveWrite, SaveWriteFails, Unsaved, AnswerOk, Load, SdkInit, SelfTest, Register,
       RequestFails, Login, Crash
  <2>2. file[k] = answered[k]
    BY DEF Inv, AnswerInv
  <2> QED
    BY <2>1, <2>2 DEF Load, Loadable
<1>2. Inv /\ [Next]_vars => [Back]_<<main, env>>
  BY <1>1 DEF vars
<1> QED
  BY <1>2, Inductive, PTL DEF Spec, AnsweredIsBack
=============================================================================
