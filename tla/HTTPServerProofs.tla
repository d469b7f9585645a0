-------------------------- MODULE HTTPServerProofs --------------------------
(***************************************************************************)
(* Proofs about HTTPServer, for any requests, names, ports and             *)
(* configurations and any number of starts: the types, what a restarted    *)
(* process finds in app.json, and what a stored upload leaves in its file. *)
(***************************************************************************)
EXTENDS HTTPServer, SequenceTheorems, TLAPS

USE DEF machineVars, historyVars

-----------------------------------------------------------------------------
(* What app.json tells a process that reads it now: the defaults when      *)
(* there is none, nothing when it is torn, for main() then ends.           *)
Tells(c) ==
    \/ appJson = Torn
    \/ appJson = Absent /\ c = Defaults
    \/ appJson \in ConfigFile /\ c = Complete(Unmarshal(appJson))

(* While every read has succeeded, the configuration of the process, and   *)
(* the one of the last process that came past its probe, are what app.json *)
(* tells; while the defaults are being written out both are the defaults.  *)
ReadInv ==
    ~unread =>
        /\ proc \in {"probe", "start", "serving"} => Tells(cfg)
        /\ previous # None => Tells(previous)
        /\ proc \in {"create", "write"} => previous \in {None, Defaults}
        /\ proc = "create" => appJson = Absent
        /\ RestartKeepsSettings

(* What a process gets that reads app.json now, or fails to.               *)
Gets(c) == c = Defaults \/ (appJson \in ConfigFile /\ c = Complete(Unmarshal(appJson)))

(* The configurations are among these whether a read has failed or not,    *)
(* except that the last process may have run with one that app.json has    *)
(* lost: then no later process gets anything but the defaults.             *)
UnreadInv ==
    /\ proc \in {"probe", "start", "serving"} => Gets(cfg)
    /\ previous # None => Gets(previous) \/ \A c : Gets(c) => c = Defaults
    /\ proc \in {"create", "write"} => cfg = Defaults
    /\ proc = "write" => appJson = Torn
    /\ appJson = Absent => previous \in {None, Defaults}

SettingsInv == ReadInv /\ UnreadInv

(* The chunks that r has written, in their places.                         *)
Chunks(r) == [i \in 1..req[r].sent |-> <<r, i>>]

(* An upload that nobody has disturbed has written its file from the       *)
(* beginning to where it is; one that is reported does not go on.          *)
Uploading(r) ==
    /\ req[r].pc \in {"new", "handler", "create"} => req[r].sent = 0
    /\ req[r].sent <= Size[r]
    /\ req[r].answer = "stored" => req[r].pc = "done"
    /\ alone[r] /\ (req[r].pc = "copy" \/ req[r].answer = "stored") =>
          files[Name[r]] = Chunks(r)

(* Whoever wrote it, a chunk stands at its place, or a hole does.          *)
Placed(n, i, chunk) ==
    \/ chunk = None
    \/ \E r \in Requests : Name[r] = n /\ i <= Size[r] /\ chunk = <<r, i>>

InPlace(n) == \A i \in 1..Len(files[n]) : Placed(n, i, files[n][i])

UploadInv == \A r \in Requests : Uploading(r)
PlaceInv == \A n \in Names : InPlace(n)

IInv == TypeOK /\ SettingsInv /\ UploadInv /\ PlaceInv

-----------------------------------------------------------------------------
(* The operators on configurations.                                        *)

LEMMA DefaultsComplete ==
    /\ Defaults \in Config /\ Complete(Defaults) = Defaults
    /\ Marshal(Defaults) \in ConfigFile
    /\ Complete(Unmarshal(Marshal(Defaults))) = Defaults
<1> USE ServerAssumption
<1>1. Defaults \in Config /\ Marshal(Defaults) \in ConfigFile
  BY DEF Defaults, Config, Marshal, ConfigFile
<1>2. Complete(Defaults) = Defaults
  BY DEF Defaults, Complete
<1>3. Unmarshal(Marshal(Defaults)) = Defaults
  <2>1. Marshal(Defaults) = Defaults
    BY DEF Defaults, Marshal
  <2>2. Unmarshal(Defaults) = [port |-> Defaults.port, cors |-> Defaults.cors = TRUE,
            maxUpload |-> IF Defaults.maxUpload = None THEN DefaultMax
                          ELSE Defaults.maxUpload]
    BY Zenon DEF Unmarshal
  <2>3. Defaults.port = DefaultPort /\ Defaults.cors = TRUE
    BY DEF Defaults
  <2>4. (IF Defaults.maxUpload = None THEN DefaultMax ELSE Defaults.maxUpload) = DefaultMax
    BY DEF Defaults
  <2>5. (Defaults.cors = TRUE) = TRUE
    BY <2>3, Zenon
  <2> QED
    BY <2>1, <2>2, <2>3, <2>4, <2>5 DEF Defaults
<1> QED
  BY <1>1, <1>2, <1>3

(* What a user wrote is made a complete configuration.                     *)
LEMMA CompleteType ==
    ASSUME NEW f \in ConfigFile
    PROVE  Complete(Unmarshal(f)) \in Config
<1> USE ServerAssumption
<1> DEFINE p == IF f.port = None THEN DefaultPort ELSE f.port
           n == IF f.maxUpload = None THEN DefaultMax ELSE f.maxUpload
           x == IF n <= 0 THEN DefaultMax ELSE n
           b == f.cors = TRUE
<1>1. Complete(Unmarshal(f)) = [port |-> p, maxUpload |-> x, cors |-> b]
  <2>1. Unmarshal(f) = [port |-> f.port, cors |-> b, maxUpload |-> n]
    BY Zenon DEF Unmarshal
  <2> HIDE DEF b, n
  <2> QED
    BY <2>1 DEF Complete
<1>2. p \in Ports
  BY DEF ConfigFile
<1>3. n \in Int
  BY DEF ConfigFile
<1>4. x \in Nat \ {0}
  BY <1>3
<1>5. b \in BOOLEAN
  BY Zenon
<1> QED
  BY <1>1, <1>2, <1>4, <1>5 DEF Config

-----------------------------------------------------------------------------
(* The types, in three parts: the process with what is on the machine, the *)
(* files, the requests.                                                    *)

RequestStates ==
    [pc : {"new", "handler", "create", "copy", "done"},
     kind : AllKinds \cup {None}, sent : Nat,
     answer : {None, "cut", "stored", "ok", "error"}]

ProcessTypes ==
    /\ proc \in {"down", "load", "create", "write", "probe", "start", "serving"}
    /\ env \in EnvPorts \cup {None} /\ tries \in 0..2
    /\ cfg \in Config \cup {None} /\ (proc \notin {"down", "load"} => cfg # None)
    /\ stopping \in BOOLEAN
    /\ starts \in 0..Starts
    /\ appJson \in ConfigFile \cup {Absent, Torn}
    /\ taken \subseteq Ports
    /\ previous \in Config \cup {None} /\ unread \in BOOLEAN

FileTypes ==
    /\ files \in [Names -> Seq((Requests \X Nat) \cup {None})]
    /\ alone \in [Requests -> BOOLEAN]

RequestTypes == req \in [Requests -> RequestStates]

LEMMA Types ==
    TypeOK <=> ProcessTypes /\ FileTypes /\ RequestTypes
  BY Zenon DEF TypeOK, ProcessTypes, FileTypes, RequestTypes, RequestStates

(* A complete configuration is no None.                                    *)
LEMMA ConfigSome ==
    None \notin Config /\ Defaults # None /\ \A f \in ConfigFile : Complete(Unmarshal(f)) # None
<1>1. None \notin Config
  <2> SUFFICES ASSUME None \in Config PROVE FALSE
    OBVIOUS
  <2>1. None \in ConfigFile
    BY DEF Config, ConfigFile
  <2> QED
    BY <2>1, ServerAssumption
<1> QED
  BY <1>1, DefaultsComplete, CompleteType

LEMMA InitTypes == Init => TypeOK
<1> SUFFICES ASSUME Init PROVE ProcessTypes /\ FileTypes /\ RequestTypes
  BY Types
<1> USE ServerAssumption
<1>1. ProcessTypes
  <2>1. stopping \in BOOLEAN /\ unread \in BOOLEAN
    BY Zenon DEF Init
  <2>2. env \in EnvPorts \cup {None} /\ tries \in 0..2 /\ starts \in 0..Starts
    BY DEF Init
  <2>3. appJson \in ConfigFile \cup {Absent, Torn} /\ taken \subseteq Ports
    BY DEF Init
  <2>4. cfg \in Config \cup {None} /\ previous \in Config \cup {None} /\ proc = "down"
    BY DEF Init
  <2> QED
    BY <2>1, <2>2, <2>3, <2>4, Zenon DEF ProcessTypes
<1>2. FileTypes
  BY DEF Init, FileTypes
<1>3. RequestTypes
  BY DEF Init, RequestTypes, RequestStates
<1> QED
  BY <1>1, <1>2, <1>3

(* A request that is cut off is answered with nothing.                     *)
LEMMA DiesTypes ==
    ASSUME TypeOK, Dies, UNCHANGED <<previous, unread>> PROVE TypeOK'
<1>1. ProcessTypes /\ FileTypes /\ RequestTypes
  BY Types
<1>2. ProcessTypes'
  <2>1. stopping' \in BOOLEAN
    BY Zenon DEF Dies
  <2>2. /\ env' \in EnvPorts \cup {None} /\ proc' = "down" /\ cfg' \in Config \cup {None}
        /\ UNCHANGED <<starts, appJson, taken, previous, unread>>
    BY Zenon DEF Dies
  <2>3. tries' = 0
    BY Zenon DEF Dies
  <2>4. tries' \in 0..2
    BY ONLY <2>3
  <2> QED
    BY <1>1, <2>1, <2>2, <2>4, Zenon DEF ProcessTypes
<1>3. FileTypes'
  BY <1>1 DEF FileTypes, Dies
<1>4. RequestTypes'
  BY <1>1 DEF RequestTypes, RequestStates, Dies
<1> QED
  BY <1>2, <1>3, <1>4, Types, PTL

(* A step of main(), of a signal, of another program or of a user leaves   *)
(* the requests and the files alone, unless the process ends by it.        *)
LEMMA ProcessStepTypes ==
    ASSUME TypeOK, SettingsInv,
           \/ Start \/ Boot \/ Signal \/ Shutdown \/ Crash
           \/ \E p \in Ports : OthersListen(p)
           \/ \E c \in UserConfigs \cup {Absent} : EditConfig(c)
    PROVE  TypeOK'
<1>0. ProcessTypes /\ FileTypes /\ RequestTypes
  BY Types
<1> DEFINE Same == UNCHANGED <<files, alone, req>>
<1>s. ASSUME ProcessTypes', Same PROVE TypeOK'
  <2>1. FileTypes' /\ RequestTypes'
    BY <1>0, <1>s DEF FileTypes, RequestTypes
  <2> QED
    BY <1>s, <2>1, Types, PTL
<1>d. ASSUME Dies, UNCHANGED <<previous, unread>> PROVE TypeOK'
  BY <1>d, DiesTypes
<1>1. CASE Start
  <2>1. stopping' \in BOOLEAN
    BY <1>1, Zenon DEF Start
  <2>2. env' \in EnvPorts \cup {None} /\ cfg' \in Config \cup {None} /\ proc' = "load"
    BY <1>1 DEF Start
  <2>3. tries' \in 0..2 /\ starts' \in 0..Starts
    BY <1>0, <1>1, ServerAssumption DEF Start, ProcessTypes
  <2>4. UNCHANGED <<appJson, taken, previous, unread>> /\ Same
    BY <1>1 DEF Start
  <2>5. ProcessTypes'
    BY <1>0, <2>1, <2>2, <2>3, <2>4, Zenon DEF ProcessTypes
  <2> QED
    BY <2>4, <2>5, <1>s
<1>2. CASE LoadFile
  <2>1. appJson \in ConfigFile
    BY <1>0, <1>2 DEF LoadFile, ProcessTypes
  <2> QED
    BY <1>0, <1>2, <1>s, <2>1, CompleteType, ConfigSome DEF LoadFile, Loaded, ProcessTypes
<1>3. CASE LoadDefaults
  BY <1>0, <1>3, <1>s, DefaultsComplete, ConfigSome DEF LoadDefaults, Loaded, ProcessTypes
<1>4. CASE SaveCreate \/ SaveFails \/ SaveWrite
  BY <1>0, <1>4, <1>s, DefaultsComplete
     DEF SaveCreate, SaveFails, SaveWrite, SaveStep, ProcessTypes
<1>5. CASE ProbeFree \/ ProbeBusy
  BY <1>0, <1>5, <1>s DEF ProbeFree, ProbeBusy, ProcessTypes
<1>6. CASE Listen
  BY <1>0, <1>6, <1>s, <1>d DEF Listen, ProcessTypes
<1>7. CASE Signal
  BY <1>0, <1>7, <1>s, <1>d DEF Signal, ProcessTypes
<1>8. CASE LoadFatal \/ ProbeGivesUp \/ Shutdown \/ Crash
  BY <1>8, <1>d DEF LoadFatal, ProbeGivesUp, Shutdown, Crash
<1>9. ASSUME NEW p \in Ports, OthersListen(p) PROVE TypeOK'
  BY <1>0, <1>9, <1>s DEF OthersListen, ProcessTypes
<1>10. ASSUME NEW c \in UserConfigs \cup {Absent}, EditConfig(c) PROVE TypeOK'
  BY <1>0, <1>10, <1>s, ServerAssumption DEF EditConfig, ProcessTypes
<1> QED
  BY <1>1, <1>2, <1>3, <1>4, <1>5, <1>6, <1>7, <1>8, <1>9, <1>10 DEF Boot

(* Where a request may be next has the type of requests.                   *)
LEMMA GotoTypes ==
    ASSUME TypeOK, NEW r \in Requests, NEW next \in RequestStates, Goto(r, next),
           FileTypes'
    PROVE  TypeOK'
<1>1. ProcessTypes /\ RequestTypes
  BY Types
<1>2. ProcessTypes'
  BY <1>1 DEF ProcessTypes, Goto
<1>3. RequestTypes'
  BY <1>1 DEF RequestTypes, Goto
<1> QED
  BY <1>2, <1>3, Types, PTL

LEMMA AnsweredType ==
    ASSUME TypeOK, NEW r \in Requests,
           NEW answer \in {"stored", "ok", "error"}
    PROVE  Answered(r, answer) \in RequestStates
<1>1. req[r] \in RequestStates
  BY Types DEF RequestTypes
<1> QED
  BY <1>1 DEF Answered, RequestStates

(* A write is a sequence again.                                            *)
LEMMA WriteAtType ==
    ASSUME NEW S, NEW s \in Seq(S \cup {None}), NEW i \in Nat, NEW chunk \in S
    PROVE  WriteAt(s, i, chunk) \in Seq(S \cup {None})
<1> DEFINE n == IF i > Len(s) THEN i ELSE Len(s)
<1>1. n \in Nat
  BY LenProperties
<1>2. \A k \in 1..n : (IF k = i THEN chunk ELSE IF k <= Len(s) THEN s[k] ELSE None)
                         \in S \cup {None}
  <2> SUFFICES ASSUME NEW k \in 1..n
               PROVE  (IF k = i THEN chunk ELSE IF k <= Len(s) THEN s[k] ELSE None)
                         \in S \cup {None}
    OBVIOUS
  <2>1. CASE k <= Len(s)
    <3>1. k \in 1..Len(s)
      BY <1>1, <2>1
    <3> QED
      BY <3>1, ElementOfSeq
  <2>2. CASE ~(k <= Len(s))
    BY <2>2
  <2> QED
    BY <2>1, <2>2
<1>3. WriteAt(s, i, chunk) = [k \in 1..n |->
           IF k = i THEN chunk ELSE IF k <= Len(s) THEN s[k] ELSE None]
  BY DEF WriteAt
<1> HIDE DEF n
<1> QED
  BY <1>1, <1>2, <1>3, SeqDef

LEMMA DisturbsType ==
    ASSUME TypeOK, NEW r \in Requests, Disturbs(r)
    PROVE  alone' \in [Requests -> BOOLEAN]
<1>1. alone \in [Requests -> BOOLEAN]
  BY Zenon DEF TypeOK
<1> QED
  BY <1>1 DEF Disturbs

LEMMA RequestStepTypes ==
    ASSUME TypeOK, NEW r \in Requests,
           Serve(r) \/ \E kind \in Kinds : Accept(r, kind)
    PROVE  TypeOK'
<1>0. FileTypes /\ req[r] \in RequestStates
  BY Types DEF RequestTypes
<1>s. ASSUME UNCHANGED <<files, alone>> PROVE FileTypes'
  BY <1>0, <1>s DEF FileTypes
<1>1. ASSUME NEW kind \in Kinds, Accept(r, kind) PROVE TypeOK'
  <2>1. [req[r] EXCEPT !.pc = "handler", !.kind = kind] \in RequestStates
    BY <1>0, ServerAssumption DEF RequestStates
  <2> QED
    BY <1>1, <1>s, <2>1, GotoTypes DEF Accept
<1>2. CASE Handle(r)
  <2>1. PICK answer \in {"ok", "error"} : Goto(r, Answered(r, answer))
    BY <1>2 DEF Handle
  <2>2. Answered(r, answer) \in RequestStates
    BY AnsweredType
  <2> QED
    BY <1>2, <1>s, <2>1, <2>2, GotoTypes DEF Handle
<1>3. CASE UploadParse(r)
  <2>1. [req[r] EXCEPT !.pc = "create"] \in RequestStates
    BY <1>0 DEF RequestStates
  <2>2. PICK next \in RequestStates : Goto(r, next)
    BY <1>3, <2>1, AnsweredType DEF UploadParse
  <2> QED
    BY <1>3, <1>s, <2>2, GotoTypes DEF UploadParse
<1>4. CASE UploadCreate(r)
  <2>1. CASE Goto(r, Answered(r, "error")) /\ UNCHANGED <<files, alone>>
    BY <1>s, <2>1, AnsweredType, GotoTypes
  <2>2. CASE /\ Goto(r, [req[r] EXCEPT !.pc = "copy"])
             /\ files' = [files EXCEPT ![Name[r]] = Create(@)]
             /\ Disturbs(r)
    <3>1. [req[r] EXCEPT !.pc = "copy"] \in RequestStates
      BY <1>0 DEF RequestStates
    <3>2. files' \in [Names -> Seq((Requests \X Nat) \cup {None})]
      BY <1>0, <2>2, ServerAssumption DEF FileTypes, Create
    <3>3. FileTypes'
      BY <2>2, <3>2, DisturbsType DEF FileTypes
    <3> QED
      BY <2>2, <3>1, <3>3, GotoTypes
  <2> QED
    BY <1>4, <2>1, <2>2 DEF UploadCreate
<1>5. CASE UploadCopy(r)
  <2> DEFINE i == req[r].sent + 1
  <2>1. i \in Nat
    BY <1>0 DEF RequestStates
  <2>2. [req[r] EXCEPT !.sent = i] \in RequestStates
    BY <1>0, <2>1 DEF RequestStates
  <2>3. Name[r] \in Names /\ files[Name[r]] \in Seq((Requests \X Nat) \cup {None})
    BY <1>0, ServerAssumption DEF FileTypes
  <2>4. WriteAt(files[Name[r]], i, <<r, i>>) \in Seq((Requests \X Nat) \cup {None})
    <3>1. <<r, i>> \in Requests \X Nat
      BY <2>1
    <3> HIDE DEF i
    <3> QED
      BY <2>1, <2>3, <3>1, WriteAtType
  <2>5. /\ files' = [files EXCEPT ![Name[r]] = WriteAt(files[Name[r]], i, <<r, i>>)]
        /\ Goto(r, [req[r] EXCEPT !.sent = i]) /\ Disturbs(r)
    BY <1>5 DEF UploadCopy
  <2>6. FileTypes'
    BY <1>0, <2>3, <2>4, <2>5, DisturbsType DEF FileTypes
  <2> QED
    BY <2>2, <2>5, <2>6, GotoTypes
<1>6. CASE UploadRespond(r)
  BY <1>6, <1>s, AnsweredType, GotoTypes DEF UploadRespond
<1> QED
  BY <1>1, <1>2, <1>3, <1>4, <1>5, <1>6 DEF Serve, UploadHandler

-----------------------------------------------------------------------------
(* The settings.                                                           *)

LEMMA InitSettings == Init => SettingsInv
  BY DEF Init, SettingsInv, ReadInv, UnreadInv, RestartKeepsSettings

(* Of all steps only those of main() up to its probe, and of a user, have  *)
(* anything to do with app.json or AppCfg.                                 *)
LEMMA SettingsStay ==
    ASSUME SettingsInv, UNCHANGED <<appJson, previous, unread>>,
           \/ proc' \in {"down", "load"}
           \/ UNCHANGED <<proc, cfg>>
           \/ proc \in {"probe", "start", "serving"} /\ proc' \in {"probe", "start", "serving"}
              /\ UNCHANGED cfg
    PROVE  SettingsInv'
<1>1. ReadInv'
  BY DEF SettingsInv, ReadInv, RestartKeepsSettings, Tells
<1>2. UnreadInv'
  BY DEF SettingsInv, UnreadInv, Gets
<1> QED
  BY <1>1, <1>2 DEF SettingsInv

(* When the configurations differ, one of them is the defaults.            *)
LEMMA DefaultsBetween ==
    ASSUME UnreadInv, proc \in {"probe", "start", "serving"}, previous # None, cfg # previous
    PROVE  Defaults \in {cfg, previous}
  BY DEF UnreadInv, Gets

(* A step after a read that failed keeps RestartKeepsSettings as well.     *)
LEMMA UnreadKeeps ==
    ASSUME UnreadInv, unread
    PROVE  RestartKeepsSettings
  BY DefaultsBetween DEF RestartKeepsSettings

(* The steps by which main() gets its configuration.                       *)
LEMMA LoadSettings ==
    ASSUME TypeOK, SettingsInv, LoadFile \/ LoadDefaults
    PROVE  SettingsInv'
<1>0. appJson \in ConfigFile \cup {Absent, Torn} /\ unread \in BOOLEAN
  BY Zenon DEF TypeOK
<1>1. CASE LoadFile
  <2>1. appJson \in ConfigFile /\ appJson # Absent /\ appJson # Torn
    BY <1>0, <1>1 DEF LoadFile
  <2>2. /\ cfg' = Complete(Unmarshal(appJson)) /\ proc' = "probe"
        /\ UNCHANGED <<appJson, previous, unread>>
    BY <1>1 DEF LoadFile, Loaded
  <2>3. ReadInv'
    BY <2>1, <2>2 DEF SettingsInv, ReadInv, RestartKeepsSettings, Tells
  <2>4. UnreadInv'
    BY <2>1, <2>2 DEF SettingsInv, UnreadInv, Gets
  <2> QED
    BY <2>3, <2>4 DEF SettingsInv
<1>2. CASE LoadDefaults
  <2>1. cfg' = Defaults /\ proc' = "create" /\ UNCHANGED <<appJson, previous>>
    BY <1>2, DefaultsComplete DEF LoadDefaults, Loaded
  <2>2. unread' = (unread \/ appJson # Absent)
    BY <1>2, Zenon DEF LoadDefaults
  <2>3. UnreadInv'
    BY <2>1 DEF SettingsInv, UnreadInv, Gets
  <2>4. ASSUME ~unread' PROVE ReadInv'
    <3>1. ~unread /\ appJson = Absent
      BY <2>2, <2>4
    <3>2. Absent # Torn /\ Absent \notin ConfigFile
      BY ServerAssumption
    <3> QED
      BY <2>1, <3>1, <3>2 DEF SettingsInv, ReadInv, RestartKeepsSettings, Tells
  <2>5. ReadInv'
    BY <2>4, Zenon DEF ReadInv
  <2> QED
    BY <2>3, <2>5 DEF SettingsInv
<1> QED
  BY <1>1, <1>2

(* The defaults are written out, or cannot be.                             *)
LEMMA SaveSettings ==
    ASSUME TypeOK, SettingsInv, SaveCreate \/ SaveFails \/ SaveWrite
    PROVE  SettingsInv'
<1>0. Absent # Torn /\ Absent \notin ConfigFile /\ Torn \notin ConfigFile
  BY ServerAssumption
<1>1. cfg = Defaults /\ UNCHANGED <<cfg, previous, unread>>
  BY DEF SettingsInv, UnreadInv, SaveCreate, SaveFails, SaveWrite, SaveStep
<1>2. CASE SaveCreate
  <2>1. proc = "create" /\ proc' = "write" /\ appJson' = Torn
    BY <1>2 DEF SaveCreate, SaveStep
  <2>2. UnreadInv'
    BY <1>0, <1>1, <2>1 DEF UnreadInv, Gets
  <2>3. ReadInv'
    BY <1>1, <2>1 DEF SettingsInv, ReadInv, RestartKeepsSettings, Tells
  <2> QED
    BY <2>2, <2>3 DEF SettingsInv
<1>3. CASE SaveFails
  <2>1. proc = "create" /\ proc' = "probe" /\ appJson' = appJson
    BY <1>3 DEF SaveFails, SaveStep
  <2>2. UnreadInv'
    BY <1>1, <2>1 DEF SettingsInv, UnreadInv, Gets
  <2>3. ReadInv'
    BY <1>1, <2>1 DEF SettingsInv, ReadInv, RestartKeepsSettings, Tells
  <2> QED
    BY <2>2, <2>3 DEF SettingsInv
<1>4. CASE SaveWrite
  <2>1. proc = "write" /\ proc' = "probe" /\ appJson' \in {Marshal(Defaults), Torn}
    BY <1>4 DEF SaveWrite, SaveStep
  <2>2. UnreadInv'
    BY <1>0, <1>1, <2>1, DefaultsComplete DEF UnreadInv, Gets
  <2>3. ReadInv'
    BY <1>1, <2>1, DefaultsComplete DEF SettingsInv, ReadInv, RestartKeepsSettings, Tells
  <2> QED
    BY <2>2, <2>3 DEF SettingsInv
<1> QED
  BY <1>2, <1>3, <1>4

LEMMA SettingsStep ==
    ASSUME TypeOK, SettingsInv, [Next]_vars
    PROVE  SettingsInv'
<1>d. ASSUME Dies, UNCHANGED <<previous, unread>> PROVE SettingsInv'
  <2>1. proc' = "down" /\ UNCHANGED <<appJson, previous, unread>>
    BY <1>d, Zenon DEF Dies
  <2> QED
    BY ONLY <2>1, SettingsInv, SettingsStay
<1>1. CASE Start
  BY <1>1, SettingsStay DEF Start
<1>2. CASE LoadFile \/ LoadDefaults
  BY <1>2, LoadSettings
<1>3. CASE SaveCreate \/ SaveFails \/ SaveWrite
  BY <1>3, SaveSettings
<1>4. CASE ProbeFree
  <2>1. /\ proc = "probe" /\ proc' = "start" /\ previous' = cfg
        /\ UNCHANGED <<cfg, appJson, unread>>
    BY <1>4 DEF ProbeFree
  <2>2. cfg # None
    BY <2>1, Zenon DEF TypeOK
  <2>3. UnreadInv'
    <3>1. Absent \notin ConfigFile
      BY ServerAssumption
    <3> QED
      BY <2>1, <2>2, <3>1 DEF SettingsInv, UnreadInv, Gets
  <2>4. ReadInv'
    BY <2>1, <2>2 DEF SettingsInv, ReadInv, RestartKeepsSettings, Tells
  <2> QED
    BY <2>3, <2>4 DEF SettingsInv
<1>5. CASE ProbeBusy
  BY <1>5, SettingsStay DEF ProbeBusy
<1>6. CASE Listen
  BY <1>6, <1>d, SettingsStay DEF Listen
<1>7. CASE Signal
  BY <1>7, <1>d, SettingsStay DEF Signal
<1>8. CASE LoadFatal \/ ProbeGivesUp \/ Shutdown \/ Crash
  BY <1>8, <1>d DEF LoadFatal, ProbeGivesUp, Shutdown, Crash
<1>9. ASSUME NEW r \in Requests, Serve(r) \/ \E kind \in Kinds : Accept(r, kind)
      PROVE  SettingsInv'
  <2>1. \E next : Goto(r, next)
    BY <1>9, Zenon DEF Serve, UploadHandler, Handle, UploadParse, UploadCreate, UploadCopy,
              UploadRespond, Accept
  <2> QED
    BY <2>1, SettingsStay DEF Goto
<1>10. ASSUME NEW p \in Ports, OthersListen(p) PROVE SettingsInv'
  BY <1>10, SettingsStay DEF OthersListen
<1>11. ASSUME NEW c \in UserConfigs \cup {Absent}, EditConfig(c) PROVE SettingsInv'
  BY <1>11 DEF EditConfig, SettingsInv, ReadInv, UnreadInv, RestartKeepsSettings, Tells
<1>12. CASE UNCHANGED vars
  BY <1>12, SettingsStay DEF vars
<1> QED
  BY <1>1, <1>2, <1>3, <1>4, <1>5, <1>6, <1>7, <1>8, <1>9, <1>10, <1>11, <1>12 DEF Next, Boot

-----------------------------------------------------------------------------
(* The uploads.                                                            *)

LEMMA InitUpload == Init => UploadInv
  BY ServerAssumption DEF Init, UploadInv, Uploading

LEMMA InitPlace == Init => PlaceInv
  BY DEF Init, PlaceInv, InPlace

(* A request and its file stay as they are.                                *)
LEMMA UploadStays ==
    ASSUME NEW s \in Requests, Uploading(s), req'[s] = req[s],
           alone'[s] => alone[s] /\ files'[Name[s]] = files[Name[s]]
    PROVE  Uploading(s)'
  BY DEF Uploading, Chunks

(* The chunk after the last one makes the file one longer.                 *)
LEMMA WriteNext ==
    ASSUME NEW r, NEW n \in Nat
    PROVE  WriteAt([i \in 1..n |-> <<r, i>>], n + 1, <<r, n + 1>>)
             = [i \in 1..(n + 1) |-> <<r, i>>]
<1> DEFINE s == [i \in 1..n |-> <<r, i>>]
<1>1. Len(s) = n /\ \A i \in 1..n : s[i] = <<r, i>>
  OBVIOUS
<1> HIDE DEF s
<1>2. (IF n + 1 > Len(s) THEN n + 1 ELSE Len(s)) = n + 1
  BY <1>1
<1>3. WriteAt(s, n + 1, <<r, n + 1>>) = [k \in 1..(n + 1) |->
          IF k = n + 1 THEN <<r, n + 1>> ELSE IF k <= Len(s) THEN s[k] ELSE None]
  BY <1>2 DEF WriteAt
<1>4. \A k \in 1..(n + 1) :
          (IF k = n + 1 THEN <<r, n + 1>> ELSE IF k <= Len(s) THEN s[k] ELSE None) = <<r, k>>
  BY <1>1
<1>5. WriteAt(s, n + 1, <<r, n + 1>>) = [i \in 1..(n + 1) |-> <<r, i>>]
  BY <1>3, <1>4
<1> QED
  BY <1>5 DEF s

LEMMA UploadStep ==
    ASSUME TypeOK, UploadInv, [Next]_vars
    PROVE  UploadInv'
<1>0. \A s \in Requests : Uploading(s) /\ req[s] \in RequestStates
  BY Types DEF RequestTypes, UploadInv
<1>q. ASSUME \A s \in Requests : Uploading(s)' PROVE UploadInv'
  BY <1>q DEF UploadInv
<1>f. req \in [Requests -> RequestStates] /\ alone \in [Requests -> BOOLEAN]
  BY Types DEF RequestTypes, FileTypes
(* Steps that leave the requests alone. *)
<1>u. ASSUME UNCHANGED <<req, files, alone>> PROVE UploadInv'
  <2> SUFFICES ASSUME NEW s \in Requests PROVE Uploading(s)'
    BY <1>q
  <2> QED
    BY <1>0, <1>u, UploadStays
<1>d. ASSUME Dies PROVE UploadInv'
  <2> SUFFICES ASSUME NEW s \in Requests PROVE Uploading(s)'
    BY <1>q
  <2>1. UNCHANGED <<files, alone>>
    BY <1>d, Zenon DEF Dies
  <2>2. req'[s] = IF req[s].pc \in {"new", "done"} THEN req[s]
                  ELSE [req[s] EXCEPT !.pc = "done", !.answer = "cut"]
    BY <1>d, Zenon DEF Dies
  <2>3. CASE req[s].pc \in {"new", "done"}
    BY <1>0, <2>1, <2>2, <2>3, UploadStays
  <2>4. CASE req[s].pc \notin {"new", "done"}
    <3>1. req'[s] = [req[s] EXCEPT !.pc = "done", !.answer = "cut"]
      BY <2>2, <2>4
    <3>2. req'[s].pc = "done" /\ req'[s].answer = "cut" /\ req'[s].sent = req[s].sent
      BY <1>0, <3>1 DEF RequestStates
    <3> QED
      BY <1>0, <3>2 DEF Uploading
  <2> QED
    BY <2>3, <2>4
(* A request that goes on without touching a file. *)
<1>g. ASSUME NEW r \in Requests, NEW next, Goto(r, next), UNCHANGED <<files, alone>>,
             Uploading(r)'
      PROVE  UploadInv'
  <2> SUFFICES ASSUME NEW s \in Requests, s # r PROVE Uploading(s)'
    BY <1>q, <1>g
  <2>1. req'[s] = req[s]
    BY <1>f, <1>g DEF Goto
  <2> QED
    BY <1>0, <1>g, <2>1, UploadStays
<1>a. ASSUME NEW r \in Requests, NEW answer, answer # "stored", Goto(r, Answered(r, answer)),
             UNCHANGED <<files, alone>>
      PROVE  UploadInv'
  <2>1. req'[r] = [req[r] EXCEPT !.pc = "done", !.answer = answer]
    BY <1>a, <1>f DEF Goto, Answered
  <2>2. req'[r].pc = "done" /\ req'[r].answer = answer /\ req'[r].sent = req[r].sent
    BY <1>0, <2>1 DEF RequestStates
  <2>3. Uploading(r)'
    BY <1>0, <1>a, <2>2 DEF Uploading
  <2> QED
    BY <1>a, <1>g, <2>3
(* A request that changes its file. *)
<1>c. ASSUME NEW r \in Requests, NEW next, Goto(r, next), Disturbs(r), NEW content,
             files' = [files EXCEPT ![Name[r]] = content], Uploading(r)'
      PROVE  UploadInv'
  <2> SUFFICES ASSUME NEW s \in Requests, s # r PROVE Uploading(s)'
    BY <1>q, <1>c
  <2>1. req'[s] = req[s]
    BY <1>f, <1>c DEF Goto
  <2>2. alone'[s] => alone[s] /\ Name[s] # Name[r]
    BY <1>c DEF Disturbs
  <2>3. Name[s] # Name[r] => files'[Name[s]] = files[Name[s]]
    BY <1>c, Types, ServerAssumption DEF FileTypes
  <2> QED
    BY <1>0, <2>1, <2>2, <2>3, UploadStays
<1>1. CASE Start \/ LoadFile \/ LoadDefaults \/ SaveCreate \/ SaveFails \/ SaveWrite
           \/ ProbeFree \/ ProbeBusy
  BY <1>1, <1>u DEF Start, LoadFile, LoadDefaults, Loaded, SaveCreate, SaveFails, SaveWrite,
     SaveStep, ProbeFree, ProbeBusy
<1>2. CASE Listen \/ Signal
  BY <1>2, <1>u, <1>d DEF Listen, Signal
<1>3. CASE LoadFatal \/ ProbeGivesUp \/ Shutdown \/ Crash
  BY <1>3, <1>d DEF LoadFatal, ProbeGivesUp, Shutdown, Crash
<1>4. CASE UNCHANGED vars \/ \E p \in Ports : OthersListen(p)
  BY <1>4, <1>u DEF OthersListen, vars
<1>5. CASE \E c \in UserConfigs \cup {Absent} : EditConfig(c)
  BY <1>5, <1>u DEF EditConfig
<1>6. ASSUME NEW r \in Requests, NEW kind \in Kinds, Accept(r, kind) PROVE UploadInv'
  <2>1. /\ Goto(r, [req[r] EXCEPT !.pc = "handler", !.kind = kind])
        /\ UNCHANGED <<files, alone>> /\ req[r].pc = "new"
    BY <1>6 DEF Accept
  <2>2. req'[r] = [req[r] EXCEPT !.pc = "handler", !.kind = kind]
    BY <2>1, <1>f DEF Goto
  <2>3. req'[r].pc = "handler" /\ req'[r].sent = req[r].sent /\ req'[r].answer = req[r].answer
    BY <1>0, <2>2 DEF RequestStates
  <2>4. Uploading(r)'
    BY <1>0, <2>1, <2>3 DEF Uploading
  <2> QED
    BY <1>g, <2>1, <2>4
<1>7. ASSUME NEW r \in Requests, Handle(r) PROVE UploadInv'
  <2>1. PICK answer \in {"ok", "error"} : Goto(r, Answered(r, answer))
    BY <1>7 DEF Handle
  <2> QED
    BY <1>7, <1>a, <2>1 DEF Handle
<1>8. ASSUME NEW r \in Requests, UploadParse(r) PROVE UploadInv'
  <2>1. CASE Goto(r, Answered(r, "error"))
    BY <1>8, <1>a, <2>1 DEF UploadParse
  <2>2. CASE Goto(r, [req[r] EXCEPT !.pc = "create"])
    <3>1. req'[r] = [req[r] EXCEPT !.pc = "create"]
      BY <2>2, <1>f DEF Goto
    <3>2. req'[r].pc = "create" /\ req'[r].sent = req[r].sent /\ req'[r].answer = req[r].answer
      BY <1>0, <3>1 DEF RequestStates
    <3>3. Uploading(r)' /\ UNCHANGED <<files, alone>>
      BY <1>0, <1>8, <3>2 DEF Uploading, UploadParse
    <3> QED
      BY <1>g, <2>2, <3>3
  <2> QED
    BY <1>8, <2>1, <2>2 DEF UploadParse
<1>9. ASSUME NEW r \in Requests, UploadCreate(r) PROVE UploadInv'
  <2>1. CASE Goto(r, Answered(r, "error")) /\ UNCHANGED <<files, alone>>
    BY <1>a, <2>1
  <2>2. CASE /\ Goto(r, [req[r] EXCEPT !.pc = "copy"])
             /\ files' = [files EXCEPT ![Name[r]] = Create(@)]
             /\ Disturbs(r)
    <3>1. req'[r] = [req[r] EXCEPT !.pc = "copy"]
      BY <2>2, <1>f DEF Goto
    <3>2. req'[r].pc = "copy" /\ req'[r].sent = req[r].sent /\ req'[r].answer = req[r].answer
      BY <1>0, <3>1 DEF RequestStates
    <3>3. req[r].sent = 0 /\ req[r].answer # "stored"
      BY <1>0, <1>9 DEF Uploading, UploadCreate
    <3>4. files'[Name[r]] = <<>>
      BY <2>2, Types, ServerAssumption DEF FileTypes, Create
    <3>5. Chunks(r)' = <<>>
      BY <3>2, <3>3 DEF Chunks
    <3>6. Uploading(r)'
      BY <1>0, <3>2, <3>3, <3>4, <3>5 DEF Uploading
    <3> QED
      BY <1>c, <2>2, <3>6 DEF Create
  <2> QED
    BY <1>9, <2>1, <2>2 DEF UploadCreate
<1>10. ASSUME NEW r \in Requests, UploadCopy(r) PROVE UploadInv'
  <2> DEFINE n == req[r].sent
             content == WriteAt(files[Name[r]], n + 1, <<r, n + 1>>)
  <2>1. /\ Goto(r, [req[r] EXCEPT !.sent = n + 1]) /\ Disturbs(r) /\ req[r].pc = "copy"
        /\ files' = [files EXCEPT ![Name[r]] = content]
    BY <1>10 DEF UploadCopy
  <2>2. n \in Nat
    BY <1>0 DEF RequestStates
  <2>3. req'[r] = [req[r] EXCEPT !.sent = n + 1]
    BY <2>1, <1>f DEF Goto
  <2>4. req'[r].pc = "copy" /\ req'[r].sent = n + 1 /\ req'[r].answer = req[r].answer
    BY <1>0, <2>1, <2>3 DEF RequestStates
  <2>5. alone'[r] => alone[r]
    BY <2>1 DEF Disturbs
  <2>6. files'[Name[r]] = content
    BY <2>1, Types, ServerAssumption DEF FileTypes
  <2>7. alone[r] => files[Name[r]] = [i \in 1..n |-> <<r, i>>]
    BY <1>0, <2>1 DEF Uploading, Chunks
  <2>8. Chunks(r)' = [i \in 1..(n + 1) |-> <<r, i>>]
    BY <2>4 DEF Chunks
  <2>9. WriteAt([i \in 1..n |-> <<r, i>>], n + 1, <<r, n + 1>>) = [i \in 1..(n + 1) |-> <<r, i>>]
    BY <2>2, WriteNext
  <2>10. alone'[r] => files'[Name[r]] = Chunks(r)'
    BY <2>5, <2>6, <2>7, <2>8, <2>9
  <2>11. req[r].answer # "stored" /\ n + 1 <= Size[r]
    <3>1. req[r].answer # "stored"
      BY <1>0, <2>1 DEF Uploading
    <3>2. req[r].sent < Size[r] /\ Size[r] \in Nat
      BY <1>10, ServerAssumption DEF UploadCopy
    <3> QED
      BY <2>2, <3>1, <3>2
  <2>12. Uploading(r)'
    BY <2>4, <2>10, <2>11 DEF Uploading
  <2> QED
    BY <1>c, <2>1, <2>12
<1>11. ASSUME NEW r \in Requests, UploadRespond(r) PROVE UploadInv'
  <2>1. req'[r] = [req[r] EXCEPT !.pc = "done", !.answer = "stored"]
    BY <1>11, <1>f DEF UploadRespond, Goto, Answered
  <2>2. req'[r].pc = "done" /\ req'[r].sent = req[r].sent /\ req[r].pc = "copy"
    BY <1>0, <1>11, <2>1 DEF RequestStates, UploadRespond
  <2>3. Uploading(r)'
    BY <1>0, <1>11, <2>2 DEF Uploading, UploadRespond, Chunks
  <2> QED
    BY <1>11, <1>g, <2>3 DEF UploadRespond
<1> QED
  BY <1>1, <1>2, <1>3, <1>4, <1>5, <1>6, <1>7, <1>8, <1>9, <1>10, <1>11
     DEF Next, Boot, Serve, UploadHandler

(* A write at its place leaves every other chunk at its own.               *)
LEMMA WriteInPlace ==
    ASSUME NEW n, NEW s \in Seq((Requests \X Nat) \cup {None}), NEW i \in Nat \ {0}, NEW chunk,
           Placed(n, i, chunk),
           \A k \in 1..Len(s) : Placed(n, k, s[k])
    PROVE  \A k \in 1..Len(WriteAt(s, i, chunk)) : Placed(n, k, WriteAt(s, i, chunk)[k])
<1> DEFINE top == IF i > Len(s) THEN i ELSE Len(s)
           t == WriteAt(s, i, chunk)
<1>1. top \in Nat /\ Len(s) \in Nat
  BY LenProperties
<1>2. t = [k \in 1..top |-> IF k = i THEN chunk ELSE IF k <= Len(s) THEN s[k] ELSE None]
  BY DEF WriteAt
<1> HIDE DEF top, t
<1>3. Len(t) = top
  BY <1>1, <1>2
<1> SUFFICES ASSUME NEW k \in 1..top PROVE Placed(n, k, t[k])
  BY <1>3 DEF t
<1>4. CASE k = i
  BY <1>2, <1>4
<1>5. CASE k # i /\ k <= Len(s)
  <2>1. k \in 1..Len(s) /\ t[k] = s[k]
    BY <1>1, <1>2, <1>5
  <2> QED
    BY <2>1
<1>6. CASE k # i /\ ~(k <= Len(s))
  <2>1. t[k] = None
    BY <1>2, <1>6
  <2> QED
    BY <2>1 DEF Placed
<1> QED
  BY <1>4, <1>5, <1>6

(* Only the creation of a file and the copying change files.               *)
LEMMA PlaceStep ==
    ASSUME TypeOK, UploadInv, PlaceInv, [Next]_vars
    PROVE  PlaceInv'
<1>0. FileTypes /\ \A s \in Requests : req[s] \in RequestStates
  BY Types DEF RequestTypes
<1>u. ASSUME UNCHANGED files PROVE PlaceInv'
  BY <1>u DEF PlaceInv, InPlace, Placed
<1>1. CASE Start \/ Boot \/ Signal \/ Shutdown \/ Crash
  <2>1. UNCHANGED files
    BY <1>1, Zenon DEF Start, Boot, LoadFile, LoadDefaults, LoadFatal, Loaded, SaveCreate, SaveFails,
       SaveWrite, SaveStep, ProbeFree, ProbeBusy, ProbeGivesUp, Listen, Signal, Shutdown,
       Crash, Dies
  <2> QED
    BY <1>u, <2>1
<1>2. CASE UNCHANGED vars \/ \E p \in Ports : OthersListen(p)
  BY <1>2, <1>u DEF OthersListen, vars
<1>3. CASE \E c \in UserConfigs \cup {Absent} : EditConfig(c)
  BY <1>3, <1>u DEF EditConfig
<1>4. ASSUME NEW r \in Requests,
             \/ \E kind \in Kinds : Accept(r, kind)
             \/ Handle(r) \/ UploadParse(r) \/ UploadRespond(r)
      PROVE  PlaceInv'
  BY <1>4, <1>u DEF Accept, Handle, UploadParse, UploadRespond
<1>c. ASSUME NEW name \in Names, NEW content, files' = [files EXCEPT ![name] = content],
             \A k \in 1..Len(content) : Placed(name, k, content[k])
      PROVE  PlaceInv'
  <2> SUFFICES ASSUME NEW n \in Names PROVE InPlace(n)'
    BY DEF PlaceInv
  <2>1. files'[n] = IF n = name THEN content ELSE files[n]
    BY <1>0, <1>c DEF FileTypes
  <2> QED
    BY <1>c, <2>1 DEF PlaceInv, InPlace, Placed
<1>5. ASSUME NEW r \in Requests, UploadCreate(r) PROVE PlaceInv'
  <2>1. CASE UNCHANGED files
    BY <1>u, <2>1
  <2>2. CASE files' = [files EXCEPT ![Name[r]] = <<>>]
    <3>1. Name[r] \in Names
      BY ServerAssumption
    <3>2. \A k \in 1..Len(<<>>) : Placed(Name[r], k, <<>>[k])
      OBVIOUS
    <3> QED
      BY <1>c, <2>2, <3>1, <3>2
  <2> QED
    BY <1>5, <2>1, <2>2 DEF UploadCreate, Create
<1>6. ASSUME NEW r \in Requests, UploadCopy(r) PROVE PlaceInv'
  <2> DEFINE i == req[r].sent + 1
             s == files[Name[r]]
             content == WriteAt(s, i, <<r, i>>)
  <2>1. files' = [files EXCEPT ![Name[r]] = content]
    BY <1>6 DEF UploadCopy
  <2>2. Name[r] \in Names /\ s \in Seq((Requests \X Nat) \cup {None})
    BY <1>0, ServerAssumption DEF FileTypes
  <2>3. i \in Nat \ {0} /\ i <= Size[r]
    <3>1. req[r].sent \in Nat /\ Size[r] \in Nat /\ req[r].sent < Size[r]
      BY <1>0, <1>6, ServerAssumption DEF RequestStates, UploadCopy
    <3> QED
      BY <3>1
  <2>4. Placed(Name[r], i, <<r, i>>)
    BY <2>3 DEF Placed
  <2>5. \A k \in 1..Len(s) : Placed(Name[r], k, s[k])
    BY <2>2 DEF PlaceInv, InPlace
  <2> HIDE DEF i, s
  <2>6. \A k \in 1..Len(content) : Placed(Name[r], k, content[k])
    BY <2>2, <2>3, <2>4, <2>5, WriteInPlace
  <2> HIDE DEF content
  <2> QED
    BY <1>c, <2>1, <2>2, <2>6
<1> QED
  BY <1>1, <1>2, <1>3, <1>4, <1>5, <1>6 DEF Next, Serve, UploadHandler

-----------------------------------------------------------------------------
LEMMA InitIInv == Init => IInv
  BY InitTypes, InitSettings, InitUpload, InitPlace DEF IInv

LEMMA NextIInv == IInv /\ [Next]_vars => IInv'
<1> SUFFICES ASSUME IInv, [Next]_vars PROVE IInv'
  OBVIOUS
<1>1. TypeOK'
  <2>1. CASE UNCHANGED vars
    BY <2>1 DEF IInv, TypeOK, vars
  <2> QED
    BY <2>1, ProcessStepTypes, RequestStepTypes DEF IInv, Next
<1> QED
  BY <1>1, SettingsStep, UploadStep, PlaceStep DEF IInv

LEMMA AlwaysIInv == Spec => []IInv
  BY InitIInv, NextIInv, PTL DEF Spec

(* The server has its types at every moment, through any number of starts, *)
(* crashes and signals: in particular AppCfg is complete, with a port and  *)
(* a positive limit on uploads, whatever a user left out of app.json, as   *)
(* soon as LoadAppConfig has returned.                                     *)
THEOREM ServerTypeCorrect == Spec => []TypeOK
<1>1. IInv => TypeOK
  BY DEF IInv
<1> QED
  BY <1>1, AlwaysIInv, PTL

(* A process that is started again runs with the configuration the last    *)
(* one ran with when nobody has edited app.json meanwhile: through crashes *)
(* between the creation of the file and its writing, failed writes of the  *)
(* defaults and any configuration of a user.  Only a read of app.json that *)
(* fails although the file is there puts the defaults in its place.        *)
THEOREM SettingsSurvive == Spec => []RestartKeepsSettings
<1>1. IInv => RestartKeepsSettings
  BY UnreadKeeps DEF IInv, SettingsInv, ReadInv
<1> QED
  BY <1>1, AlwaysIInv, PTL

(* What uploadHandler reports as stored is, up to the reported size, what  *)
(* was sent, and all that its file holds, for any number of concurrent     *)
(* uploads, unless another one of the same name has changed the file since *)
(* it was created; and whatever the uploads of a name do to each other, no *)
(* chunk ever stands at the place of another.                              *)
THEOREM StoredCorrect == Spec => []StoredIsReported
<1>1. IInv => StoredIsReported
  <2> SUFFICES ASSUME IInv PROVE StoredIsReported
    OBVIOUS
  <2>1. ASSUME NEW r \in Requests, req[r].answer = "stored", alone[r]
        PROVE  IsPrefix(files[Name[r]], Upload(r)) /\ Len(files[Name[r]]) = req[r].sent
    <3> DEFINE n == req[r].sent
               s == files[Name[r]]
               t == Upload(r)
    <3>1. s = [i \in 1..n |-> <<r, i>>] /\ n <= Size[r]
      BY <2>1 DEF IInv, UploadInv, Uploading, Chunks
    <3>2. n \in Nat /\ Size[r] \in Nat
      BY Types, ServerAssumption DEF IInv, RequestTypes, RequestStates
    <3>3. t = [i \in 1..Size[r] |-> <<r, i>>]
      BY DEF Upload
    <3> HIDE DEF n, s, t
    <3>4. Len(s) = n /\ Len(t) = Size[r]
      BY <3>1, <3>2, <3>3
    <3>5. SubSeq(s, 1, n) = SubSeq(t, 1, n)
      BY <3>1, <3>2, <3>3
    <3> QED
      BY <3>1, <3>4, <3>5 DEF IsPrefix, n, s, t
  <2>2. ASSUME NEW n \in Names, NEW i \in DOMAIN files[n] PROVE Placed(n, i, files[n][i])
    <3>1. files[n] \in Seq((Requests \X Nat) \cup {None})
      BY Types DEF IInv, FileTypes
    <3>2. i \in 1..Len(files[n])
      BY <3>1
    <3> QED
      BY <3>2 DEF IInv, PlaceInv, InPlace
  <2> QED
    BY <2>1, <2>2, Zenon DEF StoredIsReported, Placed
<1> QED
  BY <1>1, AlwaysIInv, PTL

=============================================================================
