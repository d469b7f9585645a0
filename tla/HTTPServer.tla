----------------------------- MODULE HTTPServer -----------------------------
(***************************************************************************)
(* The server process: main() of cmd/main.go, LoadAppConfig of             *)
(* internal/config/config.go, and HttpServer of internal/server/server.go  *)
(* with its middleware, its routes and its uploads.                        *)
(*                                                                         *)
(* The process is started, may be stopped by a signal or crash at any      *)
(* moment, and is started again; app.json, the uploaded files and the      *)
(* other programs that want the same ports outlive it.  A configuration is *)
(* reduced to the settings that decide something here.                     *)
(***************************************************************************)
EXTENDS Integers, Sequences, FiniteSets, SequencesExt

CONSTANTS Requests,    \* the requests, each served by a goroutine
          Names,       \* the names of uploaded files
          Name,        \* Name[r]: the name of the file that r uploads
          Size,        \* Size[r]: the chunks of that file
          Kinds,       \* what is asked for: members of AllKinds
          Ports,       \* the ports
          DefaultPort, \* :1505
          DefaultMax,  \* the default of MaxUploadSize, in chunks
          UserConfigs, \* what a user may write into app.json
          EnvPorts,    \* what the environment variable PORT may be, or None
          Starts,      \* bound: how often the process is started
          Absent,      \* there is no app.json
          Torn,        \* app.json is not complete
          None         \* nothing: no value, no answer

AllKinds == {"file", "info", "stream", "options", "upload"}

(* What app.json holds, and what AppCfg holds once it is complete.         *)
ConfigFile == [port : Ports \cup {None}, maxUpload : Int \cup {None},
               cors : BOOLEAN \cup {None}]
Config == [port : Ports, maxUpload : Nat \ {0}, cors : BOOLEAN]

ASSUME ServerAssumption ==
    /\ Name \in [Requests -> Names] /\ Size \in [Requests -> Nat]
    /\ Kinds \subseteq AllKinds
    /\ DefaultPort \in Ports /\ EnvPorts \subseteq Ports \cup {None}
    /\ DefaultMax \in Nat \ {0} /\ Starts \in Nat
    /\ UserConfigs \subseteq ConfigFile
    /\ None \notin Ports \cup Int \cup BOOLEAN \cup {"stored"}
    /\ ConfigFile \cap {Absent, Torn, None} = {} /\ Absent # Torn

VARIABLES
    proc,      \* where main() is
    env,       \* the environment variable PORT of the process
    tries,     \* the loop variable of the port probe
    cfg,       \* AppCfg
    stopping,  \* the goroutine that waits for a signal is in Shutdown
    starts,    \* how often the process was started
    appJson,   \* the file app.json: a configuration, Torn or Absent
    taken,     \* the ports on which other programs listen
    files,     \* files[n]: the chunks of the uploaded file n
    req,       \* req[r]: where request r is, what it asks for, its answer
    alone,     \* history: only r has changed its file since it created it
    previous,  \* history: the last AppCfg, if nobody changed app.json since
    unread     \* history: since then app.json was there and not read

vars == <<proc, env, tries, cfg, stopping, starts, appJson, taken, files, req,
          alone, previous, unread>>

machineVars == <<appJson, taken, files>>
historyVars == <<alone, previous, unread>>

Init ==
    /\ proc = "down" /\ env = None /\ tries = 0 /\ cfg = None /\ stopping = FALSE
    /\ starts = 0
    /\ appJson \in {Absent} \cup UserConfigs
    /\ taken = {}
    /\ files = [n \in Names |-> <<>>]
    /\ req = [r \in Requests |->
                [pc |-> "new", kind |-> None, sent |-> 0, answer |-> None]]
    /\ alone = [r \in Requests |-> FALSE]
    /\ previous = None /\ unread = FALSE

-----------------------------------------------------------------------------
(* LoadAppConfig.                                                          *)

Defaults == [port |-> DefaultPort, maxUpload |-> DefaultMax, cors |-> TRUE]

(* json.Unmarshal into an AppConfig that has a few defaults.               *)
Unmarshal(f) ==
    [port |-> f.port, cors |-> f.cors = TRUE,
     maxUpload |-> IF f.maxUpload = None THEN DefaultMax ELSE f.maxUpload]

(* Mutant: the section cors is left out of the file.                       *)
MarshalPartly(c) == [port |-> c.port, maxUpload |-> c.maxUpload, cors |-> None]

(* json.MarshalIndent writes every setting.                                *)
Marshal(c) == [port |-> c.port, maxUpload |-> c.maxUpload, cors |-> c.cors]

(* Mutant: what a user left out or set to zero is kept.                    *)
CompleteNothing(c) == c

(* What is missing or makes no sense is replaced.                          *)
Complete(c) ==
    [port |-> IF c.port = None THEN DefaultPort ELSE c.port, cors |-> c.cors,
     maxUpload |-> IF c.maxUpload <= 0 THEN DefaultMax ELSE c.maxUpload]

Start ==
    /\ proc = "down" /\ starts < Starts
    /\ proc' = "load" /\ tries' = 0 /\ cfg' = None /\ stopping' = FALSE
    /\ env' \in EnvPorts
    /\ starts' = starts + 1
    /\ UNCHANGED <<machineVars, req, historyVars>>

Loaded(c, place) ==
    /\ proc = "load"
    /\ cfg' = Complete(c)
    /\ proc' = place
    /\ UNCHANGED <<env, tries, stopping, starts, machineVars, req, alone, previous>>

LoadFile ==
    /\ appJson \notin {Absent, Torn}
    /\ Loaded(Unmarshal(appJson), "probe")
    /\ UNCHANGED unread

(* There is no app.json, or os.ReadFile fails for another reason: the      *)
(* defaults are used, and written to app.json whatever it holds.           *)
LoadDefaults ==
    /\ Loaded(Defaults, "create")
    /\ unread' = (unread \/ appJson # Absent)

(* os.WriteFile creates or truncates the file, then writes it, or cannot   *)
(* open it; its error is ignored.                                          *)
SaveStep(from, to, outcomes) ==
    /\ proc = from
    /\ proc' = to
    /\ appJson' \in outcomes
    /\ UNCHANGED <<env, tries, cfg, stopping, starts, taken, files, req, historyVars>>

SaveCreate == SaveStep("create", "write", {Torn})
SaveFails == SaveStep("create", "probe", {appJson})
SaveWrite == SaveStep("write", "probe", {Marshal(Defaults), Torn})

-----------------------------------------------------------------------------
(* The process ends: its port is free again and its requests are cut off.  *)
Dies ==
    /\ proc' = "down" /\ env' = None /\ cfg' = None /\ tries' = 0 /\ stopping' = FALSE
    /\ req' = [r \in Requests |->
                 IF req[r].pc \in {"new", "done"} THEN req[r]
                 ELSE [req[r] EXCEPT !.pc = "done", !.answer = "cut"]]
    /\ UNCHANGED <<starts, machineVars, alone>>

(* app.json cannot be parsed: log.Fatal.                                   *)
LoadFatal == proc = "load" /\ appJson = Torn /\ Dies /\ UNCHANGED <<previous, unread>>

(* main() tries to listen on the port of PORT or of the configuration, and *)
(* closes the listener at once.                                            *)
Probed == IF env # None THEN env ELSE cfg.port

ProbeFree ==
    /\ proc = "probe" /\ Probed \notin taken
    /\ proc' = "start"
    /\ previous' = cfg
    /\ UNCHANGED <<env, tries, cfg, stopping, starts, machineVars, req, alone, unread>>

(* Mutant: the loop variable is not incremented.                           *)
ProbeForever ==
    /\ proc = "probe" /\ Probed \in taken
    /\ tries < 2
    /\ UNCHANGED vars

ProbeBusy ==
    /\ proc = "probe" /\ Probed \in taken
    /\ tries < 2
    /\ tries' = tries + 1
    /\ UNCHANGED <<proc, env, cfg, stopping, starts, machineVars, req, historyVars>>

ProbeGivesUp ==
    /\ proc = "probe" /\ Probed \in taken
    /\ tries = 2
    /\ Dies /\ UNCHANGED <<previous, unread>>

(* The server listens on the port of the configuration.                    *)
Listen ==
    /\ proc = "start"
    /\ \/ /\ cfg.port \notin taken
          /\ proc' = "serving"
          /\ UNCHANGED <<env, tries, cfg, stopping, starts, machineVars, req, historyVars>>
       \/ cfg.port \in taken /\ Dies /\ UNCHANGED <<previous, unread>>

Boot ==
    \/ LoadFile \/ LoadDefaults \/ LoadFatal
    \/ SaveCreate \/ SaveFails \/ SaveWrite
    \/ ProbeFree \/ ProbeBusy \/ ProbeGivesUp \/ Listen

(* From signal.Notify on a signal starts the ten seconds of Shutdown, in   *)
(* which the server goes on; before, it ends the process.                  *)
Signal ==
    \/ /\ proc \in {"start", "serving"} /\ ~stopping
       /\ stopping' = TRUE
       /\ UNCHANGED <<proc, env, tries, cfg, starts, machineVars, req, historyVars>>
    \/ /\ proc \in {"load", "create", "write", "probe"}
       /\ Dies /\ UNCHANGED <<previous, unread>>

Shutdown ==
    /\ stopping
    /\ Dies /\ UNCHANGED <<previous, unread>>

Crash == proc # "down" /\ Dies /\ UNCHANGED <<previous, unread>>

-----------------------------------------------------------------------------
(* Requests.  recovery, logging, cors, security and compression are around *)
(* every handler, in this order from the outside.                          *)

Goto(r, next) ==
    /\ proc = "serving"
    /\ req' = [req EXCEPT ![r] = next]
    /\ UNCHANGED <<proc, env, tries, cfg, stopping, starts, appJson, taken, previous,
                   unread>>

Answered(r, answer) == [req[r] EXCEPT !.pc = "done", !.answer = answer]

Accept(r, kind) ==
    /\ req[r].pc = "new"
    /\ Goto(r, [req[r] EXCEPT !.pc = "handler", !.kind = kind])
    /\ UNCHANGED <<files, alone>>

(* The middlewares that replace the writer by one that is no http.Flusher. *)
Wrappers == {"logging"}

(* The handlers that answer at once: "ok", or "error" with any status from *)
(* 400 on.  http.ServeFile may answer either, and with cors switched off   *)
(* OPTIONS goes to whatever handler the path has.                          *)
Handle(r) ==
    /\ req[r].pc = "handler" /\ req[r].kind # "upload"
    /\ \E answer \in
          CASE req[r].kind = "info" -> {"ok"}
            [] req[r].kind = "file" -> {"ok", "error"}
            [] req[r].kind = "stream" -> IF Wrappers = {} THEN {"ok"} ELSE {"error"}
            [] OTHER -> IF cfg.cors THEN {"ok"} ELSE {"ok", "error"} :
       Goto(r, Answered(r, answer))
    /\ UNCHANGED <<files, alone>>

(* uploadHandler: another method than POST, a form that is too large or    *)
(* malformed, a form without the file, or the beginning of an upload.      *)
UploadParse(r) ==
    /\ req[r].pc = "handler" /\ req[r].kind = "upload"
    /\ \/ Goto(r, Answered(r, "error"))
       \/ Size[r] <= cfg.maxUpload /\ Goto(r, [req[r] EXCEPT !.pc = "create"])
    /\ UNCHANGED <<files, alone>>

(* r changes its file: no other upload of that name is alone any more.     *)
Disturbs(r) ==
    alone' = [s \in Requests |-> IF Name[s] = Name[r] /\ s # r THEN FALSE
                                 ELSE IF s = r /\ req[r].pc = "create" THEN TRUE
                                 ELSE alone[s]]

(* Mutant: the file is opened without being truncated.                     *)
OpenFile(s) == s

(* os.Create truncates a file that exists.                                 *)
Create(s) == <<>>

UploadCreate(r) ==
    /\ req[r].pc = "create"
    /\ \/ /\ Goto(r, [req[r] EXCEPT !.pc = "copy"])
          /\ files' = [files EXCEPT ![Name[r]] = Create(@)]
          /\ Disturbs(r)
       \/ /\ Goto(r, Answered(r, "error"))
          /\ UNCHANGED <<files, alone>>

(* A write at an offset beyond the end of the file leaves a hole.          *)
WriteAt(s, i, chunk) ==
    [k \in 1..(IF i > Len(s) THEN i ELSE Len(s)) |->
        IF k = i THEN chunk ELSE IF k <= Len(s) THEN s[k] ELSE None]

(* io.Copy writes chunk after chunk at the offset of its own descriptor.   *)
UploadCopy(r) ==
    /\ req[r].pc = "copy" /\ req[r].sent < Size[r]
    /\ LET i == req[r].sent + 1 IN
       /\ Goto(r, [req[r] EXCEPT !.sent = i])
       /\ files' = [files EXCEPT ![Name[r]] = WriteAt(@, i, <<r, i>>)]
    /\ Disturbs(r)

(* At the end of the body, or at an error, which is ignored, the number of *)
(* chunks written is reported, with success.                               *)
UploadRespond(r) ==
    /\ req[r].pc = "copy"
    /\ Goto(r, Answered(r, "stored"))
    /\ UNCHANGED <<files, alone>>

UploadHandler(r) ==
    UploadParse(r) \/ UploadCreate(r) \/ UploadCopy(r) \/ UploadRespond(r)

Serve(r) == Handle(r) \/ UploadHandler(r)

-----------------------------------------------------------------------------
(* Other programs take and release ports; a user edits or removes          *)
(* app.json, which is read when the process starts and not again.          *)

OthersListen(p) ==
    /\ p \in taken \/ ~(proc = "serving" /\ cfg.port = p)
    /\ taken' = (taken \ {p}) \cup ({p} \ taken)
    /\ UNCHANGED <<proc, env, tries, cfg, stopping, starts, appJson, files, req,
                   historyVars>>

EditConfig(c) ==
    /\ proc = "down" /\ starts > 0
    /\ appJson' = c
    /\ previous' = None /\ unread' = FALSE
    /\ UNCHANGED <<proc, env, tries, cfg, stopping, starts, taken, files, req, alone>>

Next ==
    \/ Start \/ Boot \/ Signal \/ Shutdown \/ Crash
    \/ \E r \in Requests : Serve(r) \/ \E kind \in Kinds : Accept(r, kind)
    \/ \E p \in Ports : OthersListen(p)
    \/ \E c \in UserConfigs \cup {Absent} : EditConfig(c)

(* The process runs: main(), the goroutine in Shutdown, every handler.     *)
Fairness ==
    /\ WF_vars(Boot) /\ WF_vars(Shutdown)
    /\ \A r \in Requests : WF_vars(Serve(r))

Spec == Init /\ [][Next]_vars /\ Fairness

-----------------------------------------------------------------------------
(* Every variable has its type; the process has a complete configuration   *)
(* once it is loaded.                                                      *)
TypeOK ==
    /\ proc \in {"down", "load", "create", "write", "probe", "start", "serving"}
    /\ env \in EnvPorts \cup {None} /\ tries \in 0..2
    /\ cfg \in Config \cup {None} /\ (proc \notin {"down", "load"} => cfg # None)
    /\ stopping \in BOOLEAN
    /\ starts \in 0..Starts
    /\ appJson \in ConfigFile \cup {Absent, Torn}
    /\ taken \subseteq Ports
    /\ files \in [Names -> Seq((Requests \X Nat) \cup {None})]
    /\ req \in [Requests ->
         [pc : {"new", "handler", "create", "copy", "done"},
          kind : AllKinds \cup {None}, sent : Nat,
          answer : {None, "cut", "stored", "ok", "error"}]]
    /\ alone \in [Requests -> BOOLEAN]
    /\ previous \in Config \cup {None} /\ unread \in BOOLEAN

(* What r uploads.                                                         *)
Upload(r) == [i \in 1..Size[r] |-> <<r, i>>]

(* An upload that is reported with `success' has left in its file what was *)
(* sent, as far as the reported size tells, and nothing else, unless       *)
(* another upload of the name changed the file after it was created: what  *)
(* an older one, or one cut off by a crash, had left there is gone.  The   *)
(* report may well be of a part only, for the error of io.Copy is ignored; *)
(* the size is what tells.  Uploads that do overlap mix in the file, but   *)
(* each chunk stands at its place, or a hole does.                         *)
StoredIsReported ==
    /\ \A r \in Requests : req[r].answer = "stored" /\ alone[r] =>
          /\ IsPrefix(files[Name[r]], Upload(r))
          /\ Len(files[Name[r]]) = req[r].sent
    /\ \A n \in Names : \A i \in DOMAIN files[n] :
          \/ files[n][i] = None
          \/ \E r \in Requests : Name[r] = n /\ i <= Size[r] /\ files[n][i] = <<r, i>>

(* The settings survive a restart: when nobody has edited app.json since,  *)
(* the process that is started again gets the configuration the last one   *)
(* ran with, be it the defaults, which the first start writes out and the  *)
(* next one reads, or what a user wrote, completed each time anew.  They   *)
(* are lost only when app.json was there and could not be read, which      *)
(* LoadAppConfig takes for no app.json: one of the two processes then ran  *)
(* with the defaults.                                                      *)
RestartKeepsSettings ==
    proc \in {"probe", "start", "serving"} /\ previous # None /\ cfg # previous =>
        unread /\ Defaults \in {cfg, previous}

(* Every start comes to an end: the process serves or has given up,        *)
(* although other programs take and release the port meanwhile.            *)
StartConcludes == proc \notin {"down", "serving"} ~> proc \in {"down", "serving"}

(* src/README.md:172 says of a port in use: "Change the port in `app.json` *)
(* or using the `PORT` environment variable".  With the variable set the   *)
(* server would listen on the port it names.  main() probes and announces  *)
(* that port, and HttpServer.Start listens on the one of the configuration *)
(* (server.go:43).                                                         *)
PortIsHonoured == proc = "serving" /\ env # None => cfg.port = env

=============================================================================
