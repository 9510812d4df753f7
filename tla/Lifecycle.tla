----------------------------- MODULE Lifecycle -----------------------------
(***************************************************************************)
(* The device from power-up to reboot: setup() and loop() of main.cpp, the *)
(* Wi-Fi station and its fallback access point (wifi_manager.cpp), the     *)
(* firmware update (firmware_manager.cpp), the deferred reboots and resets *)
(* (system_manager.cpp) and the settings (settings_manager.cpp).           *)
(*                                                                         *)
(* loop() runs in a task of its own; requests come from the task of the    *)
(* web server, one at a time, between any two of its steps.  External, as  *)
(* main.cpp uses them: the Update library (it checks the MD5 and the magic *)
(* byte of the first chunk), the boot loader (an image that has not been   *)
(* marked valid is left at the next boot) and the radio.                   *)
(***************************************************************************)
EXTENDS Integers, Sequences, FiniteSets

CONSTANTS
    Clients,      \* browsers that may upload firmware
    Images,       \* images they upload, of "good", "noSta" and "alien"
    Requests,     \* kinds of requests made
    MaxRequests,  \* bound on requests
    MaxOutages,   \* bound on losses and returns of the home network
    MaxCuts,      \* bound on power cuts and watchdog resets
    BadTimes      \* may a request hold a restart time out of range?

ASSUME BoundsAssumption ==
    /\ MaxRequests \in Nat /\ MaxOutages \in Nat /\ MaxCuts \in Nat /\ BadTimes \in BOOLEAN
ASSUME InputsAssumption ==
    /\ Images \subseteq {"good", "noSta", "alien"}
    /\ Requests \subseteq {"upload", "settings", "connect", "forget", "restart", "reset", "format", "button"}

VARIABLES
    flash,     \* the two partitions: the image that runs and the other, is the
               \* other booted next, which of them are marked valid
    nvs,       \* Preferences: credentials and settings
    files,     \* are there logs and recorded cleans?
    settings,  \* SettingsManager::current
    dev,       \* the loop and the WiFiManager object
    web,       \* what the task of the web server is waiting in
    fw,        \* FirmwareManager and the Update singleton
    sys,       \* SystemManager
    uploads,   \* the uploads under way
    net,       \* is the home network there?
    pressed,   \* is the button held?
    budget,    \* what is left of the bounds
    owed       \* history: of each kind of reboot, was it asked for and still waits, or
               \* did the device restart for another reason first?

vars == <<flash, nvs, files, settings, dev, web, fw, sys, uploads, net, pressed, budget, owed>>

Hostname == {"neato", "upstairs"}
Kind == {"restart", "reset", "format"}
Default == [hostname |-> "neato", fallback |-> TRUE]
NoUpload == [img |-> "none", sent |-> 0]
Whole(img) == <<<<img, 1>>, <<img, 2>>>>
Idle == [busy |-> FALSE, error |-> FALSE, chip |-> FALSE, reboot |-> "no", on |-> FALSE,
         md5 |-> "none", data |-> <<>>]
\* late: was it asked for when a reboot after an upload was already under way?
Calm == [reboot |-> "no", late |-> FALSE, reset |-> FALSE, format |-> FALSE]
Off == [at |-> "off", sta |-> FALSE, begun |-> "none", ap |-> FALSE, apName |-> "none", hostname |-> "neato",
        config |-> FALSE, was |-> FALSE, server |-> FALSE]

Flash == [runs: {"old"} \cup Images, other: {"old", "none"} \cup Images,
          switched: BOOLEAN, proven: BOOLEAN, spare: BOOLEAN]
Settings == [hostname: Hostname, fallback: BOOLEAN]
Nvs == [creds: {"none", "good", "bad"}, hostname: Hostname, fallback: BOOLEAN]
Dev == [at: {"off", "top", "erasing", "wifi", "waiting", "rest"}, sta: BOOLEAN,
        begun: {"none", "good", "bad"}, ap: BOOLEAN, apName: Hostname \cup {"none"},
        hostname: Hostname, config: BOOLEAN, was: BOOLEAN, server: BOOLEAN]
Fw == [busy: BOOLEAN, error: BOOLEAN, chip: BOOLEAN, reboot: {"no", "asked", "due"}, on: BOOLEAN,
       md5: Images \cup {"none"}, data: Seq(Images \X {1, 2})]
Sys == [reboot: {"no", "asked", "due"}, late: BOOLEAN, reset: BOOLEAN, format: BOOLEAN]

LTypeOK ==
    /\ flash \in Flash /\ nvs \in Nvs /\ settings \in Settings
    /\ dev \in Dev /\ fw \in Fw /\ sys \in Sys
    /\ web \in {"idle", "connecting"}
    /\ uploads \in [Clients -> [img: Images \cup {"none"}, sent: 0 .. 2]]
    /\ {files, net, pressed} \subseteq BOOLEAN
    /\ owed \in [Kind -> {"no", "asked", "forestalled"}]
    /\ budget \in [requests: 0 .. MaxRequests, outages: 0 .. MaxOutages, cuts: 0 .. MaxCuts]

Init ==
    /\ flash = [runs |-> "old", other |-> "none", switched |-> FALSE, proven |-> TRUE, spare |-> FALSE]
    /\ nvs \in {[creds |-> "none", hostname |-> "neato", fallback |-> TRUE],
               [creds |-> "good", hostname |-> "upstairs", fallback |-> TRUE]}
    /\ files = TRUE /\ settings = Default /\ dev = Off /\ web = "idle" /\ fw = Idle /\ sys = Calm
    /\ uploads = [c \in Clients |-> NoUpload] /\ net = TRUE /\ pressed = FALSE 
    /\ owed = [k \in Kind |-> "no"]
    /\ budget = [requests |-> MaxRequests, outages |-> MaxOutages, cuts |-> MaxCuts]

Running == dev.at # "off"

-----------------------------------------------------------------------------
(* The radio and the access point.                                         *)

\* Can an association with these credentials come about?
Associable(creds) == creds = "good" /\ net /\ flash.runs # "noSta"

\* startAccessPoint(), stopAccessPoint()
ApUp(d) == [d EXCEPT !.ap = TRUE, !.apName = d.hostname]
ApDown(d) == [d EXCEPT !.ap = FALSE, !.apName = "none"]

\* mutant: without credentials only
Reevaluated_NoFallback(d, creds, fallback) ==
    IF creds # "none" THEN ApDown(d) ELSE IF d.ap THEN d ELSE ApUp(d)
\* mutant: what was started is not stopped
Reevaluated_StaysUp(d, creds, fallback) ==
    IF (creds = "none" \/ (~d.sta /\ fallback)) /\ ~d.ap THEN ApUp(d) ELSE d

\* reevaluateFallbackAp()
Reevaluated(d, creds, fallback) ==
    LET wanted == creds = "none" \/ (~d.sta /\ fallback)
    IN  IF ~wanted THEN ApDown(d) ELSE IF d.ap THEN d ELSE ApUp(d)

\* An association that WiFi.begin() has started comes about later.
StaAssociates ==
    /\ Running /\ ~dev.sta /\ web = "idle" /\ dev.at # "waiting" /\ Associable(dev.begun)
    /\ dev' = [dev EXCEPT !.sta = TRUE]
    /\ UNCHANGED <<flash, nvs, files, settings, web, fw, sys, uploads, net, pressed, budget, owed>>

NetworkChanges ==
    /\ budget.outages > 0
    /\ net' = ~net
    /\ dev' = [dev EXCEPT !.sta = FALSE]
    /\ budget' = [budget EXCEPT !.outages = @ - 1]
    /\ UNCHANGED <<flash, nvs, files, settings, web, fw, sys, uploads, pressed, owed>>

-----------------------------------------------------------------------------
(* setup().                                                                *)

\* The boot loader: a new image is tried, one that was not marked valid is
\* left for one that was, or, where none was, for whichever can be read.
Booted(f) ==
    LET swapped == [f EXCEPT !.runs = f.other, !.other = f.runs, !.switched = FALSE,
                             !.proven = f.spare, !.spare = f.proven]
        same == [f EXCEPT !.switched = FALSE]
    IN  IF f.other = "none" THEN {same}
        ELSE IF f.switched \/ (~f.proven /\ f.spare) THEN {swapped}
        ELSE IF f.proven THEN {same} ELSE {same, swapped}

\* mutant: marked as soon as there is an interface.
Confirmed_AnyInterface(f, sta) == [f EXCEPT !.proven = TRUE]

\* esp_ota_mark_app_valid_cancel_rollback(), once the station is connected.
Confirmed(f, sta) == IF sta THEN [f EXCEPT !.proven = TRUE] ELSE f

\* wifiManager.begin(): a failed connection leaves the device in its config mode.
WifiBegun(d, creds, fallback, ok) ==
    IF creds # "none" /\ ok
    THEN [d EXCEPT !.sta = TRUE, !.begun = creds, !.was = TRUE]
    ELSE Reevaluated([d EXCEPT !.begun = creds, !.was = (creds # "none"), !.config = TRUE], creds, fallback)

\* SettingsManager::load() and save().
Loaded(stored) == [hostname |-> stored.hostname, fallback |-> stored.fallback]
Saved(stored, current) == [stored EXCEPT !.hostname = current.hostname, !.fallback = current.fallback]

\* The policy is pushed, and may start the access point, before setHostname().
Setup ==
    /\ dev.at = "off"
    /\ settings' = Loaded(nvs)
    /\ LET early == Reevaluated(Off, nvs.creds, nvs.fallback)
           named == [early EXCEPT !.hostname = nvs.hostname, !.at = "top"]
       IN  \E ok \in BOOLEAN, booted \in Booted(flash) :
             /\ ok => (nvs.creds = "good" /\ net /\ booted.runs # "noSta")
             /\ LET d == WifiBegun(named, nvs.creds, nvs.fallback, ok)
                IN  /\ dev' = [d EXCEPT !.server = d.sta \/ d.ap]
                    /\ flash' = Confirmed(booted, d.sta)
    /\ UNCHANGED <<nvs, files, web, fw, sys, uploads, net, pressed, budget, owed>>

\* What is owed once what was done is done, and when the device restarts
\* for another reason, which forgets a reset or a format that was asked for.
Owing(k) == [owed EXCEPT ![k] = "asked"]
Paid(done) == [k \in Kind |-> IF k \in done THEN "no" ELSE owed[k]]
Forestalled == [k \in Kind |-> IF k = "restart" THEN "no"
                               ELSE IF owed[k] = "asked" THEN "forestalled" ELSE owed[k]]

\* Everything in RAM is gone.
Restarts ==
    /\ dev' = Off /\ web' = "idle" /\ fw' = Idle /\ sys' = Calm
    /\ uploads' = [c \in Clients |-> NoUpload] /\ settings' = Default

PowerCut ==
    /\ Running /\ budget.cuts > 0
    /\ Restarts
    /\ budget' = [budget EXCEPT !.cuts = @ - 1]
    /\ owed' = Forestalled
    /\ UNCHANGED <<flash, nvs, files, net, pressed>>

-----------------------------------------------------------------------------
(* loop().                                                                 *)

RebootDue == sys.reboot = "due"

\* checkPendingReboot(): a factory reset goes on by formatting the files, which
\* takes a while; the access point still serves meanwhile.
CheckPendingReboot ==
    /\ dev.at = "top"
    /\ IF ~RebootDue
       THEN dev' = [dev EXCEPT !.at = "wifi"] /\ UNCHANGED <<nvs, settings, web, fw, sys, uploads, files, owed>>
       ELSE IF sys.reset
       THEN /\ nvs' = [creds |-> "none", hostname |-> "neato", fallback |-> TRUE]
            /\ dev' = [dev EXCEPT !.at = "erasing", !.sta = FALSE]
            /\ UNCHANGED <<settings, web, fw, sys, uploads, files, owed>>
       ELSE /\ Restarts /\ files' = (files /\ ~sys.format) /\ UNCHANGED nvs
            /\ owed' = Paid({"restart"} \cup (IF files' THEN {} ELSE {"format"}))
    /\ UNCHANGED <<flash, net, pressed, budget>>

Format ==
    /\ dev.at = "erasing"
    /\ files' = FALSE /\ owed' = Paid(Kind)
    /\ Restarts
    /\ UNCHANGED <<flash, nvs, net, pressed, budget>>

\* What lets WiFiManager::tick() try to reconnect.
MayReconnect(d, clients) == ~d.config /\ d.was /\ ~d.sta /\ ~(d.ap /\ clients)

\* The tick comes at an interval, so most iterations pass it by.
WifiTick(due) ==
    /\ dev.at = "wifi"
    /\ \E clients \in BOOLEAN :
         LET d == Reevaluated(dev, nvs.creds, settings.fallback)
         IN  dev' = IF ~due THEN [dev EXCEPT !.at = "rest"]
                    ELSE IF ~MayReconnect(d, clients) \/ nvs.creds = "none" THEN [d EXCEPT !.at = "rest"]
                    ELSE [d EXCEPT !.at = "waiting", !.begun = nvs.creds]
    /\ UNCHANGED <<flash, nvs, files, settings, web, fw, sys, uploads, net, pressed, budget, owed>>

ReconnectEnds ==
    /\ dev.at = "waiting"
    /\ \E ok \in {TRUE, FALSE} :
         /\ ok => Associable(dev.begun)
         /\ dev' = [dev EXCEPT !.at = "rest", !.sta = ok]
    /\ UNCHANGED <<flash, nvs, files, settings, web, fw, sys, uploads, net, pressed, budget, owed>>

\* The deferred start of the server; only then is the image marked.
StartsNow(d) == ~d.server /\ (d.sta \/ d.ap)

\* A button held long enough asks again in every iteration.
Asks(s) == [s EXCEPT !.reboot = "asked", !.late = fw.reboot # "no"]
ButtonSeen(s) == IF pressed THEN Asks([s EXCEPT !.reset = TRUE]) ELSE s

\* What loop() does before it comes to the firmware and the tasks.
BeforeTasks ==
    /\ dev.at = "rest"
    /\ flash' = Confirmed(flash, StartsNow(dev) /\ dev.sta)
    /\ UNCHANGED <<nvs, net, pressed, budget>>
Goes == /\ dev' = [dev EXCEPT !.at = "top", !.server = @ \/ StartsNow(dev)]
        /\ sys' = ButtonSeen(sys)
        /\ owed' = IF pressed THEN Owing("reset") ELSE owed
        /\ UNCHANGED <<settings, web, fw, uploads>>

FirmwareTicks == dev.sta \/ dev.ap

\* FirmwareManager::tick()
FirmwareReboots ==
    /\ BeforeTasks
    /\ FirmwareTicks /\ fw.reboot = "due"
    /\ Restarts
    /\ owed' = [Forestalled EXCEPT !["reset"] = IF pressed THEN "forestalled" ELSE @]
    /\ UNCHANGED files

\* No task of the registry runs while an update is in progress.
SkipTasks ==
    /\ BeforeTasks
    /\ FirmwareTicks /\ fw.reboot # "due" /\ fw.busy
    /\ Goes
    /\ UNCHANGED files

\* TaskRegistry::tickAll(): among other things logs are written.
TickAll ==
    /\ BeforeTasks
    /\ ~FirmwareTicks \/ (fw.reboot # "due" /\ ~fw.busy)
    /\ Goes
    /\ files' = TRUE

\* The delays before a reboot pass: half a second for a request, two seconds
\* after an upload.  A request that was made before the upload ended comes first
\* unless the loop is held up, as it is by an attempt to reconnect.
TimePasses ==
    /\ Running
    /\ \/ sys.reboot = "asked" /\ sys' = [sys EXCEPT !.reboot = "due"] /\ UNCHANGED fw
       \/ /\ fw.reboot = "asked" /\ (sys.reboot = "no" \/ sys.late \/ dev.at = "waiting")
          /\ fw' = [fw EXCEPT !.reboot = "due"] /\ UNCHANGED sys
    /\ UNCHANGED <<flash, nvs, files, settings, dev, web, uploads, net, pressed, budget, owed>>

-----------------------------------------------------------------------------
(* Requests.                                                               *)

Asked(kind) ==
    /\ Running /\ dev.server /\ (dev.sta \/ dev.ap) /\ web = "idle"
    /\ kind \in Requests /\ budget.requests > 0
    /\ budget' = [budget EXCEPT !.requests = @ - 1]

\* mutant: the last request is the one that counts.
Combined_LastOnly(s, kind) == [Asks(s) EXCEPT !.reset = kind = "reset", !.format = kind = "format"]

\* restart(), factoryReset(), formatFs(): the delay begins anew, a flag stays.
Combined(s, kind) == [Asks(s) EXCEPT !.reset = @ \/ kind = "reset", !.format = @ \/ kind = "format"]

ApiSystem(kind) ==
    /\ Asked(kind)
    /\ sys' = Combined(sys, kind)
    /\ owed' = Owing(kind)
    /\ UNCHANGED <<flash, nvs, files, settings, dev, web, fw, uploads, net, pressed>>

\* SettingsManager::apply(): the fields in their order; the restart time is
\* checked when the fields before it have been taken over.
ApiSettings ==
    /\ Asked("settings")
    /\ \E h \in Hostname, f \in BOOLEAN, bad \in {FALSE, BadTimes} :
         /\ settings' = [hostname |-> h, fallback |-> f]
         /\ dev' = IF f = settings.fallback THEN dev ELSE Reevaluated(dev, nvs.creds, f)
         /\ IF bad THEN UNCHANGED <<nvs, sys, owed>>
            ELSE /\ nvs' = IF settings' = settings THEN nvs ELSE Saved(nvs, settings')
                 /\ IF h = settings.hostname THEN UNCHANGED <<sys, owed>>
                    ELSE sys' = Asks(sys) /\ owed' = Owing("restart")
    /\ UNCHANGED <<flash, files, web, fw, uploads, net, pressed>>

\* WiFiManager::connect(): the credentials are saved before they are tried.
ApiConnect ==
    /\ Asked("connect")
    /\ \E creds \in {"good", "bad"} :
         /\ nvs' = [nvs EXCEPT !.creds = creds]
         /\ dev' = [dev EXCEPT !.sta = FALSE, !.begun = creds]
    /\ web' = "connecting"
    /\ UNCHANGED <<flash, files, settings, fw, sys, uploads, net, pressed, owed>>

ConnectEnds ==
    /\ web = "connecting" /\ Running
    /\ \/ /\ Associable(dev.begun)
          /\ Restarts /\ owed' = Forestalled
       \/ /\ dev' = Reevaluated([dev EXCEPT !.was = TRUE], nvs.creds, settings.fallback)
          /\ web' = "idle" /\ UNCHANGED <<settings, fw, sys, uploads, owed>>
    /\ UNCHANGED <<flash, nvs, files, net, pressed, budget>>

\* WiFiManager::disconnect()
ApiForget ==
    /\ Asked("forget")
    /\ nvs' = [nvs EXCEPT !.creds = "none"]
    /\ LET d == [dev EXCEPT !.sta = FALSE, !.begun = "none", !.was = FALSE]
       IN  dev' = Reevaluated(d, "none", settings.fallback)
    /\ UNCHANGED <<flash, files, settings, web, fw, sys, uploads, net, pressed, owed>>

PressButton ==
    /\ Running /\ "button" \in Requests /\ budget.requests > 0 /\ ~pressed
    /\ pressed' = TRUE
    /\ budget' = [budget EXCEPT !.requests = @ - 1]
    /\ UNCHANGED <<flash, nvs, files, settings, dev, web, fw, sys, uploads, net, owed>>

ReleaseButton ==
    /\ pressed
    /\ pressed' = FALSE
    /\ UNCHANGED <<flash, nvs, files, settings, dev, web, fw, sys, uploads, net, budget, owed>>

-----------------------------------------------------------------------------
(* Uploads: chunks of two of them come in any order.                       *)

\* mutant: what was found out about the chip is kept.
BeganUpdate_KeepsChip(f, img) ==
    [f EXCEPT !.busy = TRUE, !.error = FALSE, !.on = TRUE, !.md5 = img, !.data = <<>>]

\* beginUpdate(): an update that still runs is aborted.
BeganUpdate(f, img) ==
    [f EXCEPT !.busy = TRUE, !.error = FALSE, !.chip = FALSE, !.on = TRUE, !.md5 = img, !.data = <<>>]

\* The MD5 is not one, or Update.begin() fails: the update that ran is aborted
\* all the same, and only the second says that none is in progress.
NotBegun(f) == LET aborted == [f EXCEPT !.error = TRUE, !.chip = FALSE, !.on = FALSE]
               IN  {aborted, [aborted EXCEPT !.busy = FALSE]}

BeginUpload(c) ==
    /\ Asked("upload") /\ uploads[c] = NoUpload
    /\ \E img \in Images :
         /\ uploads' = [uploads EXCEPT ![c] = [img |-> img, sent |-> 0]]
         /\ \/ fw' = BeganUpdate(fw, img) /\ flash' = [flash EXCEPT !.other = "none", !.spare = FALSE]
            \/ fw' \in NotBegun(fw) /\ UNCHANGED flash
    /\ UNCHANGED <<nvs, files, settings, dev, web, sys, net, pressed, owed>>

\* The chunk that is checked should be an image's first; of another, byte 12 says anything.
ChipAccepted(chunk) == IF chunk[2] = 1 THEN {chunk[1] # "alien"} ELSE BOOLEAN

\* writeChunk(), and Update.write(): it takes nothing when it does not run, or
\* when its first byte is not the magic one.
WrittenChunks(f, chunk) ==
    IF f.error THEN {f}
    ELSE LET write(g) == IF g.on /\ (g.data = <<>> => chunk[2] = 1) THEN [g EXCEPT !.data = Append(@, chunk)]
                         ELSE [g EXCEPT !.error = TRUE, !.on = FALSE]
         IN  IF f.chip THEN {write(f)}
             ELSE {IF ok THEN write([f EXCEPT !.chip = TRUE])
                   ELSE [f EXCEPT !.error = TRUE, !.on = FALSE, !.busy = FALSE] : ok \in ChipAccepted(chunk)}

UploadChunk(c) ==
    /\ Running /\ web = "idle" /\ uploads[c].img # "none" /\ uploads[c].sent < 2
    /\ fw' \in WrittenChunks(fw, <<uploads[c].img, uploads[c].sent + 1>>)
    /\ uploads' = [uploads EXCEPT ![c].sent = @ + 1]
    /\ UNCHANGED <<flash, nvs, files, settings, dev, web, sys, net, pressed, budget, owed>>

\* endUpdate() and Update.end(): what has been written must have the MD5 announced last.
EndUpload(c) ==
    /\ Running /\ web = "idle" /\ uploads[c].img # "none" /\ uploads[c].sent = 2
    /\ uploads' = [uploads EXCEPT ![c] = NoUpload]
    /\ IF ~fw.error /\ fw.on /\ fw.data = Whole(fw.md5)
       THEN /\ fw' = [fw EXCEPT !.reboot = "asked", !.on = FALSE]
            /\ flash' = [flash EXCEPT !.other = fw.md5, !.switched = TRUE]
       ELSE fw' = [fw EXCEPT !.error = TRUE, !.on = FALSE] /\ UNCHANGED flash
    /\ UNCHANGED <<nvs, files, settings, dev, web, sys, net, pressed, budget, owed>>

\* The browser is closed.
AbandonUpload(c) ==
    /\ uploads[c] # NoUpload
    /\ uploads' = [uploads EXCEPT ![c] = NoUpload]
    /\ UNCHANGED <<flash, nvs, files, settings, dev, web, fw, sys, net, pressed, budget, owed>>

-----------------------------------------------------------------------------
Loop == CheckPendingReboot \/ Format \/ WifiTick(TRUE) \/ WifiTick(FALSE) \/ ReconnectEnds
        \/ FirmwareReboots \/ SkipTasks \/ TickAll
Request == \/ \E kind \in {"restart", "reset", "format"} : ApiSystem(kind)
           \/ ApiSettings \/ ApiConnect \/ ApiForget \/ PressButton
           \/ \E c \in Clients : BeginUpload(c) \/ UploadChunk(c) \/ EndUpload(c) \/ AbandonUpload(c)

Next == Setup \/ Loop \/ TimePasses \/ ConnectEnds \/ ReleaseButton \/ Request
        \/ StaAssociates \/ NetworkChanges \/ PowerCut

(* The device boots, its loop runs and comes to every tick that is due,    *)
(* delays pass, a connection attempt ends, nobody holds the button for     *)
(* ever.  Nobody has to ask for anything, or to finish an upload.          *)
Fairness == /\ WF_vars(Setup) /\ WF_vars(Loop) /\ SF_vars(WifiTick(TRUE))
            /\ WF_vars(TimePasses) /\ WF_vars(ConnectEnds) /\ WF_vars(ReleaseButton)

Spec == Init /\ [][Next]_vars /\ Fairness

-----------------------------------------------------------------------------
(* Properties.                                                             *)

(* A restart, a format and a factory reset that were asked for are each    *)
(* carried out, the reset with credentials, settings and files, whatever   *)
(* else goes on: an update that never ends, a network that is lost,        *)
(* another of the three, a button that is pressed again.  The exception is *)
(* a restart for another reason within the delay (power, firmware, a new   *)
(* network), after which the flag is gone: see NoResetIsLost.              *)
RebootHappens == \A k \in Kind : (owed[k] = "asked") ~> (owed[k] # "asked")

(* The image the boot loader is switched to is whole, has the announced    *)
(* MD5 and is for this chip, with uploads that overlap and uploads that    *)
(* are given up.                                                           *)
BootsWholeImage ==
    /\ flash.runs \in {"old", "good", "noSta"}
    /\ flash.switched => flash.other \in {"none", "old", "good", "noSta"}

(* An image with which the device cannot join the network is never marked  *)
(* valid, though its access point lets users in (main.cpp, the comment on  *)
(* marking the firmware).                                                  *)
ValidIsProven == flash.proven => flash.runs # "noSta"

(* As long as the policy asks for it, a user finds the device: its server  *)
(* is up, and so is the station or the access point.                       *)
Reachable ==
    (nvs.creds = "none" \/ settings.fallback)
        ~> \/ dev.server /\ (dev.sta \/ dev.ap)
           \/ ~(nvs.creds = "none" \/ settings.fallback)

(* The open access point does not stay beside a station that is connected. *)
OpenApCloses == (dev.sta /\ dev.ap /\ nvs.creds # "none") ~> ~(dev.sta /\ dev.ap /\ nvs.creds # "none")

(* The access point is named after the host name (user-guide.md, on        *)
(* reconfiguring Wi-Fi).                                                   *)
ApHasHostname == dev.ap => dev.apName = dev.hostname

(* A factory reset that was accepted erases everything (user-guide.md, on  *)
(* the factory reset): no other restart comes before it.                   *)
NoResetIsLost == owed["reset"] # "forestalled"

(* The tasks of the registry go on running, after an update that failed    *)
(* too.                                                                    *)
ManagersRun == []<><<TickAll \/ Setup>>_vars

(* A station that could not connect at boot is tried again by the loop     *)
(* (connectToWiFi(), the comment on boot connect timeouts).                *)
ReconnectTried ==
    (dev.was /\ nvs.creds # "none") ~> (dev.sta \/ dev.at \in {"waiting", "off"} \/ nvs.creds = "none")

(* An image with which the device has joined the network is marked valid   *)
(* (main.cpp, the comment on marking the firmware).                        *)
GoodImageKept == dev.sta ~> (flash.proven \/ ~dev.sta)

(* A request that is refused leaves the settings as they were              *)
(* (SettingsManager::apply(), the comment before its checks).              *)
RejectedIsUntouched == (Running /\ dev.at # "erasing") => settings = Loaded(nvs)
=============================================================================
