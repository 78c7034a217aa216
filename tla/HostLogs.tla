------------------------------- MODULE HostLogs -------------------------------
(***************************************************************************)
(* The processors of a host's own logs: the journal, cron, the kernel,     *)
(* containerd and what Kubernetes writes with klog.  Only the journal      *)
(* processor writes resources, and splits groups to do so.                 *)
(***************************************************************************)
EXTENDS LogRecord

CONSTANTS
    ContainerIds,   \* the values that look like a container id
    Images          \* the values that look like the name of an image

------------------------------------------------------------------------------
(* journaldprocessor *)

ResourceFields ==
    "host.name" :> "_HOSTNAME" @@ "host.id" :> "_MACHINE_ID"
    @@ "process.pid" :> "_PID" @@ "process.command" :> "_COMM"
    @@ "service.name" :> "_SYSTEMD_UNIT"

MappedFields == {ResourceFields[a] : a \in DOMAIN ResourceFields} \cup {"PRIORITY", "MESSAGE"}

\* The priorities 0 to 7 as the journal writes them; others leave the severity.
JournalSeverity ==
    [p \in {"0", "1", "2"} |-> FATAL] @@ "3" :> ERROR @@ "4" :> WARN
    @@ [p \in {"5", "6"} |-> INFO] @@ "7" :> DEBUG

\* What a record says of the resource it comes from.
JournalOwner(fields) ==
    LET said == {a \in DOMAIN ResourceFields : ResourceFields[a] \in DOMAIN fields}
    IN  [a \in said |-> fields[ResourceFields[a]]]

\* Mutant: the key leaves out the unit, so records of two units share a group.
JournalKeyWithoutUnit(rec) == Without(JournalOwner(rec.body.fields), {"service.name"})

\* tupleKey, sameTuple
JournalKey(rec) == JournalOwner(rec.body.fields)

\* processRecord, beside the resource: of a record with a map body.
JournalRecord(cfg, rec) ==
    LET fields   == rec.body.fields
        level    == Str(fields, "PRIORITY")
        unmapped == Without(fields, MappedFields)
    IN  [rec EXCEPT
           !.body  = IF cfg.bodyFromMessage /\ "MESSAGE" \in DOMAIN fields
                     THEN fields["MESSAGE"] ELSE @,
           !.attrs = IF cfg.keepFields /\ DOMAIN unmapped # {}
                     THEN Put(@, "journald.fields", unmapped) ELSE @,
           !.sev   = IF cfg.mapSeverity /\ level \in DOMAIN JournalSeverity
                     THEN JournalSeverity[level] ELSE @]

\* The places of the records that are maps, and of the others.
Maps(recs) == {i \in DOMAIN recs : IsMap(recs[i].body)}
Rest(recs) == DOMAIN recs \ Maps(recs)

\* What the records of a group say of their resource: of those that name one
\* attribute the last counts.
JournalSaid(recs) ==
    LET owner(i)  == JournalOwner(recs[i].body.fields)
        naming(a) == {i \in Maps(recs) : a \in DOMAIN owner(i)}
        last(a)   == CHOOSE i \in naming(a) : \A j \in naming(a) : j <= i
    IN  [a \in {b \in DOMAIN ResourceFields : naming(b) # {}} |-> owner(last(a))[a]]

\* The resource after each record has written what it says of it.
JournalResource(cfg, group) ==
    IF cfg.setResource THEN PutAll(group.res, JournalSaid(group.recs)) ELSE group.res

\* processInPlace: records that are no maps are left alone.
JournalInPlace(cfg, group) ==
    [res  |-> JournalResource(cfg, group),
     recs |-> [i \in DOMAIN group.recs |->
                 IF IsMap(group.recs[i].body) THEN JournalRecord(cfg, group.recs[i])
                 ELSE group.recs[i]]]

\* singleTuple: all records are maps that name one resource.
SingleTuple(group) ==
    \A rec, other \in Range(group.recs) :
        IsMap(rec.body) /\ IsMap(other.body) /\ JournalKey(rec) = JournalKey(other)

\* Mutant: a record goes before those of its group that came earlier.
OfKeyReversed(recs, key) ==
    Reverse(Picked(recs, {i \in Maps(recs) : JournalKey(recs[i]) = key}))

\* The records that name one resource, in the order in which they are met.
OfKey(recs, key) == Picked(recs, {i \in Maps(recs) : JournalKey(recs[i]) = key})

\* The first record of each resource that is named, in the order in which they are met.
FirstOfKey(recs) ==
    Picked(recs, {i \in Maps(recs) : \A j \in Maps(recs) :
                                        j < i => JournalKey(recs[j]) # JournalKey(recs[i])})

\* The records of a group that is split which are no maps.
JournalStays(group) ==
    [res |-> group.res, recs |-> Picked(group.recs, Rest(group.recs))]

\* split: a group of its own for the records of each resource that is named.
JournalSplit(cfg, group) ==
    [k \in DOMAIN FirstOfKey(group.recs) |->
        JournalInPlace(cfg,
            [res  |-> group.res,
             recs |-> OfKey(group.recs, JournalKey(FirstOfKey(group.recs)[k]))])]

\* journaldProcessor.ConsumeLogs: the groups that are split keep the records that are
\* no maps, what was split goes behind them, and groups left without records go.
Journal(cfg, groups) ==
    LET split == cfg.setResource /\ cfg.splitResources
        apart == {i \in DOMAIN groups : split /\ ~SingleTuple(groups[i])}
        first == [i \in DOMAIN groups |->
                    IF i \in apart THEN JournalStays(groups[i])
                    ELSE JournalInPlace(cfg, groups[i])]
        added == FlattenSeq([i \in DOMAIN groups |->
                    IF i \in apart THEN JournalSplit(cfg, groups[i]) ELSE <<>>])
    IN  IF split THEN Filled(first \o added) ELSE first

------------------------------------------------------------------------------
(* cronlogprocessor *)

\* Commands and sessions are found at the end of a longer message, run-parts only
\* by itself.
CronPart(text) ==
    IF text.form \in {"rfc5424", "rfc3164"}
    THEN IF text.content.form \in {"cron cmd", "cron cmdend", "cron pam"}
         THEN text.content ELSE Empty
    ELSE text

IsCronLog(text) ==
    CronPart(text).form \in {"cron cmd", "cron cmdend", "cron pam", "cron run-parts"}

\* cleanCommand: without its redirection, parentheses around it and its lock.
CleanCommand(command) ==
    [command EXCEPT !.redirected = FALSE, !.parenthesised = FALSE, !.locked = FALSE]

NoCommand == [run |-> "", redirected |-> FALSE, parenthesised |-> FALSE, locked |-> FALSE]

CronMessage(type, who, command) ==
    [form |-> "cron message", type |-> type, who |-> who, command |-> command]

\* ParseCronLog.  A session message other than opened and closed parses to nothing,
\* although IsCronLog takes it.
CronInfo(text) ==
    LET part == CronPart(text)
        pam  == "opened" :> "session_open" @@ "closed" :> "session_close"
        info(type, user, command, message) ==
            {[type |-> type, user |-> user, command |-> command, message |-> message]}
        ran(type) == info(type, part.user, part.command,
                          CronMessage(type, part.user, CleanCommand(part.command)))
        script(type) == info(type, "", part.command,
                             CronMessage(type, part.dir, part.command))
    IN  CASE part.form = "cron cmd" -> ran("cmd")
          [] part.form = "cron cmdend" -> ran("cmd_end")
          [] part.form = "cron pam" /\ part.event \in DOMAIN pam ->
               info(pam[part.event], part.user, NoCommand,
                    CronMessage(pam[part.event], part.user, NoCommand))
          [] part.form = "cron run-parts" ->
               script(IF part.event = "starting" THEN "run_parts_start"
                      ELSE "run_parts_finish")
          [] OTHER -> {}

\* cronLogProcessor.processLogRecord.  The service is asked for first, but decides
\* nothing: what it lets in must look like cron's too.
Cron(cfg, rec) ==
    LET text  == BodyText(rec.body)
        saved == SavedOnce(rec.attrs, text)
        changed(info) ==
            [rec EXCEPT !.attrs =
               Put(PutAll(saved, NonEmpty("cron.user" :> info.user)
                                 @@ "cron.type" :> info.type
                                 @@ (IF info.command = NoCommand THEN <<>>
                                     ELSE "cron.command" :> info.command)),
                   "message", info.message)]
    IN  IF ~IsCronLog(text) \/ CronInfo(text) = {} THEN rec
        ELSE LET info == CHOOSE i \in CronInfo(text) : TRUE
             IN  Rewritten(changed(info), cfg.rewrite, info.message)

------------------------------------------------------------------------------
(* kernellogprocessor *)

\* isKernelSource
KernelSource(res) ==
    \/ Str(res, "process.command") = "[kernel]"
    \/ Str(res, "service.name") = "kernel"

\* IsKernelLog.  A line of an unknown device, or one behind an uptime, is taken
\* although nothing is parsed of it.
IsKernelLog(text) ==
    text.form \in {"uptime", "scsi", "medium error", "ipvs", "ratelimit",
                   "clocksource", "charon", "interface"}

NoKernelInfo(text) ==
    [named |-> <<>>, sev |-> {}, message |-> text]

KernelMessage(kind, named, content) ==
    [form |-> "kernel message", kind |-> kind, named |-> named, content |-> content]

\* summarizeSCSIError
SCSISummary(text) ==
    CASE text.sense = "Medium Error" -> [form |-> "medium error (disk read failure)"]
      [] text.sense # "Medium Error" /\ text.failed -> [form |-> "command failed"]
      [] OTHER -> text.content

\* The disk names itself, the failure and the sense key decide how bad it is.
SCSIInfo(text) ==
    LET error == CASE text.sense = "Medium Error" -> "Medium Error"
                   [] text.sense # "Medium Error" /\ text.failed -> "SCSI Command Failed"
                   [] OTHER -> ""
    IN  [named   |-> Named(text, "scsi.address" :> "address" @@ "kernel.device" :> "device"
                                 @@ "scsi.sense_key" :> "sense" @@ "scsi.add_sense" :> "addSense")
                     @@ "kernel.subsystem" :> "scsi"
                     @@ NonEmpty("kernel.error_type" :> error),
         sev     |-> IF error = "" THEN {} ELSE {ERROR},
         message |-> KernelMessage("scsi", "kernel.device" :> text.device,
                                   SCSISummary(text))]

\* The interface's own event: its port state, or whether it is promiscuous.
InterfaceInfo(text) ==
    LET event == CASE text.event \in {"blocking", "disabled"} -> "net.port_state" :> text.event
                   [] text.event = "promiscuous enabled" -> "net.promiscuous" :> "enabled"
                   [] text.event = "promiscuous disabled" -> "net.promiscuous" :> "disabled"
                   [] OTHER -> <<>>
    IN  IF ~text.isDevice THEN NoKernelInfo(text)
        ELSE [NoKernelInfo(text) EXCEPT
                !.named = "kernel.subsystem" :> "net" @@ "kernel.device" :> text.device
                          @@ (IF text.isVeth THEN <<>> ELSE event)]

\* ParseKernelLog, of a text without its uptime; the first pattern that matches.
KernelInfo(text) ==
    LET of(subsystem, table, kind) ==
            LET named == Named(text, table)
            IN  [named   |-> named @@ "kernel.subsystem" :> subsystem,
                 sev     |-> {},
                 message |-> KernelMessage(kind, named, TextAt(text, "content"))]
        block == of("block", "kernel.device" :> "device" @@ "block.sector" :> "sector", "block")
        ipsec == of("ipsec", "ipsec.component" :> "component", "ipsec")
        ipvs  == of("ipvs", "ipvs.scheduler" :> "scheduler" @@ "ipvs.protocol" :> "protocol"
                            @@ "ipvs.destination" :> "destination", "ipvs")
    IN  CASE text.form = "scsi" -> SCSIInfo(text)
          [] text.form = "medium error" ->
               [block EXCEPT !.named = Put(@, "kernel.error_type", "Critical Medium Error"),
                             !.sev = {ERROR}]
          [] text.form = "ipvs" ->
               IF text.content.form = "no destination"
               THEN [ipvs EXCEPT !.named = Put(@, "kernel.error_type", "No Destination"),
                                 !.sev = {WARN}]
               ELSE ipvs
          [] text.form = "ratelimit" ->
               of("net", "net.suppressed_count" :> "count", "ratelimit")
          [] text.form = "clocksource" -> of("clocksource", <<>>, "clocksource")
          [] text.form = "charon" ->
               [ipsec EXCEPT !.named =
                  Put(@, "ipsec.connection", text.connection \o "|" \o text.seq)]
          [] text.form = "interface" -> InterfaceInfo(text)
          [] OTHER -> NoKernelInfo(text)

\* kernelLogProcessor.processLogRecord, of a record of the kernel's.
Kernel(cfg, rec) ==
    LET text   == BodyText(rec.body)
        booted == text.form = "uptime"
        info   == KernelInfo(IF booted THEN text.content ELSE text)
        saved  == SavedOnce(rec.attrs, text)
        named  == info.named @@ (IF booted THEN "kernel.uptime" :> text.uptime ELSE <<>>)
        rated  == IF cfg.adjustSeverity /\ info.sev # {}
                  THEN CHOOSE sev \in info.sev : TRUE ELSE rec.sev
    IN  IF ~IsKernelLog(text) THEN rec
        ELSE Rewritten([rec EXCEPT !.attrs = PutAll(saved, named), !.sev = rated],
                       cfg.rewrite, info.message)

------------------------------------------------------------------------------
(* containerdlogprocessor *)

\* matchesServiceName
ContainerdService(cfg, res) ==
    /\ "service.name" \in DOMAIN res
    /\ \/ res["service.name"] \in {cfg.service, "containerd"}
       \/ PathTo(res["service.name"], "containerd")

\* What the pairs behind the message and the message itself give.  A line carries
\* at most one of the pairs container and id.  The id is looked for in the pairs,
\* then in the message in three places; the image in the pair name, then in a
\* message about images.
ContainerdFields(text) ==
    LET pairs   == text.pairs
        msg     == text.message
        ids     == {pairs[k] : k \in {"container", "id"} \cap DOMAIN pairs} \cap ContainerIds
        inText  == {i \in 1 .. 3 : Str(msg, <<"forId", "returnedId", "withinId">>[i]) # ""}
        id      == CASE ids # {} -> CHOOSE id \in ids : TRUE
                     [] ids = {} /\ inText # {} ->
                          msg[<<"forId", "returnedId", "withinId">>
                                [CHOOSE i \in inText : \A j \in inText : i <= j]]
                     [] OTHER -> ""
        aboutImages == msg.form \in {"PullImage", "Pulled image", "ImageCreate", "ImageUpdate"}
        image   == CASE Str(pairs, "name") \in Images -> pairs["name"]
                     [] Str(pairs, "name") \notin Images /\ aboutImages -> Str(msg, "image")
                     [] OTHER -> ""
        pod     == Named(msg, "podName" :> "podName" @@ "podUID" :> "podUID"
                              @@ "podNamespace" :> "podNamespace" @@ "podAttempt" :> "podAttempt"
                              @@ "containerName" :> "containerName"
                              @@ "containerAttempt" :> "containerAttempt")
    IN  NonEmpty(pod @@ "id" :> id @@ "image" :> image
                 @@ "error" :> Str(pairs, "error") @@ "namespace" :> Str(pairs, "namespace")
                 @@ "type" :> Str(pairs, "type")
                 @@ "stream" :> Str(pairs, "stream") @@ "status" :> Str(pairs, "status"))

\* What generateCleanMessage shows of a message beside its kind, where it is known;
\* of other messages the error.
ShownOf ==
    [kind \in {"connecting to shim", "shim disconnected", "StopPodSandbox",
               "RemoveContainer", "warnings while cleaning up dead shim",
               "received container exit event", "StartContainer"} |-> {"id"}]
    @@ [kind \in {"PullImage", "ImageCreate", "ImageUpdate", "Pulled image"} |-> {"image"}]
    @@ "container event discarded" :> {"type", "id"}
    @@ "ttrpc: received message on inactive stream" :> {"stream"}
    @@ "unknown status" :> {"status"}
    @@ "CreateContainer" :> {"containerName", "podName", "id"}

\* generateCleanMessage.  The id of a shim or a state comes from the message's own
\* words first or last; a message of another kind, and some of which nothing is
\* known, stay whole.
ContainerdMessage(text) ==
    LET fields == ContainerdFields(text)
        msg    == text.message
        word   == IF Str(msg, "word") \in ContainerIds THEN msg.word ELSE ""
        known  == CASE msg.form = "connecting to shim" -> NonEmpty("id" :> word) @@ fields
                    [] msg.form = "get state for" -> fields @@ NonEmpty("id" :> word)
                    [] OTHER -> fields
        shown  == CASE msg.form \in DOMAIN ShownOf -> ShownOf[msg.form]
                    [] msg.form = "get state for" ->
                         IF "id" \in DOMAIN known THEN {"id", "error"} ELSE {}
                    [] msg.form = "RunPodSandbox" ->
                         CASE "podName" \notin DOMAIN known -> {}
                           [] Str(msg, "returnedId") # "" -> {"podName", "podNamespace", "id"}
                           [] OTHER -> {"podName", "podNamespace"}
                    [] OTHER -> {"error"}
        parts  == shown \cap DOMAIN known
        whole  == \/ msg.form \notin DOMAIN ShownOf \cup {"get state for", "RunPodSandbox"}
                  \/ /\ parts = {}
                     /\ msg.form \in {"connecting to shim", "PullImage", "Pulled image",
                                      "get state for", "RunPodSandbox"}
    IN  [form |-> "containerd message", kind |-> msg.form,
         content |-> IF whole THEN msg ELSE Empty,
         shown |-> [k \in parts |-> known[k]]]

ContainerdSeverity ==
    "trace" :> TRACE @@ "debug" :> DEBUG @@ "info" :> INFO
    @@ [level \in {"warning", "warn"} |-> WARN]
    @@ "error" :> ERROR @@ [level \in {"fatal", "panic"} |-> FATAL]

\* containerdLogProcessor.processLogRecord, of a record of containerd's.
Containerd(cfg, rec) ==
    LET text  == BodyText(rec.body)
        named == Named(ContainerdFields(text),
                   "container.id" :> "id" @@ "containerd.namespace" :> "namespace"
                   @@ "containerd.event_type" :> "type" @@ "container.image.name" :> "image"
                   @@ "error.message" :> "error" @@ "k8s.pod.name" :> "podName"
                   @@ "k8s.pod.uid" :> "podUID" @@ "k8s.namespace.name" :> "podNamespace"
                   @@ "k8s.sandbox.attempt" :> "podAttempt"
                   @@ "k8s.container.name" :> "containerName"
                   @@ "k8s.container.attempt" :> "containerAttempt")
        saved == SavedOnce(rec.attrs, text)
        said  == "containerd.level" :> text.level @@ "message" :> text.message @@ named
        rated == IF cfg.adjustSeverity /\ text.level \in DOMAIN ContainerdSeverity
                 THEN ContainerdSeverity[text.level] ELSE rec.sev
    IN  IF text.form # "logrus" THEN rec
        ELSE Rewritten([rec EXCEPT !.attrs = PutAll(saved, said), !.sev = rated],
                       cfg.rewrite, ContainerdMessage(text))

------------------------------------------------------------------------------
(* klogprocessor *)

\* matchesServiceName, asked only if a service is configured.
KlogService(cfg, res) ==
    cfg.service = ""
    \/ IsOfService(res, {"service.name", "container.name", "k8s.container.name"}, cfg.service)

KlogSeverity == "I" :> INFO @@ "W" :> WARN @@ "E" :> ERROR @@ "F" :> FATAL

\* The pod a kubelet line is about.  Its pair pod is namespace/name; podID is used
\* where neither the line nor the record has an identifier yet.
KlogPod(text, attrs) ==
    LET pairs == text.pairs
        known == Named(pairs, "k8s.pod.uid" :> "podUID" @@ "k8s.container.name" :> "containerName"
                              @@ "container.id" :> "containerID")
        named == IF "pod" \in DOMAIN pairs /\ pairs["pod"].namespace # "" /\ pairs["pod"].name # ""
                 THEN "k8s.namespace.name" :> pairs["pod"].namespace
                      @@ "k8s.pod.name" :> pairs["pod"].name
                 ELSE <<>>
        other == IF "k8s.pod.uid" \in DOMAIN attrs THEN <<>>
                 ELSE Named(pairs, "k8s.pod.uid" :> "podID")
    IN  named @@ known @@ other

\* klogProcessor.processLogRecord.  The text as it came is saved over any other.
Klog(cfg, rec) ==
    LET text  == BodyText(rec.body)
        lined == "log.level" :> text.level @@ "process.pid" :> text.pid
                 @@ "code.filepath" :> (text.file \o ":" \o text.line)
        named == KlogPod(text, rec.attrs) @@ Prefixed("log.", text.pairs) @@ lined
        shown == [form |-> "klog message", content |-> text.content,
                  shown |-> Named(text.pairs, "err" :> "err" @@ "realServer" :> "realServer")]
    IN  IF text.form # "klog" THEN rec
        ELSE [rec EXCEPT
                !.attrs = PutAll(Put(@, "original_message", text), named),
                !.sev   = IF cfg.adjustSeverity THEN KlogSeverity[text.level] ELSE @,
                !.body  = IF cfg.rewrite /\ text.content # Empty THEN shown ELSE @]
==============================================================================
