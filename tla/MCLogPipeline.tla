---------------------------- MODULE MCLogPipeline ----------------------------
(* Pipelines of the collectors, with batches that reach every format their       *)
(* processors know, and lines they do not.                                        *)
EXTENDS LogPipeline

MCBase ==
    "/usr/bin/containerd" :> "containerd" @@ "kafka.log.Cleaner" :> "Cleaner"
    @@ "rust_snuba::consumer" :> "consumer"
MCComponents ==
    "app-kafka-1" :> {"app", "kafka", "1"} @@ "site-charon" :> {"site", "charon"}
MCShort == "sw1.lan" :> "sw1" @@ "sw1.site" :> "sw1" @@ "sw1" :> "sw1" @@ "sw2" :> "sw2"
MCContainerIds == {"c1"}
MCImages == {"img:1"}
MCBare == "/health/" :> {"/health", "/health/"} @@ "/shop" :> {"/shop"}

------------------------------------------------------------------------------
(* Records and batches *)

Said(word) == [form |-> "plain", content |-> Empty, word |-> word]
Hello == Said("hello")

RecordOf(body, attrs) == [body |-> body, attrs |-> attrs, sev |-> Sev(0, ""), time |-> 0]
Line(text) == RecordOf(text, <<>>)
Group(res, recs) == [res |-> res, recs |-> recs]
LinesOf(texts) == [i \in DOMAIN texts |-> Line(texts[i])]

\* All records in one group, or each in a group of its own.
Together(res, recs) == <<Group(res, recs)>>
Apart(res, recs) == [i \in DOMAIN recs |-> Group(res, <<recs[i]>>)]

Service(name) == "service.name" :> name
Stage(proc, cfg) == "proc" :> proc @@ cfg
Route(pipeline, batches) == [stages |-> pipeline, batches |-> batches]

------------------------------------------------------------------------------
(* Network devices *)

SyslogOn  == Stage("syslog", [source |-> "message", setHostname |-> TRUE,
                              setServiceName |-> TRUE, mapSeverity |-> TRUE,
                              preserveOriginal |-> TRUE, cleanBody |-> TRUE])
SyslogNone == [SyslogOn EXCEPT !.setHostname = FALSE, !.setServiceName = FALSE,
                               !.mapSeverity = FALSE, !.preserveOriginal = FALSE,
                               !.cleanBody = FALSE]

CharonLine ==
    [form |-> "charon", thread |-> "07", component |-> "IKE", connection |-> "con1",
     seq |-> "4", content |-> Hello, ikeName |-> "con1", ikeNum |-> "4",
     ikeState |-> "ESTABLISHED"]
CharonPacket ==
    [form |-> "charon", thread |-> "08", component |-> "NET", content |-> Said("packet"),
     direction |-> "received", from |-> "10.0.0.2", fromPort |-> "500", to |-> "10.0.0.1",
     toPort |-> "500", size |-> "80"]
CharonSent == [CharonPacket EXCEPT !.direction = "sent"]
CharonProposal ==
    [form |-> "charon", thread |-> "09", component |-> "CFG", content |-> Said("selected"),
     proposal |-> "AES"]

RFC3164(host, app, pid, content) ==
    [form |-> "rfc3164", host |-> host, app |-> app, pid |-> pid, content |-> content]
RFC5424(host, app, pid, content) ==
    [form |-> "rfc5424", host |-> host, app |-> app, pid |-> pid, content |-> content]
CiscoIOS(severity, mnemonic, port) ==
    [form |-> "cisco ios", seq |-> "17", facility |-> "LINK", severity |-> severity,
     mnemonic |-> mnemonic, port |-> port, content |-> Said(mnemonic)]

Prioritised(text) == [form |-> "prioritised", content |-> text]

\* What the operators of tcp_log and udp_log leave of a line with a priority.
Received(priority, text, attrs) ==
    RecordOf(Prioritised(text), "message" :> text @@ "priority" :> {priority} @@ attrs)

SyslogRecords ==
    <<Received(30, RFC3164("fw1", "charon", "12", CharonLine), "net.peer.ip" :> "10.0.0.9"),
      Received(2, RFC5424("fw2", "-", "-", Hello), <<>>),
      Line(RFC3164("fw1", "", "", RFC5424("fw3", "nginx", "-", Hello))),
      RecordOf(CiscoIOS("5", "UPDOWN", "Gi1"), "priority" :> {8}),
      Received(15, Hello, <<>>),
      Received(12, RFC3164("fw1", "cron", "9", Empty), "original_message" :> Hello),
      Received(12, RFC3164("fw1", "cron", "9", Hello), "original_message" :> Said("first")),
      RecordOf(Hello, "message" :> CiscoIOS("5", "UPDOWN", "Gi1") @@ "priority" :> {}),
      RecordOf(Empty, "priority" :> {1}),
      Line([form |-> "map", fields |-> <<>>])>>

CharonOn == Stage("charonlog", [service |-> "charon", rewrite |-> TRUE])
CronOn   == Stage("cronlog", [rewrite |-> TRUE])

SyslogRoutes ==
    {Route(<<SyslogOn, CharonOn>>, {Apart(<<>>, SyslogRecords)}),
     Route(<<SyslogNone, CronOn>>, {Apart(<<>>, SyslogRecords)}),
     Route(<<CharonOn>>,
           {Together(Service("site-charon"),
                     LinesOf(<<CharonLine, CharonPacket, CharonSent, CharonProposal, Hello>>)),
            Together(Service("charon"), LinesOf(<<CharonPacket>>)),
            Together(<<>>, LinesOf(<<CharonLine>>))}),
     Route(<<[CharonOn EXCEPT !.rewrite = FALSE]>>,
           {Together(Service("charon"), LinesOf(<<CharonLine, CharonPacket>>))})}

Ports == "sw1.lan" :> ("Gi1" :> "uplink") @@ "sw2" :> ("Gi1" :> "printer")
         @@ "sw1.site" :> ("Gi1" :> "core" @@ "Gi2" :> "lab")

CiscoOn == Stage("ciscolog", [source |-> "original_message", setHostname |-> TRUE,
                              cleanBody |-> TRUE, adjustSeverity |-> TRUE, rewrite |-> TRUE,
                              ports |-> Ports])
CiscoOff == [CiscoOn EXCEPT !.setHostname = FALSE, !.cleanBody = FALSE,
                            !.adjustSeverity = FALSE, !.rewrite = FALSE]

CiscoText(severity, mnemonic, port) ==
    [form |-> "cisco", facility |-> "SYS", severity |-> severity, mnemonic |-> mnemonic,
     port |-> port]
Controller80211(content, severity) ==
    [form |-> "wlc", facility |-> "DOT1X", severity |-> severity, mnemonic |-> "AUTH",
     port |-> "", ap |-> "ap1", thread |-> "osapi", file |-> "auth.c", line |-> "12",
     clientAP |-> "ap1", radio |-> "1", wlan |-> "3", content |-> content]
HPSwitch(content) ==
    [form |-> "hp", host |-> "10.0.0.7", app |-> "AUTHMGR", pid |-> "3", file |-> "auth.c",
     line |-> "9", seq |-> "41", content |-> content]

From(device, text) ==
    RecordOf(Hello, "original_message" :> text @@ "net.peer.name" :> device)

CiscoRecords ==
    <<From("sw1.lan", Prioritised(CiscoText("5", "UPDOWN", "Gi1"))),
      From("sw1", CiscoText("4", "CONFIG_I", "Gi1")),
      From("sw1.lan", CiscoText("7", "POE_REMOVED", "Gi2")),
      From("sw9", CiscoIOS("9", "CONFIG_I", "Gi1")),
      From("sw2", CiscoText("2", "CONFIG_I", "")),
      From("wlc1", Controller80211(Hello, "3")),
      From("wlc1", Controller80211(Empty, "6")),
      From("hp1", HPSwitch(Hello)),
      From("hp1", HPSwitch(Empty)),
      From("hp1", Hello),
      Line(Prioritised(Hello)),
      Line(Empty),
      RecordOf(Hello, "cisco_facility" :> "SYS" @@ "cisco_mnemonic" :> "CONFIG_I"
                      @@ "cisco_severity" :> "1" @@ "original_message" :> CiscoIOS("1", "CONFIG_I", "Gi1"))>>

TransformSyslog == Stage("transform/syslog", <<>>)

\* What udp_log hands over: the records of all devices in one group.
Datagram(device, port) ==
    Received(189, CiscoIOS("5", "UPDOWN", port), "net.peer.name" :> device)

GatewayPipeline == <<TransformSyslog, CiscoOn>>
TwoDevices == Together(<<>>, <<Datagram("sw1.lan", "Gi1"), Datagram("sw2", "Gi1")>>)
OneDevice == Together(<<>>, <<Datagram("sw2", "Gi1"), Datagram("sw2", "Gi2")>>)

CiscoRoutes ==
    {Route(<<CiscoOn>>, {Apart(<<>>, CiscoRecords)}),
     Route(<<CiscoOff>>, {Apart(Service("switches") @@ "host.name" :> "sw2", CiscoRecords)}),
     Route(GatewayPipeline, {TwoDevices, OneDevice, Apart(<<>>, <<Line(Hello)>>)})}

Version4(n, proto, rest) ==
    [form |-> "filterlog",
     fields |-> SubSeq(<<"5", "", "", "99", "em0", "match", "block", "in", "4", "0", "",
                         "64", "1", "0", "none", "6", proto, "60", "10.0.0.1", "10.0.0.2">>
                       \o rest, 1, n)]
Version6(proto, rest) ==
    [form |-> "filterlog",
     fields |-> <<"5", "", "", "99", "em0", "match", "pass", "out", "6", "0", "", "64",
                  proto, "60", "::1", "::2">> \o rest]

FilterOn == Stage("filterlog", [source |-> "original_message", rewrite |-> TRUE])
FilterRecords ==
    <<Line(Version4(26, "tcp", <<"50", "443", "0", "S", "1", "2">>)),
      Line(Version4(23, "udp", <<"53", "53", "8">>)),
      Line(Version4(22, "icmp", <<"request", "7">>)),
      Line(Version4(19, "igmp", <<>>)),
      Line(Version4(18, "tcp", <<>>)),
      Line(Version4(17, "tcp", <<>>)),
      RecordOf(Hello, "original_message" :> Version6("tcp", <<"50", "443", "0", "S">>)),
      Line(Version6("ipv6-icmp", <<"echo", "7">>)),
      Line(Version6("Options", <<"a", "b">>)),
      Line([Version4(20, "tcp", <<>>) EXCEPT !.fields[9] = "5"]),
      Line(Hello)>>
FilterRoutes ==
    {Route(<<FilterOn>>, {Apart(<<>>, FilterRecords)}),
     Route(<<[FilterOn EXCEPT !.rewrite = FALSE]>>, {Apart(<<>>, FilterRecords)})}

------------------------------------------------------------------------------
(* Hosts *)

Journalled(fields) == Line([form |-> "map", fields |-> fields])
Unit(unit, priority, text) ==
    Journalled("_HOSTNAME" :> "node1" @@ "_MACHINE_ID" :> "m1" @@ "_PID" :> "77"
               @@ "_COMM" :> "cmd" @@ "_SYSTEMD_UNIT" :> unit @@ "PRIORITY" :> priority
               @@ "MESSAGE" :> text @@ "_TRANSPORT" :> "stdout")

JournaldOn == Stage("journald", [setResource |-> TRUE, mapSeverity |-> TRUE,
                                 bodyFromMessage |-> TRUE, splitResources |-> TRUE,
                                 keepFields |-> TRUE])
JournaldOff == Stage("journald", [setResource |-> FALSE, mapSeverity |-> FALSE,
                                  bodyFromMessage |-> FALSE, splitResources |-> TRUE,
                                  keepFields |-> FALSE])
JournaldShared == [JournaldOn EXCEPT !.splitResources = FALSE]

KernelOn == Stage("kernellog", [rewrite |-> TRUE, adjustSeverity |-> TRUE])
KernelOff == Stage("kernellog", [rewrite |-> FALSE, adjustSeverity |-> FALSE])

ClockSource == [form |-> "clocksource", content |-> Said("switched")]
SCSI(failed, sense) ==
    [form |-> "scsi", address |-> "2:0:0:0", device |-> "sda", failed |-> failed,
     sense |-> sense, addSense |-> "", content |-> Said("scsi")]
MediumError == [form |-> "medium error", device |-> "sda", sector |-> "9"]
IPVS(content) ==
    [form |-> "ipvs", scheduler |-> "rr", protocol |-> "TCP", destination |-> "10.0.0.1:80",
     content |-> content]
Interface(isDevice, isVeth, event) ==
    [form |-> "interface", device |-> "cni0", isDevice |-> isDevice, isVeth |-> isVeth,
     event |-> event]
Uptime(content) == [form |-> "uptime", uptime |-> "12.5", content |-> content]

KernelTexts ==
    <<Uptime(ClockSource), Uptime(Hello), SCSI(TRUE, ""), SCSI(FALSE, "Medium Error"),
      SCSI(FALSE, ""), MediumError, IPVS(Said("new")), IPVS([form |-> "no destination"]),
      [form |-> "ratelimit", count |-> "8"], ClockSource, CharonLine,
      Interface(TRUE, FALSE, "blocking"), Interface(TRUE, TRUE, "disabled"),
      Interface(TRUE, FALSE, "promiscuous enabled"),
      Interface(TRUE, FALSE, "promiscuous disabled"), Interface(TRUE, FALSE, "link up"),
      Interface(FALSE, FALSE, "blocking"), Hello>>

Command(run) ==
    [run |-> run, redirected |-> TRUE, parenthesised |-> FALSE, locked |-> TRUE]
CronCmd(form) == [form |-> form, user |-> "root", command |-> Command("backup")]
CronPam(event) == [form |-> "cron pam", user |-> "root", event |-> event]
RunParts(event) ==
    [form |-> "cron run-parts", dir |-> "hourly", command |-> Command("0anacron"),
     event |-> event]
CronTexts ==
    <<CronCmd("cron cmd"), CronCmd("cron cmdend"), CronPam("opened"), CronPam("closed"),
      CronPam("failed"), RunParts("starting"), RunParts("finished"),
      RFC3164("node1", "CROND", "9", CronCmd("cron cmd")),
      RFC3164("node1", "run-parts", "9", RunParts("starting")), Hello>>

JournalBatches ==
    {Together(<<>>, <<Unit("kernel", "3", SCSI(TRUE, "")), Unit("crond.service", "6", CronCmd("cron cmd")),
                      Line(Hello), Unit("kernel", "4", MediumError),
                      Unit("crond.service", "9", Hello)>>)
     \o Together(<<>>, <<Unit("kernel", "7", ClockSource), Unit("kernel", "0", Hello)>>),
     Together(<<>>, <<Journalled("MESSAGE" :> Hello), Journalled("_COMM" :> "[kernel]")>>)}

ContainerdOn == Stage("containerdlog", [service |-> "containerd.service", rewrite |-> TRUE,
                                        adjustSeverity |-> TRUE])
Shim(level, message, pairs) ==
    [form |-> "logrus", level |-> level, message |-> message, pairs |-> pairs, time |-> 3]
Told(kind, captures) == "form" :> kind @@ captures
ContainerdTexts ==
    <<Shim("info", Told("connecting to shim", "word" :> "c1"), "namespace" :> "k8s.io"),
      Shim("info", Told("connecting to shim", "word" :> "x"), <<>>),
      Shim("warning", Told("shim disconnected", <<>>), "id" :> "c1"),
      Shim("error", Told("StopPodSandbox", "forId" :> "c1"), "error" :> "gone"),
      Shim("info", Told("RunPodSandbox", "podName" :> "pod1" @@ "podUID" :> "u1"
                        @@ "podNamespace" :> "ns1" @@ "podAttempt" :> "0"
                        @@ "returnedId" :> "c1"), <<>>),
      Shim("info", Told("RunPodSandbox", "podName" :> "pod1" @@ "podNamespace" :> "ns1"), <<>>),
      Shim("info", Told("RunPodSandbox", <<>>), <<>>),
      Shim("info", Told("CreateContainer", "withinId" :> "c1" @@ "containerName" :> "web"), <<>>),
      Shim("info", Told("PullImage", "image" :> "img:1"), <<>>),
      Shim("info", Told("Pulled image", <<>>), "name" :> "img:1"),
      Shim("debug", Told("ImageUpdate", <<>>), "name" :> "other"),
      Shim("panic", Told("get state for", "word" :> "c1"), "error" :> "gone"),
      Shim("trace", Told("get state for", "word" :> "x"), <<>>),
      Shim("warn", Told("container event discarded", <<>>), "container" :> "c1" @@ "type" :> "exit"),
      Shim("notice", Told("something else", <<>>), "error" :> "gone"),
      Hello>>

KlogOn == Stage("klog", [service |-> "kubelet", rewrite |-> TRUE, adjustSeverity |-> TRUE])
KlogAll == Stage("klog", [service |-> "", rewrite |-> FALSE, adjustSeverity |-> FALSE])
KlogText(level, content, pairs) ==
    [form |-> "klog", level |-> level, pid |-> "12", file |-> "pod.go", line |-> "8",
     content |-> content, pairs |-> pairs]
KlogTexts ==
    <<KlogText("I", Hello, [pod |-> [namespace |-> "ns1", name |-> "pod1"],
                            podUID |-> "u1", containerName |-> "web"]),
      KlogText("E", Hello, [podID |-> "u2", err |-> "gone"]),
      KlogText("W", Empty, [pod |-> [namespace |-> "", name |-> "pod1"]]),
      KlogText("F", Hello, [realServer |-> "10.0.0.1", containerID |-> "c1"]), Hello>>

HostRoutes ==
    {Route(<<JournaldOn, KernelOn, CronOn>>, JournalBatches),
     Route(<<JournaldShared>>, JournalBatches),
     Route(<<JournaldOff, KernelOff>>, JournalBatches),
     Route(<<CronOn>>, {Together(<<>>, LinesOf(CronTexts))}),
     Route(<<CronOn>>, {Together(<<>>, <<Journalled("text" :> RunParts("starting"))>>)}),
     Route(<<[CronOn EXCEPT !.rewrite = FALSE]>>,
           {Together(<<>>, <<Journalled("text" :> RunParts("starting"))>>)}),
     Route(<<KernelOn>>, {Together("process.command" :> "[kernel]", LinesOf(KernelTexts)),
                          Together(Service("sshd"), LinesOf(KernelTexts))}),
     Route(<<KernelOff>>, {Together(Service("kernel"), LinesOf(KernelTexts))}),
     Route(<<ContainerdOn>>, {Together(Service("/usr/bin/containerd"), LinesOf(ContainerdTexts)),
                              Together(Service("containerd"), LinesOf(<<Hello>>)),
                              Together(<<>>, LinesOf(ContainerdTexts))}),
     Route(<<KlogOn>>, {Together("container.name" :> "kubelet", LinesOf(KlogTexts)),
                        Together(<<>>, LinesOf(KlogTexts))}),
     Route(<<KlogAll>>, {Together(<<>>, LinesOf(KlogTexts)
                                        \o <<RecordOf(KlogTexts[2], "k8s.pod.uid" :> "u9")>>)})}

------------------------------------------------------------------------------
(* Applications *)

AppOn(proc, service) ==
    Stage(proc, [service |-> service, extract |-> TRUE, adjustSeverity |-> TRUE,
                 rewrite |-> TRUE, source |-> "message", setServiceName |-> TRUE,
                 preserveOriginal |-> TRUE, parseTimestamp |-> TRUE])
AppOff(proc) ==
    Stage(proc, [service |-> "app", extract |-> FALSE, adjustSeverity |-> FALSE,
                 rewrite |-> FALSE, source |-> "log", setServiceName |-> FALSE,
                 preserveOriginal |-> FALSE, parseTimestamp |-> FALSE])
AppRoutes(proc, service, res, recs) ==
    {Route(<<AppOn(proc, service)>>, {Together(res, recs), Together(Service("other"), recs)}),
     Route(<<AppOff(proc)>>, {Together(Service("app"), recs)})}
ApartRoutes(proc, recs) ==
    {Route(<<AppOn(proc, proc)>>, {Apart(<<>>, recs), Apart(Service("other"), recs)}),
     Route(<<AppOff(proc)>>, {Apart(<<>>, recs)})}

\* A record whose text an edge collector has put into full_message.
FromEdge(text) == RecordOf(Empty, "full_message" :> text)

\* A record whose body is text, with other texts in the attributes a parser may take
\* instead or put in its place.
Beside(text, full, message) ==
    LET texts == "full_message" :> full @@ "message" :> message
    IN  RecordOf(text, Without(texts, {a \in DOMAIN texts : texts[a] = Empty}))

KafkaText(level, logger) ==
    [form |-> "kafka", level |-> level, content |-> Hello, logger |-> logger]
KafkaRecords ==
    LinesOf(<<KafkaText("INFO", "kafka.log.Cleaner"), KafkaText("FATAL", "Broker"),
              [form |-> "kafka header", level |-> "WARN", thread |-> "main"],
              [form |-> "kafka plain", level |-> "TRACE", content |-> Hello],
              [form |-> "kafka plain", level |-> "NOTICE", content |-> Empty], Hello>>)
    \o <<FromEdge(KafkaText("ERROR", "kafka.log.Cleaner")),
         RecordOf(KafkaText("DEBUG", "Broker"), "full_message" :> Hello)>>

PostgresText(level, content) ==
    [form |-> "postgres", pid |-> "31", level |-> level, content |-> content]
Constraint == [form |-> "constraint"]
PostgresRecords ==
    LinesOf(<<PostgresText("LOG", Hello), PostgresText("PANIC", Empty),
              PostgresText("ERROR", Constraint),
              "detail" :> "Key exists" @@ "hint" :> "" @@ PostgresText("ERROR", Constraint),
              "statement" :> "SELECT" @@ PostgresText("WARNING", Hello), Hello>>)
    \o <<FromEdge(PostgresText("DEBUG", Hello)),
         Beside(PostgresText("LOG", Hello), Said("full"), Empty)>>

RustText(level, target, content, fields) ==
    [form |-> "rust json", level |-> level, target |-> target, content |-> content,
     fields |-> fields]
SnubaRecords ==
    LinesOf(<<RustText("INFO", "rust_snuba::consumer", Hello, "storage" :> "errors" @@ "offset" :> "9"),
              RustText("ERROR", "consumer", Empty, <<>>), RustText("WARN", "", Hello, <<>>),
              RustText("", "consumer", Hello, <<>>),
              [form |-> "python", content |-> Hello], Hello>>)
    \o <<FromEdge([form |-> "python", content |-> Hello]),
         Beside([form |-> "python", content |-> Hello], Said("full"), Empty)>>

UvicornText(code) ==
    [form |-> "uvicorn", ip |-> "10.0.0.3", address |-> "10.0.0.3:99", port |-> "99",
     method |-> "GET", path |-> "/shop", query |-> "", version |-> "1.1", code |-> code,
     statusText |-> "text"]
UvicornRecords ==
    LinesOf(<<UvicornText(200), UvicornText(404), UvicornText(503), Hello>>)
    \o <<FromEdge(UvicornText(302)), Beside(UvicornText(200), Said("full"), Empty)>>

Agent(name, browsers, systems, marks) ==
    [form |-> "agent", name |-> name, version |-> "1", browsers |-> browsers,
     systems |-> systems, marks |-> marks]
Browser == Agent("Mozilla", "Safari" :> "5" @@ "Chrome" :> "120", {"Linux", "Android"}, {"mobile"})
Prober == Agent("kube-probe", <<>>, {}, {})
NginxText(code, path, agent, time) ==
    [form |-> "nginx", address |-> "10.0.0.4", user |-> "", method |-> "GET", path |-> path,
     query |-> "", version |-> "1.1", code |-> code, bytes |-> "12", referer |-> "",
     agent |-> agent, forwarded |-> "10.0.0.5", time |-> time]
NginxTexts ==
    <<NginxText(200, "/shop", Browser, 4), NginxText(404, "/x", [form |-> "dash"], 5),
      NginxText(500, "/shop", Empty, 0), NginxText(302, "/health/", Prober, 6)>>
NginxRecords ==
    LinesOf(NginxTexts \o <<[form |-> "wrapped", content |-> NginxTexts[1]],
                            [form |-> "wrapped", content |-> Hello], Hello>>)
    \o <<RecordOf(NginxTexts[2], "message" :> NginxTexts[2]),
         Beside(Hello, Empty, NginxTexts[1])>>

PgBouncerText(level, time) ==
    [form |-> "pgbouncer", level |-> level, pid |-> "8", connection |-> "0x1", port |-> "54",
     address |-> "10.0.0.6", content |-> Hello, time |-> time]
PgBouncerRecords ==
    LinesOf(<<PgBouncerText("LOG", 2), PgBouncerText("PANIC", 0),
              "database" :> "shop" @@ "user" :> "web" @@ PgBouncerText("ERROR", 2), Hello>>)
    \o <<RecordOf(Empty, "message" :> PgBouncerText("WARNING", 2)),
         Beside(Hello, Empty, PgBouncerText("LOG", 2))>>

RedisText(role, level) ==
    [form |-> "redis", pid |-> "1", role |-> role, level |-> level, content |-> Hello]
RedisRecords ==
    LinesOf(<<RedisText("M", "*"), RedisText("S", "#"), RedisText("C", "."),
              RedisText("X", "-"), Hello>>)
    \o <<RecordOf(RedisText("M", "*"), "full_message" :> RedisText("M", "*")),
         Beside(RedisText("M", "*"), Said("full"), Empty),
         Beside(Hello, Said("full"), RedisText("S", "#"))>>

SentryText(pairs) ==
    [form |-> "sentry", level |-> "ERROR", logger |-> "api", type |-> "api.access",
     pairs |-> pairs]
SentryRecords ==
    LinesOf(<<SentryText("response" :> "200" @@ "method" :> "GET" @@ "path" :> "/api"
                         @@ "view" :> "View"), SentryText(<<>>),
              [form |-> "sentry simple", level |-> "NOTICE", logger |-> "api", content |-> Hello],
              Hello>>)
    \o <<RecordOf(SentryText(<<>>), "full_message" :> SentryText(<<>>)),
         Beside(SentryText(<<>>), Said("full"), Empty),
         Beside(Hello, Said("full"), SentryText(<<>>))>>

Tasks(failed) == "completed" :> 2 @@ "failed" :> failed
NoTasks == "completed" :> 0 @@ "failed" :> 0
TektonEvent(content, stats) ==
    [form |-> "tekton event", type |-> "Normal", reason |-> "Running", kind |-> "TaskRun",
     namespace |-> "ci", name |-> "run1", uid |-> "u7", apiVersion |-> "v1",
     stats |-> stats, content |-> content]
TektonRecords ==
    LinesOf(<<TektonEvent([form |-> "tasks"], Tasks(1)), TektonEvent(Hello, NoTasks),
              TektonEvent([form |-> "tasks"], NoTasks),
              [form |-> "tekton status", resource |-> "PipelineRun", name |-> "run1",
               status |-> "Failed", statusReason |-> "Timeout", stats |-> Tasks(0)], Hello>>)

ZapJSON(level, message, pairs) ==
    [form |-> "zap json", level |-> level, message |-> message, action |-> Said("action"),
     pairs |-> pairs, time |-> 7]
ZapConsole(pairs) ==
    [form |-> "zap console", level |-> "error", caller |-> "main.go:3", message |-> Hello,
     pairs |-> pairs, time |-> 0]
LogrusRecords ==
    LinesOf(<<ZapJSON("info", Hello, "controller" :> "pods" @@ "caller" :> "a.go" @@ "error" :> "gone"),
              ZapJSON("", Empty, <<>>), ZapJSON("fatal", Hello, "stacktrace" :> "at"),
              Shim("warning", Hello, "error" :> "gone" @@ "stacktrace" :> "at"),
              Shim("nonsense", Empty, <<>>),
              ZapConsole("resource" :> "r" @@ "error" :> "gone" @@ "key" :> "v"),
              ZapConsole(<<>>), Hello>>)

ApplicationRoutes ==
    AppRoutes("kafkalog", "kafka", "container.name" :> "app-kafka-1", KafkaRecords)
    \cup AppRoutes("postgreslog", "postgres", Service("postgres"), PostgresRecords)
    \cup AppRoutes("snubalog", "snuba", Service("snuba"), SnubaRecords)
    \cup AppRoutes("uvicornlog", "web", "k8s.container.name" :> "web", UvicornRecords)
    \cup AppRoutes("tektonlog", "tekton", "container.name" :> "tekton-pipelines-webhook",
                   TektonRecords)
    \cup AppRoutes("logruslog", "operator", Service("operator"), LogrusRecords)
    \cup {Route(<<AppOn("logruslog", "")>>, {Together(<<>>, LogrusRecords)})}
    \cup ApartRoutes("nginxlog", NginxRecords)
    \cup ApartRoutes("pgbouncerlog", PgBouncerRecords)
    \cup ApartRoutes("redislog", RedisRecords)
    \cup ApartRoutes("sentrylog", SentryRecords)

------------------------------------------------------------------------------
(* Objects *)

Object(format, fields, containers) ==
    Line([form |-> "map", format |-> format, action |-> "ADDED", fields |-> fields,
          containers |-> containers])
EventFields(type) ==
    "kind" :> "Event" @@ "type" :> type @@ "reason" :> "BackOff" @@ "note" :> Hello
    @@ "regarding.kind" :> "Pod" @@ "regarding.name" :> "pod1"
    @@ "regarding.namespace" :> "ns1" @@ "deprecatedSource.component" :> "kubelet"
    @@ "metadata.namespace" :> "ns1" @@ "metadata.name" :> "event1"
OlderFields ==
    "kind" :> "Event" @@ "type" :> "Other" @@ "involvedObject.kind" :> "Node"
    @@ "involvedObject.name" :> "node1" @@ "message" :> Hello
    @@ "source.component" :> "scheduler"
PodFields(state) ==
    "kind" :> "Pod" @@ "metadata.name" :> "pod1" @@ "metadata.namespace" :> "ns1"
    @@ "metadata.uid" :> "u1" @@ "spec.nodeName" :> "node1" @@ "status.phase" :> state
Container(restarts, ready, state, code) ==
    [restarts |-> restarts, ready |-> ready, state |-> state, exitCode |-> code]

ObjectRecords ==
    <<Object("structured", EventFields("Warning"), {}),
      Object("object", EventFields("Normal"), {}),
      Object("self", OlderFields, {}),
      [Object("self", OlderFields, {}) EXCEPT !.attrs = "k8s.event.source" :> "edge"],
      Object("structured", "kind" :> "Event", {}),
      Object("structured", PodFields("Running"),
             {<<Container(2, TRUE, "running", ""), Container(1, FALSE, "terminated", "1")>>}),
      Object("structured", PodFields("Failed"), {<<Container(0, FALSE, "terminated", "137")>>}),
      Object("object", PodFields("Pending"), {<<Container(0, FALSE, "waiting", "")>>}),
      Object("object", "kind" :> "Pod", {<<>>}),
      Object("object", "kind" :> "Node", {}),
      Object("self", PodFields("Running"), {}),
      Line(Hello)>>

K8sEventOn(parity) ==
    Stage("k8sevent", [adjustSeverity |-> ~parity, rewrite |-> ~parity, parity |-> parity])

XML(hasKeywords, auditFailure, size) ==
    [form |-> "xml", hasKeywords |-> hasKeywords, auditFailure |-> auditFailure, size |-> size]
WindowsEvent(id, keywords, level, fields, attrs) ==
    RecordOf([form |-> "map", keywords |-> keywords, level |-> level, data |-> "LogonType" :> "3",
              fields |-> "event_id.id" :> id @@ "provider.name" :> "Audit"
                         @@ "channel" :> "Security" @@ fields], attrs)
WindowsRecords ==
    <<WindowsEvent("4625", {"Audit Failure"}, 0, "message" :> Hello, <<>>),
      WindowsEvent("4634", {"Audit Success"}, 0, <<>>, <<>>),
      WindowsEvent("41", {}, 1, <<>>, "log.record.original" :> XML(TRUE, FALSE, 3)),
      WindowsEvent("42", {"Audit Failure"}, -1, <<>>, "log.record.original" :> XML(TRUE, FALSE, 9)),
      [WindowsEvent("43", {}, -1, <<>>, "log.record.original" :> XML(FALSE, FALSE, 9))
         EXCEPT !.sev = Sev(9, "digits")],
      WindowsEvent("44", {}, 3, <<>>, "log.record.original" :> XML(TRUE, TRUE, 1)),
      WindowsEvent("4634", {}, 4, "channel" :> "", <<>>),
      Line(Hello)>>
WinlogOn == Stage("winlog", [drops |-> {"4634"}, maxOriginal |-> 5])
WinlogAll == Stage("winlog", [drops |-> {}, maxOriginal |-> 0])
ResourceVersion(role) == Stage("resourceversion", [role |-> role, version |-> "v1"])

SnoozeOn == Stage("snoozelog", [match |-> {<<"shop", "worker">>}])
SnoozeText(level) == [form |-> "snooze", level |-> level, content |-> Hello]
Worker == "k8s.namespace.name" :> "shop" @@ "k8s.container.name" :> "worker"
SnoozeRecords ==
    LinesOf(<<SnoozeText("WARN"), SnoozeText("ETC"),
              "rest" :> Said("trace") @@ SnoozeText("CRITICAL"), Hello>>)

ObjectRoutes ==
    {Route(<<K8sEventOn(parity)>>, {Together(<<>>, ObjectRecords)}) : parity \in BOOLEAN}
    \cup {Route(<<WinlogOn, ResourceVersion("edge")>>,
                {<<Group("host.name" :> "w1", WindowsRecords),
                   Group("host.name" :> "w2", <<WindowsRecords[2]>>)>>,
                 Together(<<>>, <<WindowsRecords[2]>>)}),
          Route(<<WinlogAll>>, {Together(<<>>, WindowsRecords)}),
          Route(<<SnoozeOn>>, {Together(Worker, SnoozeRecords),
                               Together("k8s.namespace.name" :> "shop", SnoozeRecords)})}

Envelope(class, captures) ==
    [ours |-> TRUE, account |-> "1", region |-> "us", time |-> 9,
     detail |-> "form" :> "auth0 detail" @@ captures
                @@ "data" :> ("class" :> class @@ "type" :> "s" @@ "date" :> 8 @@ "userName" :> "")]
Events ==
    <<Envelope("f", "logId" :> "log1"), Envelope("s", "description" :> Hello),
      [Envelope("w", <<>>) EXCEPT !.detail.data = Put(@, "date", 0)],
      [Envelope("s", <<>>) EXCEPT !.detail.data = <<>>],
      [Envelope("s", <<>>) EXCEPT !.ours = FALSE],
      [Envelope("s", <<>>) EXCEPT !.detail = Hello]>>

MCFeeds == {[stages |-> <<ResourceVersion("gateway")>>, polls |-> {Events, SubSeq(Events, 4, 6)}]}

------------------------------------------------------------------------------
(* Records of any kind *)

MAC(first) == [first |-> first, rest |-> "11:22"]
Address(kind, value) == [kind |-> kind, value |-> value, excluded |-> FALSE]
Found(addresses) == [form |-> "plain", content |-> Empty, word |-> "with", addresses |-> addresses]
Lease == Found(<<Address("dotted", MAC(1)), Address("colon", MAC(4)), Address("eui64", MAC(6)),
                 Address("eui64", MAC(1)), Address("v4", "10.0.0.1"), Address("v6", "fe80::1"),
                 [Address("v4", "127.0.0.1") EXCEPT !.excluded = TRUE]>>)
SearchOn(proc, target, all) ==
    Stage(proc, [searchBody |-> TRUE, search |-> <<"original_message", "message">>,
                 target |-> target, extractAll |-> all, ipv6 |-> all])
AssetsOn ==
    Stage("assetdb", [source |-> "client.mac",
                      assets |-> <<[mac |-> MAC(4), hostname |-> "old", location |-> "hall"],
                                   [mac |-> MAC(4), hostname |-> "laptop", location |-> ""]>>])
LeaseRecords ==
    <<Line(Lease), Line(Found(<<Address("dash", MAC(4))>>)), Line(Hello),
      RecordOf([form |-> "tagged", content |-> Lease], <<>>),
      RecordOf(Hello, "message" :> Found(<<Address("colon", MAC(9))>>)),
      Journalled("MESSAGE" :> Lease @@ "text" :> Hello)>>

ProbeOn(keep) ==
    Stage("healthprobe", [enabled |-> TRUE, keep |-> keep, paths |-> {"/health"},
                          agents |-> {"kube-probe"},
                          statusAttr |-> "http.response.status_code", pathAttr |-> "url.path",
                          agentAttr |-> "user_agent.original"])
ProbeOff == [ProbeOn("none") EXCEPT !.enabled = FALSE]

EnrichmentRoutes ==
    {Route(<<SearchOn("macextractor", "client.mac", all), SearchOn("ipextractor", "client.ip", all),
             AssetsOn, ResourceVersion("edge"), ResourceVersion("gateway")>>,
           {Together(<<>>, LeaseRecords)}) : all \in BOOLEAN}
    \cup {Route(<<AppOn("nginxlog", "nginx"), ProbeOn(keep)>>,
                {Apart(<<>>, LinesOf(NginxTexts)), Apart(<<>>, LinesOf(<<NginxTexts[4]>>))}) :
             keep \in {"all", "none", "some"}}
    \cup {Route(<<AppOn("nginxlog", "nginx"), ProbeOff>>, {Apart(<<>>, LinesOf(NginxTexts))})}

MCRoutes ==
    SyslogRoutes \cup CiscoRoutes \cup FilterRoutes \cup HostRoutes \cup ApplicationRoutes
    \cup ObjectRoutes \cup EnrichmentRoutes
GatewayRoutes == {Route(GatewayPipeline, {OneDevice, TwoDevices})}
==============================================================================
