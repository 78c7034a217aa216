-------------------------------- MODULE AppLogs --------------------------------
(***************************************************************************)
(* The processors of applications' logs.  Kafka, Postgres, Snuba, Uvicorn, *)
(* Logrus and Tekton ask the resource whether a record is theirs and leave *)
(* it alone.  Nginx, PgBouncer, Redis and Sentry take every record of      *)
(* their form and name its service where the resource does not.            *)
(* A message is a text, an error or a name a string.                       *)
(***************************************************************************)
EXTENDS LogRecord

\* A logger, module or class without the path before it.
ShortName(name) == IF name \in DOMAIN Base THEN Base[name] ELSE name

\* The body, or what an edge collector left in full_message.
BodyOrFull(rec) ==
    LET text == BodyText(rec.body)
    IN  IF text # Empty THEN text ELSE TextAt(rec.attrs, "full_message")

\* The source attribute, or the body.
SourceText(cfg, rec) ==
    LET text == TextAt(rec.attrs, cfg.source)
    IN  IF text # Empty THEN text ELSE BodyText(rec.body)

\* Every text with a level the table does not name is information.
LevelSeverity(table, level) == IF level \in DOMAIN table THEN table[level] ELSE INFO

Levels ==
    "TRACE" :> TRACE @@ "DEBUG" :> DEBUG @@ "INFO" :> INFO
    @@ [level \in {"WARN", "WARNING"} |-> WARN]
    @@ "ERROR" :> ERROR @@ [level \in {"FATAL", "CRITICAL"} |-> FATAL]

StatusSeverity(code) ==
    CASE code >= 500 -> ERROR
      [] code >= 400 /\ code < 500 -> WARN
      [] OTHER -> INFO

Rated(rec, adjust, sev) == IF adjust THEN [rec EXCEPT !.sev = sev] ELSE rec

\* A time that cannot be parsed is 0.
Timed(rec, parse, text) ==
    IF parse /\ text.time # 0 THEN [rec EXCEPT !.time = text.time] ELSE rec

\* The text as it came takes the place of any saved before it, and full_message goes.
Saved(rec, text) ==
    [rec EXCEPT !.attrs = Without(Put(@, "original_message", text), {"full_message"})]

\* The attribute full_message becomes original_message.
Renamed(rec) ==
    IF "full_message" \in DOMAIN rec.attrs
    THEN Saved(rec, rec.attrs["full_message"]) ELSE rec

\* A resource gets a service only where it has none.
NamedService(cfg, res) ==
    IF cfg.setServiceName THEN PutNew(res, "service.name", cfg.service) ELSE res

Kept(cfg, rec, text) ==
    IF cfg.preserveOriginal THEN SetAttrs(rec, "original_message" :> text) ELSE rec

\* A message behind the name of what wrote it.
Tagged(tag, content) == [form |-> "tagged", tag |-> tag, content |-> content]

------------------------------------------------------------------------------
(* kafkalogprocessor *)

ContainerKeys == {"service.name", "container.name"}
PodKeys == ContainerKeys \cup {"k8s.container.name"}

\* ParseKafkaLog: a header of more lines has its thread as message and logger, a
\* line without a logger only its message.
KafkaLogger(text) ==
    CASE text.form = "kafka" -> text.logger
      [] text.form = "kafka header" -> text.thread
      [] OTHER -> ""

KafkaMessage(text) ==
    IF text.form = "kafka header" THEN [form |-> "thread", name |-> text.thread]
    ELSE text.content

\* kafkaLogProcessor.processLogRecord, of a record of Kafka's.
Kafka(cfg, rec) ==
    LET text    == BodyOrFull(rec)
        logger  == KafkaLogger(text)
        message == KafkaMessage(text)
        named   == IF cfg.extract THEN NonEmpty("kafka.logger" :> logger) ELSE <<>>
    IN  IF text.form \notin {"kafka", "kafka header", "kafka plain"} THEN rec
        ELSE Rewritten(Rated(SetAttrs(Saved(rec, text), named), cfg.adjustSeverity,
                             LevelSeverity(Levels, text.level)),
                       cfg.rewrite,
                       IF logger = "" THEN message ELSE Tagged(ShortName(logger), message))

------------------------------------------------------------------------------
(* postgreslogprocessor *)

PostgresLevels ==
    "DEBUG" :> DEBUG @@ "WARNING" :> WARN @@ "ERROR" :> ERROR
    @@ [level \in {"FATAL", "PANIC"} |-> FATAL]

\* BuildCleanedMessage: a violated constraint is shown with its detail.
PostgresMessage(text) ==
    IF text.content.form = "constraint" /\ Str(text, "detail") # ""
    THEN [form |-> "detailed", tag |-> text.level, content |-> text.content,
          detail |-> text.detail]
    ELSE Tagged(text.level, text.content)

\* postgresLogProcessor.processLogRecord, of a record of Postgres'.  A detail or a
\* statement that comes without its message is left as it is.
Postgres(cfg, rec) ==
    LET text    == BodyOrFull(rec)
        details == Named(text, "postgres.detail" :> "detail"
                               @@ "postgres.statement" :> "statement"
                               @@ "postgres.hint" :> "hint" @@ "postgres.context" :> "context")
        named   == "process.pid" :> text.pid @@ (IF cfg.extract THEN details ELSE <<>>)
        rated   == Rated(SetAttrs(Saved(rec, text), named), cfg.adjustSeverity,
                         LevelSeverity(PostgresLevels, text.level))
    IN  IF text.form # "postgres" THEN rec
        ELSE IF text.content = Empty THEN rated
             ELSE Rewritten(rated, cfg.rewrite, PostgresMessage(text))

------------------------------------------------------------------------------
(* snubalogprocessor *)

\* ParseSnubaLog: JSON without a level is no log of Snuba's, and the target stands
\* in for a message that is missing.
SnubaMessage(text) ==
    IF text.form = "rust json" /\ text.content = Empty /\ text.target # ""
    THEN [form |-> "target", name |-> text.target] ELSE text.content

\* snubaLogProcessor.processLogRecord, of a record of Snuba's.
Snuba(cfg, rec) ==
    LET text    == BodyOrFull(rec)
        json    == text.form = "rust json"
        message == SnubaMessage(text)
        more    == IF ~json THEN <<>>
                   ELSE NonEmpty((IF cfg.extract
                                  THEN "snuba.target" :> text.target
                                       @@ "snuba.storage" :> Str(text.fields, "storage")
                                  ELSE <<>>))
                        @@ Prefixed("snuba.field.", Without(text.fields, {"storage"}))
        format  == "snuba.format" :> (IF json THEN "rust_tracing" ELSE "python")
        clean   == IF json /\ text.target # "" /\ message # Empty
                   THEN Tagged(ShortName(text.target), message) ELSE message
        saved   == Renamed(SetAttrs(rec, "original_message" :> text))
    IN  IF ~json /\ text.form # "python" THEN rec
        ELSE IF json /\ text.level = "" THEN rec
             ELSE Rewritten([SetAttrs(saved, format @@ more) EXCEPT
                               !.sev = IF json THEN LevelSeverity(Levels, text.level) ELSE INFO],
                            cfg.rewrite, clean)

------------------------------------------------------------------------------
(* uvicornlogprocessor *)

Request(text) ==
    [form |-> "request", code |-> text.code, method |-> Str(text, "method"),
     path |-> text.path, query |-> Str(text, "query")]

\* What a text says of an HTTP request.
RequestAttrs(text) ==
    Named(text, "http.request.method" :> "method" @@ "url.path" :> "path"
                @@ "url.query" :> "query" @@ "network.protocol.version" :> "version")
    @@ (IF "version" \in DOMAIN text THEN "network.protocol.name" :> "http" ELSE <<>>)
    @@ (IF text.code > 0 THEN "http.response.status_code" :> text.code ELSE <<>>)

\* uvicornLogProcessor.processLogRecord, of a record of Uvicorn's.
Uvicorn(cfg, rec) ==
    LET text == BodyOrFull(rec)
        http == RequestAttrs(text)
                @@ Named(text, "client.ip" :> "ip" @@ "client.address" :> "address"
                               @@ "client.port" :> "port"
                               @@ "http.response.status_text" :> "statusText")
    IN  IF text.form # "uvicorn" THEN rec
        ELSE Rewritten(Rated(SetAttrs(Saved(rec, text), IF cfg.extract THEN http ELSE <<>>),
                             cfg.adjustSeverity, StatusSeverity(text.code)),
                       cfg.rewrite, Request(text))

------------------------------------------------------------------------------
(* nginxlogprocessor *)

BrowserOrder ==
    <<"Chrome", "Firefox", "Safari", "Edge", "Internet Explorer", "Opera", "Sentry SDK",
      "curl", "Python Requests", "Go HTTP Client", "Axios">>

SystemOrder == <<"Windows", "macOS", "Linux", "Android", "iOS", "iPadOS">>

FirstOf(order, found) ==
    LET at == {i \in DOMAIN order : order[i] \in found}
    IN  IF at = {} THEN "" ELSE order[CHOOSE i \in at : \A j \in at : i <= j]

\* ParseUserAgent.  An agent names several browsers and systems, with the version
\* of each browser; the first that is listed is taken, else the agent's own name.
UserAgent(agent) ==
    LET browser == FirstOf(BrowserOrder, DOMAIN agent.browsers)
        device  == FirstOf(<<"bot", "mobile", "tablet">>, agent.marks)
        none    == browser = ""
    IN  NonEmpty(
          "user_agent.name" :> (IF none THEN agent.name ELSE browser)
          @@ "user_agent.version" :> (IF none THEN agent.version ELSE agent.browsers[browser])
          @@ "os.name" :> FirstOf(SystemOrder, agent.systems)
          @@ "device.type" :> (IF device = "" THEN "desktop" ELSE device))

\* ParseNginxLog takes a line out of the object it may be wrapped in.
NginxLine(text) == IF text.form = "wrapped" THEN text.content ELSE text

\* logsProcessor.processLogRecord: the line as it came is always saved.
Nginx(cfg, res, rec) ==
    LET source == SourceText(cfg, rec)
        text   == NginxLine(source)
        agent  == IF text.agent.form = "agent" THEN UserAgent(text.agent) ELSE <<>>
        named  == RequestAttrs(text) @@ agent
                  @@ Named(text, "client.address" :> "address"
                                 @@ "http.request.header.referer" :> "referer"
                                 @@ "network.forwarded_for" :> "forwarded"
                                 @@ "enduser.id" :> "user"
                                 @@ "http.response.body.bytes" :> "bytes")
                  @@ (IF text.agent = Empty THEN <<>>
                      ELSE "user_agent.original" :> text.agent)
    IN  IF text.form # "nginx" THEN Outcome(res, rec)
        ELSE Outcome(NamedService(cfg, res),
               [Timed(SetAttrs(rec, named @@ "original_message" :> source),
                      cfg.parseTimestamp, text)
                  EXCEPT !.sev = StatusSeverity(text.code), !.body = Request(text)])

------------------------------------------------------------------------------
(* pgbouncerlogprocessor *)

PgBouncerLevels ==
    "DEBUG" :> DEBUG @@ "WARNING" :> WARN @@ "ERROR" :> ERROR
    @@ "FATAL" :> FATAL @@ "PANIC" :> Sev(23, "FATAL")

\* logsProcessor.processLogRecord
PgBouncer(cfg, res, rec) ==
    LET text  == SourceText(cfg, rec)
        named == Named(text, "process.pid" :> "pid" @@ "pgbouncer.connection_id" :> "connection"
                             @@ "db.name" :> "database" @@ "db.user" :> "user"
                             @@ "client.address" :> "address" @@ "client.port" :> "port"
                             @@ "pgbouncer.level" :> "level")
        shown == IF {"database", "user"} \subseteq DOMAIN text
                 THEN [form |-> "of database", database |-> text.database,
                       user |-> text.user, content |-> text.content]
                 ELSE text.content
    IN  IF text.form # "pgbouncer" THEN Outcome(res, rec)
        ELSE Outcome(NamedService(cfg, res),
               [Timed(SetAttrs(Kept(cfg, rec, text), named), cfg.parseTimestamp, text)
                  EXCEPT !.sev = LevelSeverity(PgBouncerLevels, text.level), !.body = shown])

------------------------------------------------------------------------------
(* redislogprocessor *)

RedisRoles == "M" :> "master" @@ "S" :> "slave" @@ "C" :> "child" @@ "X" :> "sentinel"

RedisLevels == "." :> "debug" @@ "-" :> "verbose" @@ "*" :> "notice" @@ "#" :> "warning"

RedisSeverity == "." :> DEBUG @@ "-" :> DEBUG @@ "*" :> INFO @@ "#" :> WARN

\* logsProcessor.processLogRecord.  What full_message holds is saved even over the
\* text that PreserveOriginal has saved just before.
Redis(cfg, res, rec) ==
    LET text  == SourceText(cfg, rec)
        role  == RedisRoles[text.role]
        named == "redis.pid" :> text.pid @@ "redis.role" :> role
                 @@ "redis.level" :> RedisLevels[text.level]
    IN  IF text.form # "redis" THEN Outcome(res, rec)
        ELSE Outcome(NamedService(cfg, res),
               Rewritten(SetAttrs(Renamed(Rated(Kept(cfg, rec, text), cfg.adjustSeverity,
                                                RedisSeverity[text.level])), named),
                         cfg.rewrite, Tagged(role, text.content)))

------------------------------------------------------------------------------
(* sentrylogprocessor *)

\* buildCleanedMessage: a line with pairs shows the request if it has one, else
\* the type of the message.
SentryMessage(text) ==
    LET pairs == text.pairs
    IN  CASE text.form = "sentry simple" -> text.content
          [] text.form = "sentry" /\ {"response", "method", "path"}
                                     \subseteq DOMAIN NonEmpty(pairs) ->
               [form |-> "sentry request", response |-> pairs["response"],
                method |-> pairs["method"], path |-> pairs["path"]]
          [] OTHER -> [form |-> "message type", name |-> text.type]

\* logsProcessor.processLogRecord, for lines of 30 characters and more: a shorter
\* line that starts with a time makes the code slice behind its end.
Sentry(cfg, res, rec) ==
    LET text  == SourceText(cfg, rec)
        http  == IF cfg.extract /\ text.form = "sentry"
                 THEN Named(text.pairs,
                        "http.request.method" :> "method" @@ "url.path" :> "path"
                        @@ "http.response.status_code" :> "response"
                        @@ "client.address" :> "caller_ip"
                        @@ "user_agent.original" :> "user_agent"
                        @@ "http.request.duration" :> "request_duration_seconds"
                        @@ "sentry.view" :> "view")
                 ELSE <<>>
        named == Named(text, "sentry.logger" :> "logger" @@ "sentry.message_type" :> "type"
                             @@ "sentry.level" :> "level")
    IN  IF text.form \notin {"sentry", "sentry simple"} THEN Outcome(res, rec)
        ELSE Outcome(NamedService(cfg, res),
               [SetAttrs(Renamed(Kept(cfg, rec, text)), http @@ named) EXCEPT
                  !.sev = LevelSeverity(Levels, text.level), !.body = SentryMessage(text)])

------------------------------------------------------------------------------
(* tektonlogprocessor *)

\* matchesServiceName: names are compared whole.
TektonService(cfg, res) ==
    /\ cfg.service # ""
    /\ \/ Str(res, "service.name") = cfg.service
       \/ \E key \in {"container.name", "k8s.container.name"} \cap DOMAIN res :
            res[key] \in {cfg.service, "tekton-pipelines-controller",
                          "tekton-pipelines-webhook"}

AnyTask(stats) == \E kind \in DOMAIN stats : stats[kind] > 0

TaskAttrs(stats) == IF AnyTask(stats) THEN Prefixed("tekton.tasks.", stats) ELSE <<>>

\* buildEventMessage, buildStatusMessage: the tasks, or what an event says instead.
TektonMessage(text) ==
    [form  |-> "tekton message",
     about |-> Named(text, [f \in {"kind", "namespace", "name", "type", "reason",
                                   "resource", "status"} |-> f]),
     tasks |-> IF AnyTask(text.stats) THEN text.stats ELSE <<>>,
     extra |-> IF text.form = "tekton event" /\ ~AnyTask(text.stats)
                  /\ text.content.form # "tasks"
               THEN text.content ELSE Empty]

\* tektonLogProcessor.processLogRecord, of a record of Tekton's.
Tekton(cfg, rec) ==
    LET text   == BodyText(rec.body)
        event  == "tekton.event.type" :> "type" @@ "tekton.event.reason" :> "reason"
                  @@ "tekton.object.kind" :> "kind" @@ "tekton.object.namespace" :> "namespace"
                  @@ "tekton.object.name" :> "name" @@ "tekton.object.uid" :> "uid"
                  @@ "tekton.object.api_version" :> "apiVersion"
        status == "tekton.resource.type" :> "resource" @@ "tekton.resource.name" :> "name"
                  @@ "tekton.status" :> "status" @@ "tekton.status.reason" :> "statusReason"
        table  == IF text.form = "tekton event" THEN event ELSE status
    IN  IF text.form \notin {"tekton event", "tekton status"} THEN rec
        ELSE Rewritten(SetAttrs(rec, Named(text, table) @@ TaskAttrs(text.stats)),
                       cfg.rewrite, TektonMessage(text))

------------------------------------------------------------------------------
(* logruslogprocessor *)

LogrusLevels ==
    "trace" :> TRACE @@ "debug" :> DEBUG @@ "info" :> INFO
    @@ [level \in {"warn", "warning"} |-> WARN]
    @@ "error" :> ERROR @@ [level \in {"fatal", "panic"} |-> FATAL]

LogrusForms == {"zap json", "logrus", "zap console"}

\* ParseLogrusJSON, ParseLogrusText, ParseZapConsole: the same fields from a JSON
\* object, from pairs or from columns with an object behind them.  Only a JSON
\* object without a message is given what it did as one.
LogrusInfo(text) ==
    LET pairs == text.pairs
        own   == CASE text.form = "zap json" ->
                        {"caller", "controller", "error", "stacktrace"}
                   [] text.form = "logrus" -> {"caller", "error"}
                   [] text.form = "zap console" -> {"error", "stacktrace"}
        named == Named(Without(pairs, DOMAIN pairs \ own),
                    "code.filepath" :> "caller" @@ "k8s.controller" :> "controller"
                    @@ "error.message" :> "error" @@ "error.stacktrace" :> "stacktrace")
        skip  == IF text.form = "zap console" THEN {"resource"} ELSE {}
        where == IF text.form = "zap console"
                 THEN NonEmpty("code.filepath" :> text.caller) ELSE <<>>
    IN  [named   |-> Prefixed("log.", Without(pairs, own \cup skip)) @@ named @@ where,
         error   |-> IF "error" \in own THEN Str(pairs, "error") ELSE "",
         message |-> IF text.form = "zap json" /\ text.message = Empty
                     THEN text.action ELSE text.message]

\* logrusLogProcessor.processLogRecord, of a record of the service, if one is
\* configured.
Logrus(cfg, rec) ==
    LET text  == BodyText(rec.body)
        info  == LogrusInfo(text)
        named == info.named @@ NonEmpty("log.level" :> text.level)
        shown == IF info.error = "" THEN info.message
                 ELSE [form |-> "with error", content |-> info.message, error |-> info.error]
        rated == Rated(SetAttrs(rec, named @@ "original_message" :> text),
                       cfg.adjustSeverity /\ text.level # "",
                       LevelSeverity(LogrusLevels, text.level))
    IN  IF text.form \notin LogrusForms THEN rec
        ELSE Rewritten(Timed(rated, cfg.parseTimestamp, text),
                       cfg.rewrite /\ info.message # Empty, shown)
==============================================================================
