------------------------------ MODULE ObjectLogs ------------------------------
(***************************************************************************)
(* The processors of records that come as objects: Kubernetes events and   *)
(* pods, Windows events, the events of Auth0; and the short lines of the   *)
(* snooze sources.                                                         *)
(*                                                                         *)
(* An object is flat here: a nested field has the path to it as its name,  *)
(* so that metadata.name is a field of its own.  A field is a string, but  *)
(* message, note and the text of a body are texts.                         *)
(***************************************************************************)
EXTENDS LogRecord

\* The fields of an object under the names of attributes, empty ones included.
Copied(fields, table) ==
    [name \in {n \in DOMAIN table : table[n] \in DOMAIN fields} |-> fields[table[name]]]

------------------------------------------------------------------------------
(* k8seventprocessor *)

\* The body is an object of a watch, wrapped in one of two ways, or an event itself.
K8sObject(body) ==
    /\ IsMap(body)
    /\ "format" \in DOMAIN body
    /\ \/ body.format \in {"structured", "object"}
       \/ body.format = "self" /\ Str(body.fields, "kind") = "Event"
    /\ Str(body.fields, "kind") \in {"Event", "Pod"}

\* What an event is about: older events name it as the object involved.
Regarding(fields) ==
    LET of(key) == [part \in {"kind", "name", "namespace"} |->
                       Str(fields, key \o "." \o part)]
    IN  IF Str(fields, "regarding.kind") = "" THEN of("involvedObject") ELSE of("regarding")

NoteOf(fields) ==
    IF TextAt(fields, "note") # Empty THEN fields["note"] ELSE TextAt(fields, "message")

\* processEventObject: the source a record already has is only replaced by the
\* field deprecatedSource.
EventAttrs(fields, attrs) ==
    LET source == CASE "deprecatedSource.component" \in DOMAIN fields ->
                         "k8s.event.source" :> fields["deprecatedSource.component"]
                    [] /\ "deprecatedSource.component" \notin DOMAIN fields
                       /\ "source.component" \in DOMAIN fields
                       /\ "k8s.event.source" \notin DOMAIN attrs ->
                         "k8s.event.source" :> fields["source.component"]
                    [] OTHER -> <<>>
    IN  source @@ NonEmpty("k8s.event.type" :> Str(fields, "type")
                           @@ "k8s.event.reason" :> Str(fields, "reason")
                           @@ Prefixed("k8s.event.regarding.", Regarding(fields)))

EventMessage(fields) ==
    LET about == Regarding(fields)
        named == about.kind # "" /\ about.name # ""
        reason == Str(fields, "reason")
    IN  IF ~named /\ reason = "" /\ NoteOf(fields) = Empty THEN Empty
        ELSE [form |-> "k8s event", about |-> IF named THEN NonEmpty(about) ELSE <<>>,
              reason |-> reason, content |-> NoteOf(fields)]

\* processPodObject.  The list of container statuses may be missing: containers is
\* the set of the lists there are.
Restarts(list) == FoldLeft(LAMBDA n, c : n + c.restarts, 0, list)
Ready(list)    == Len(SelectSeq(list, LAMBDA c : c.ready))

PodAttrs(body) ==
    NonEmpty("k8s.pod.name" :> Str(body.fields, "metadata.name")
             @@ "k8s.pod.namespace" :> Str(body.fields, "metadata.namespace")
             @@ "k8s.pod.uid" :> Str(body.fields, "metadata.uid")
             @@ "k8s.node.name" :> Str(body.fields, "spec.nodeName")
             @@ "k8s.pod.status.phase" :> Str(body.fields, "status.phase"))
    @@ (IF body.containers = {} THEN <<>>
        ELSE LET list == CHOOSE l \in body.containers : TRUE
             IN  "k8s.pod.restarts" :> Restarts(list)
                 @@ "k8s.pod.ready" :> <<Ready(list), Len(list)>>)

PodMessage(body) ==
    IF Str(body.fields, "metadata.name") = "" THEN Empty
    ELSE [form |-> "k8s pod", shown |-> PodAttrs(body)]

\* collectParity: read from the body before the other fields replace it.
Parity(body) ==
    LET fields == body.fields
        kind   == fields["kind"]
        action == IF body.format = "self" THEN <<>>
                  ELSE Copied([type |-> body.action], "k8s.object.action" :> "type")
        common == Copied(fields,
                    "k8s.namespace" :> "metadata.namespace" @@ "k8s.name" :> "metadata.name"
                    @@ "k8s.labels.app" :> "metadata.labels.app"
                    @@ "k8s.labels.environment" :> "metadata.labels.environment"
                    @@ "k8s.labels.job_name" :> "metadata.labels.job-name")
        event  == Copied(fields,
                    "k8s.event.type" :> "type" @@ "k8s.event.reason" :> "reason"
                    @@ "k8s.event.note" :> "note" @@ "k8s.event.count" :> "deprecatedCount"
                    @@ "k8s.event.regarding.kind" :> "regarding.kind"
                    @@ "k8s.event.regarding.name" :> "regarding.name"
                    @@ "k8s.event.regarding.namespace" :> "regarding.namespace")
        lists  == {l \in body.containers : l # <<>>}
        state  == IF lists = {} THEN <<>>
                  ELSE LET first == (CHOOSE l \in lists : TRUE)[1]
                       IN  (IF first.state \in {"running", "terminated"}
                            THEN "k8s.container.state" :> first.state ELSE <<>>)
                           @@ NonEmpty("k8s.container.exit_code" :> first.exitCode)
        pod    == Copied(fields, "k8s.pod.phase" :> "status.phase") @@ state
        detail == IF kind = "Event" THEN Str(fields, "reason") ELSE Str(fields, "status.phase")
        message == [form |-> "k8sobject", kind |-> kind, detail |-> detail,
                    about |-> action @@ (IF {"k8s.namespace", "k8s.name"} \subseteq DOMAIN common
                                         THEN common ELSE <<>>)]
    IN  [attrs |-> "k8s.object.kind" :> kind @@ "message_type" :> "k8sobject"
                   @@ "message" :> message @@ "k8s.object.full" :> body
                   @@ action @@ common @@ (IF kind = "Event" THEN event ELSE pod),
         message |-> message,
         sev   |-> CASE kind = "Pod" -> {INFO}
                     [] kind = "Event" /\ Str(fields, "type") = "Warning" -> {WARN}
                     [] kind = "Event" /\ Str(fields, "type") = "Normal" -> {INFO}
                     [] OTHER -> {}]

\* k8sEventProcessor.processLogRecord; with ottl_parity the staged fields go over
\* whatever the other handlers set.
K8sEvent(cfg, rec) ==
    LET body  == rec.body
        event == body.fields["kind"] = "Event"
        named == SetAttrs(rec, IF event THEN EventAttrs(body.fields, rec.attrs)
                               ELSE PodAttrs(body))
        bad   == IF event /\ Str(body.fields, "type") = "Warning" THEN WARN
                 ELSE IF ~event /\ Str(body.fields, "status.phase") = "Failed" THEN ERROR
                 ELSE INFO
        done  == Rewritten([named EXCEPT !.sev = IF cfg.adjustSeverity THEN bad ELSE @],
                           cfg.rewrite,
                           IF event THEN EventMessage(body.fields) ELSE PodMessage(body))
        parity == Parity(body)
    IN  IF ~K8sObject(body) THEN rec
        ELSE IF ~cfg.parity THEN done
             ELSE [SetAttrs(done, parity.attrs) EXCEPT
                     !.body = parity.message,
                     !.sev  = IF parity.sev = {} THEN @
                              ELSE CHOOSE sev \in parity.sev : TRUE]

------------------------------------------------------------------------------
(* winlogprocessor: severity and shape of the records no rule drops *)

WindowsLevels == 0 :> INFO @@ 1 :> FATAL @@ 2 :> ERROR @@ 3 :> WARN @@ 4 :> INFO @@ 5 :> DEBUG

\* eventFields.severity: the keywords of the XML decide where it has any, else those
\* of the body.  A level that is not known is -1.
WindowsSeverity(rec) ==
    LET xml     == TextAt(rec.attrs, "log.record.original")
        failure == IF xml # Empty /\ xml.hasKeywords THEN xml.auditFailure
                   ELSE "Audit Failure" \in rec.body.keywords
    IN  CASE failure -> {WARN}
          [] ~failure /\ rec.body.level \in DOMAIN WindowsLevels ->
               {WindowsLevels[rec.body.level]}
          [] OTHER -> {}

\* moveOriginal: the XML is cut at the cap.
WithOriginal(cfg, rec) ==
    LET xml == TextAt(rec.attrs, "log.record.original")
        cut == cfg.maxOriginal > 0 /\ xml.size > cfg.maxOriginal
    IN  IF xml = Empty THEN rec
        ELSE [rec EXCEPT !.attrs =
                ("original_message" :> (IF cut THEN [form |-> "cut", content |-> xml] ELSE xml))
                @@ (IF cut THEN "original_message.truncated" :> TRUE ELSE <<>>)
                @@ Without(@, {"log.record.original"})]

\* winlogProcessor.shape, of a record whose body names a channel.
Windows(cfg, rec) ==
    LET body    == rec.body
        fields  == body.fields
        sev     == WindowsSeverity(rec)
        header  == Named(fields,
                     "winlog.channel" :> "channel" @@ "winlog.provider_name" :> "provider.name"
                     @@ "winlog.provider_guid" :> "provider.guid"
                     @@ "winlog.computer_name" :> "computer" @@ "winlog.task" :> "task"
                     @@ "winlog.opcode" :> "opcode"
                     @@ "winlog.user.identifier" :> "security.user_id"
                     @@ "winlog.event_id" :> "event_id.id" @@ "winlog.record_id" :> "record_id"
                     @@ "winlog.process.pid" :> "execution.process_id"
                     @@ "winlog.process.thread.id" :> "execution.thread_id")
        named   == "log.source" :> ("winlog:" \o fields["channel"])
                   @@ header @@ Prefixed("winlog.event_data.", body.data)
                   @@ (IF body.keywords = {} THEN <<>> ELSE "winlog.keywords" :> body.keywords)
        message == IF TextAt(fields, "message") # Empty THEN fields["message"]
                   ELSE [form |-> "fallback", provider |-> Str(fields, "provider.name"),
                         id |-> Str(fields, "event_id.id"), data |-> body.data]
        digits  == sev = {} /\ rec.sev.text = "digits"
        rated   == IF sev # {} THEN CHOOSE s \in sev : TRUE
                   ELSE IF digits THEN Sev(rec.sev.number, "") ELSE rec.sev
    IN  IF ~IsMap(body) THEN rec
        ELSE IF Str(fields, "channel") = "" THEN rec
             ELSE [SetAttrs(WithOriginal(cfg, rec), named) EXCEPT
                     !.sev = rated, !.body = message]

------------------------------------------------------------------------------
(* auth0receiver: the record of one envelope *)

\* decodeEnvelope: an envelope of another source, or whose detail is no object, is
\* not one of Auth0's.
ValidEnvelope(env) == env.ours /\ env.detail.form = "auth0 detail"

\* severityFor, of a type by the class it belongs to.
Auth0Severity(class) ==
    CASE class = "f" -> Sev(17, "Error")
      [] class = "w" -> Sev(13, "Warn")
      [] OTHER -> Sev(9, "Info")

\* The record mapEnvelope makes of an envelope with data.
Auth0Record(env) ==
    LET event == env.detail.data
        id    == IF Str(env.detail, "logId") # "" THEN env.detail.logId ELSE Str(event, "logId")
        named == Named(event,
                   "auth0.type" :> "type" @@ "auth0.client_name" :> "clientName"
                   @@ "auth0.connection" :> "connection" @@ "user.id" :> "userId"
                   @@ "user.name" :> "userName" @@ "client.address" :> "ip"
                   @@ "user_agent.original" :> "userAgent")
                 @@ NonEmpty("auth0.log_id" :> id @@ "event.id" :> id)
                 @@ "log.source" :> "auth0" @@ "event.category" :> "authentication"
                 @@ "original_message" :> env.detail
        said  == TextAt(env.detail, "description")
    IN  [body  |-> IF said # Empty THEN said
                   ELSE [form |-> "auth0 type", name |-> Str(event, "type")],
         attrs |-> named,
         sev   |-> Auth0Severity(event["class"]),
         time  |-> IF event["date"] # 0 THEN event["date"] ELSE env.time]

\* What the receiver makes of an envelope: nothing of one that is not valid, nor of
\* one without data, which mapEnvelope answers with an error.
Auth0Logs(env) ==
    IF ~ValidEnvelope(env) \/ DOMAIN env.detail.data = {} THEN {}
    ELSE {[res  |-> "service.name" :> "auth0"
                    @@ Named(env, "cloud.account.id" :> "account"
                                  @@ "cloud.region" :> "region"),
           recs |-> <<Auth0Record(env)>>]}

------------------------------------------------------------------------------
(* snoozelogprocessor *)

\* matches: a rule names the container and its namespace, and both must be known.
SnoozeSource(cfg, res) ==
    /\ {"k8s.namespace.name", "k8s.container.name"} \subseteq DOMAIN res
    /\ <<res["k8s.namespace.name"], res["k8s.container.name"]>> \in cfg.match

SnoozeLevels ==
    "DEBUG" :> DEBUG @@ "INFO" :> INFO @@ [level \in {"WARN", "WARNING"} |-> WARN]
    @@ "ERROR" :> ERROR @@ [level \in {"FATAL", "CRITICAL"} |-> FATAL]

\* parse: only the first line is read, later lines stay behind the message.
Snooze(cfg, rec) ==
    LET text == rec.body
        more == TextAt(text, "rest")
    IN  IF text.form # "snooze" THEN rec
        ELSE IF text.level \notin DOMAIN SnoozeLevels THEN rec
             ELSE [rec EXCEPT
                     !.sev  = SnoozeLevels[text.level],
                     !.body = IF more = Empty THEN text.content
                              ELSE [form |-> "lines", content |-> text.content, rest |-> more]]
==============================================================================
